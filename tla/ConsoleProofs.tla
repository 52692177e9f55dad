----------------------------- MODULE ConsoleProofs -----------------------------
(***************************************************************************)
(* Theorems about Console, for every number of processes, every size of the *)
(* buffer, all keys, texts, sizes of reads and timeouts.                    *)
(***************************************************************************)
EXTENDS Console, Lemmas

-----------------------------------------------------------------------------
(* The inductive invariant *)

Places == {"user", "wait", "load", "store", "poll", "text", "send", "edit",
           "advance", "scroll"}
Key == {"arrow", "backspace", "l_shift", "r_shift", "enter", "escape", "windows", "letter"}
Character == {"esc", "[", "A", "back", "\n", "nul", "a"}
Piece == {"a", "\n", "\r", "bell", "back", "clear", "nul", "unknown escape",
          "broken sequence", "style", "colour", "cut"}
Symbols == [to : {"vga", "serial"}, symbol : Piece \cup {"?"}]
CallRecords == [at : Places, left : Int, key : Character \cup {NoKey}, timeout : Int,
                text : Seq(Piece), sends : Seq(Symbols)]

\* A call that is at an output has a symbol for it.
Calls ==
    {c \in CallRecords : c.at \in {"send", "edit", "advance", "scroll"} => c.sends # << >>}

Keyboard == [held : SUBSET Shifts, rest : Key \cup {NoKey}]

RingTypes ==
    /\ buffer \in [0 .. Size - 1 -> Character]
    /\ in_index \in 0 .. Size - 1
    /\ out_index \in 0 .. Size - 1
    /\ typed \in Seq(Character)
    /\ disordered \in BOOLEAN

CallTypes == call \in [Process -> Calls]

\* The handler waits for the second code of a release when the device has one to
\* send, and knows that a shift is down unless both are.
HandlerInv ==
    /\ release \in BOOLEAN
    /\ shifted \in BOOLEAN
    /\ keyboard \in Keyboard
    /\ release = (keyboard.rest # NoKey)
    /\ keyboard.rest \in Shifts => keyboard.rest \in keyboard.held
    /\ ~disordered =>
          /\ shifted = (keyboard.held # {})
          /\ keyboard.held # Shifts

Reading(p) == call[p].at \in {"load", "store"}

\* One reader at a time, and it takes a key that is there.
ReaderInv ==
    ~disordered =>
        /\ \A p, q \in Process : Reading(p) /\ Reading(q) => p = q
        /\ \A p \in Process : Reading(p) => typed # << >>

KeysInv ==
    /\ RingTypes
    /\ CallTypes
    /\ HandlerInv
    /\ ReaderInv
    /\ KeysInOrder

-----------------------------------------------------------------------------
(* The ring *)

LEMMA Wrap ==
    ASSUME NEW n \in Nat \ {0}, NEW a \in 0 .. 2 * n - 1
    PROVE  a % n = IF a < n THEN a ELSE a - n
  <1>1. ASSUME NEW q \in Nat, NEW r \in 0 .. n - 1
        PROVE  (n * q + r) % n = r
    OBVIOUS
  <1>2. CASE a < n
    <2>1. a \in 0 .. n - 1 /\ n * 0 + a = a
      BY <1>2
    <2> QED BY <2>1, <1>1, <1>2
  <1>3. CASE a >= n
    <2>1. a - n \in 0 .. n - 1 /\ n * 1 + (a - n) = a
      BY <1>3
    <2> QED BY <2>1, <1>1, <1>3
  <1> QED BY <1>2, <1>3

\* How many keys wait between two indices, and where key i of them is.
Between(i, o) == IF i >= o THEN i - o ELSE i - o + Size
Place(o, i) == IF o + i - 1 < Size THEN o + i - 1 ELSE o + i - 1 - Size

LEMMA RingPlaces ==
    ASSUME NEW i \in 0 .. Size - 1, NEW o \in 0 .. Size - 1
    PROVE  /\ (i - o + Size) % Size = Between(i, o)
           /\ Between(i, o) \in 0 .. Size - 1
           /\ \A k \in 1 .. Size : /\ (o + k - 1) % Size = Place(o, k)
                                   /\ Place(o, k) \in 0 .. Size - 1
           /\ \A k \in 0 .. Size : (o + k) % Size = Place(o, k + 1)
  <1>1. Size \in Nat \ {0}
    BY SizeAssumption
  <1>2. (i - o + Size) \in 0 .. 2 * Size - 1
    BY <1>1
  <1>3. (i - o + Size) % Size = Between(i, o)
    <2> DEFINE a == i - o + Size
    <2>1. a \in 0 .. 2 * Size - 1
      BY <1>2
    <2>2. (IF a < Size THEN a ELSE a - Size) = Between(i, o)
      BY <1>1 DEF Between
    <2> HIDE DEF a
    <2>3. a % Size = IF a < Size THEN a ELSE a - Size
      BY <1>1, <2>1, Wrap
    <2>4. a % Size = Between(i, o)
      BY <2>2, <2>3
    <2> QED BY <2>4 DEF a
  <1>4. Between(i, o) \in 0 .. Size - 1
    BY <1>1 DEF Between
  <1>5. ASSUME NEW k \in 0 .. Size
        PROVE  /\ (o + k) % Size = Place(o, k + 1)
               /\ k # Size => Place(o, k + 1) \in 0 .. Size - 1
    <2> DEFINE a == o + k
    <2>1. a \in 0 .. 2 * Size - 1
      BY <1>1
    <2>2. (IF a < Size THEN a ELSE a - Size) = Place(o, k + 1)
      BY <1>1 DEF Place
    <2>3. k # Size => Place(o, k + 1) \in 0 .. Size - 1
      BY <1>1 DEF Place
    <2> HIDE DEF a
    <2>4. a % Size = IF a < Size THEN a ELSE a - Size
      BY <1>1, <2>1, Wrap
    <2>5. a % Size = Place(o, k + 1)
      BY <2>2, <2>4
    <2> QED BY <2>3, <2>5 DEF a
  <1>6. ASSUME NEW k \in 1 .. Size
        PROVE  /\ (o + k - 1) % Size = Place(o, k)
               /\ Place(o, k) \in 0 .. Size - 1
    <2> DEFINE j == k - 1
    <2>1. j \in 0 .. Size /\ j # Size /\ j + 1 = k /\ o + k - 1 = o + j
      BY <1>1
    <2> HIDE DEF j
    <2> QED BY <1>5, <2>1
  <1> QED BY <1>3, <1>4, <1>5, <1>6

\* The buffer holds list.
Holds(list, b, i, o) ==
    /\ Len(list) = Between(i, o)
    /\ \A k \in 1 .. Len(list) : list[k] = b[Place(o, k)]

LEMMA WaitingHolds ==
    ASSUME NEW b, NEW i \in 0 .. Size - 1, NEW o \in 0 .. Size - 1,
           NEW list \in Seq(Character)
    PROVE  [k \in 1 .. (i - o + Size) % Size |-> b[(o + k - 1) % Size]] = list
              <=> Holds(list, b, i, o)
  <1> DEFINE n == Between(i, o)
             waiting == [k \in 1 .. (i - o + Size) % Size |-> b[(o + k - 1) % Size]]
  <1>1. (i - o + Size) % Size = n /\ n \in 0 .. Size - 1
    BY RingPlaces
  <1>2. \A k \in 1 .. n : (o + k - 1) % Size = Place(o, k)
    <2>1. 1 .. n \subseteq 1 .. Size
      BY <1>1, SizeAssumption
    <2> QED BY <2>1, RingPlaces
  <1>3. waiting = [k \in 1 .. n |-> b[Place(o, k)]]
    BY <1>1, <1>2
  <1> HIDE DEF n, waiting
  <1>4. ASSUME waiting = list PROVE Holds(list, b, i, o)
    <2>1. Len(list) = n
      BY <1>1, <1>3, <1>4
    <2>2. \A k \in 1 .. n : list[k] = b[Place(o, k)]
      BY <1>3, <1>4
    <2> QED BY <2>1, <2>2 DEF Holds, n
  <1>5. ASSUME Holds(list, b, i, o) PROVE waiting = list
    <2>1. Len(list) = n /\ \A k \in 1 .. n : list[k] = b[Place(o, k)]
      BY <1>5 DEF Holds, n
    <2>2. list = [k \in 1 .. n |-> list[k]]
      BY <2>1
    <2> QED BY <1>3, <2>1, <2>2
  <1>6. waiting = list <=> Holds(list, b, i, o)
    BY <1>4, <1>5
  <1> QED BY <1>6 DEF waiting

LEMMA WaitingIs ==
    ASSUME RingTypes
    PROVE  Waiting = typed <=> Holds(typed, buffer, in_index, out_index)
  BY WaitingHolds DEF RingTypes, Waiting, Pending

LEMMA PlaceShift ==
    ASSUME NEW i \in 0 .. Size - 1, NEW o \in 0 .. Size - 1, NEW k \in 1 .. Size,
           Between(i, o) + k <= Size
    PROVE  Place(i, k) = Place(o, Between(i, o) + k)
  BY SizeAssumption DEF Between, Place

LEMMA PlaceOnce ==
    ASSUME NEW o \in 0 .. Size - 1, NEW j \in 1 .. Size, NEW k \in 1 .. Size,
           Place(o, j) = Place(o, k)
    PROVE  j = k
  BY SizeAssumption DEF Place

LEMMA FillRing ==
    ASSUME NEW i \in 0 .. Size - 1, NEW o \in 0 .. Size - 1, NEW k \in 0 .. Size,
           Between(i, o) + k < Size
    PROVE  Between(Place(i, k + 1), o) = Between(i, o) + k
  BY SizeAssumption DEF Between, Place

LEMMA DrainRing ==
    ASSUME NEW i \in 0 .. Size - 1, NEW o \in 0 .. Size - 1, Between(i, o) > 0
    PROVE  /\ Between(i, Place(o, 2)) = Between(i, o) - 1
           /\ \A k \in 1 .. Size - 1 : Place(Place(o, 2), k) = Place(o, k + 1)
  BY SizeAssumption DEF Between, Place

\* What the handler writes stands from in_index on, and nothing else changes.
LEMMA WrittenIs ==
    ASSUME RingTypes, NEW list \in Seq(Character), Len(list) <= 3
    PROVE  /\ Written(list) \in [0 .. Size - 1 -> Character]
           /\ \A k \in 1 .. Len(list) : Written(list)[Place(in_index, k)] = list[k]
           /\ \A s \in 0 .. Size - 1 :
                 (\A k \in 1 .. Len(list) : Place(in_index, k) # s)
                    => Written(list)[s] = buffer[s]
  <1> DEFINE n == Len(list)
  <1>1. /\ n \in Nat /\ n <= 3 /\ DOMAIN list = 1 .. n /\ 1 .. n \subseteq 1 .. Size
        /\ \A k \in 1 .. n : list[k] \in Character
    BY SizeAssumption
  <1>2. in_index \in 0 .. Size - 1 /\ buffer \in [0 .. Size - 1 -> Character]
    BY DEF RingTypes
  <1> HIDE DEF n
  <1>3. \A k \in 1 .. n : /\ (in_index + k - 1) % Size = Place(in_index, k)
                          /\ Place(in_index, k) \in 0 .. Size - 1
    BY <1>1, <1>2, RingPlaces
  <1>4. Written(list) =
           [s \in 0 .. Size - 1 |->
              IF \E k \in 1 .. n : Place(in_index, k) = s
              THEN list[CHOOSE k \in 1 .. n : (in_index + k - 1) % Size = s]
              ELSE buffer[s]]
    BY <1>1, <1>3 DEF Written
  <1>5. ASSUME NEW k \in 1 .. n
        PROVE  (CHOOSE j \in 1 .. n : (in_index + j - 1) % Size = Place(in_index, k)) = k
    <2> DEFINE c == CHOOSE j \in 1 .. n : (in_index + j - 1) % Size = Place(in_index, k)
    <2>1. c \in 1 .. n /\ (in_index + c - 1) % Size = Place(in_index, k)
      BY <1>3
    <2> HIDE DEF c
    <2>2. Place(in_index, c) = Place(in_index, k)
      BY <1>3, <2>1
    <2>3. c = k
      BY <1>1, <1>2, <2>1, <2>2, PlaceOnce
    <2> QED BY <2>3 DEF c
  <1>6. ASSUME NEW k \in 1 .. n
        PROVE  Written(list)[Place(in_index, k)] = list[k]
    <2> DEFINE s == Place(in_index, k)
    <2>1. s \in 0 .. Size - 1 /\ \E j \in 1 .. n : Place(in_index, j) = s
      BY <1>3
    <2>2. (CHOOSE j \in 1 .. n : (in_index + j - 1) % Size = s) = k
      BY <1>5
    <2> HIDE DEF s
    <2>3. Written(list)[s] = list[CHOOSE j \in 1 .. n : (in_index + j - 1) % Size = s]
      BY <1>4, <2>1
    <2> QED BY <2>2, <2>3 DEF s
  <1>7. ASSUME NEW s \in 0 .. Size - 1
        PROVE  /\ Written(list)[s] \in Character
               /\ (\A k \in 1 .. n : Place(in_index, k) # s)
                     => Written(list)[s] = buffer[s]
    <2>1. CASE \E k \in 1 .. n : Place(in_index, k) = s
      BY <2>1, <1>1, <1>6
    <2>2. CASE ~ \E k \in 1 .. n : Place(in_index, k) = s
      <3>1. Written(list)[s] = buffer[s]
        BY <2>2, <1>4
      <3> QED BY <3>1, <1>2
    <2> QED BY <2>1, <2>2
  <1>8. Written(list) \in [0 .. Size - 1 -> Character]
    <2>1. \A s \in 0 .. Size - 1 : Written(list)[s] \in Character
      BY <1>7
    <2>2. Written(list) = [s \in 0 .. Size - 1 |-> Written(list)[s]]
      BY <1>4
    <2> QED BY <2>1, <2>2
  <1> QED BY <1>6, <1>7, <1>8 DEF n

\* Keys that fit join those that wait.
LEMMA KeysWritten ==
    ASSUME RingTypes, NEW list \in Seq(Character), Len(list) <= 3,
           Holds(typed, buffer, in_index, out_index),
           Between(in_index, out_index) + Len(list) < Size
    PROVE  Holds(typed \o list, Written(list), Advanced(in_index, Len(list)), out_index)
  <1> DEFINE n == Between(in_index, out_index)
             m == Len(list)
             both == typed \o list
             b == Written(list)
  <1>1. /\ in_index \in 0 .. Size - 1 /\ out_index \in 0 .. Size - 1
        /\ typed \in Seq(Character) /\ m \in 0 .. Size
    BY SizeAssumption DEF RingTypes
  <1>2. n \in 0 .. Size - 1 /\ n + m < Size /\ Len(typed) = n
    BY <1>1, RingPlaces DEF Holds
  <1>3. \A k \in 1 .. n : typed[k] = buffer[Place(out_index, k)]
    BY <1>2 DEF Holds
  <1>4. /\ \A k \in 1 .. m : b[Place(in_index, k)] = list[k]
        /\ \A s \in 0 .. Size - 1 :
              (\A k \in 1 .. m : Place(in_index, k) # s) => b[s] = buffer[s]
    BY WrittenIs
  <1>5. Advanced(in_index, m) = Place(in_index, m + 1)
    BY <1>1, RingPlaces DEF Advanced
  <1>6. Between(Place(in_index, m + 1), out_index) = n + m
    BY <1>1, <1>2, FillRing
  <1>7. /\ Len(both) = n + m
        /\ \A k \in 1 .. n : both[k] = typed[k]
        /\ \A k \in 1 .. m : both[n + k] = list[k]
    BY SMTT(30), <1>1, <1>2
  <1>8. \A k \in 1 .. m : Place(in_index, k) = Place(out_index, n + k)
    <2> TAKE k \in 1 .. m
    <2>1. k \in 1 .. Size /\ Between(in_index, out_index) + k <= Size
      BY <1>1, <1>2, SizeAssumption
    <2> QED BY <1>1, <2>1, PlaceShift
  <1> HIDE DEF n, m, both, b
  <1>9. ASSUME NEW k \in 1 .. n + m PROVE both[k] = b[Place(out_index, k)]
    <2>1. CASE k \in 1 .. n
      <3>1. k \in 1 .. Size /\ Place(out_index, k) \in 0 .. Size - 1
        <4>1. k \in 1 .. Size
          BY SizeAssumption, <1>1, <1>2, <2>1
        <4> QED BY <1>1, <4>1, RingPlaces
      <3>2. \A j \in 1 .. m : Place(in_index, j) # Place(out_index, k)
        <4> SUFFICES ASSUME NEW j \in 1 .. m, Place(out_index, n + j) = Place(out_index, k)
                     PROVE  FALSE
          BY <1>8
        <4>1. n + j \in 1 .. Size
          BY SizeAssumption, <1>1, <1>2
        <4>2. n + j = k
          BY <4>1, <3>1, <1>1, PlaceOnce
        <4> QED BY <4>2, <2>1, <1>1, <1>2
      <3> QED BY <3>1, <3>2, <1>3, <1>4, <1>7, <2>1
    <2>2. CASE k \notin 1 .. n
      <3> DEFINE j == k - n
      <3>1. j \in 1 .. m /\ k = n + j
        BY <1>1, <1>2, <2>2
      <3> HIDE DEF j
      <3> QED BY <3>1, <1>4, <1>7, <1>8
    <2> QED BY <2>1, <2>2
  <1>10. Holds(both, b, Place(in_index, m + 1), out_index)
    BY <1>6, <1>7, <1>9 DEF Holds
  <1> QED BY <1>5, <1>10 DEF b, m, both

\* The first key leaves.
LEMMA KeyTaken ==
    ASSUME RingTypes, typed # << >>, Holds(typed, buffer, in_index, out_index)
    PROVE  /\ Holds(Tail(typed), buffer, in_index, Advanced(out_index, 1))
           /\ Head(typed) = buffer[out_index]
           /\ in_index # out_index
  <1> DEFINE n == Between(in_index, out_index)
  <1>1. /\ in_index \in 0 .. Size - 1 /\ out_index \in 0 .. Size - 1
        /\ typed \in Seq(Character) /\ 1 \in 0 .. Size
    BY SizeAssumption DEF RingTypes
  <1>2. n \in 1 .. Size - 1 /\ Len(typed) = n
    <2>1. Len(typed) = n /\ n \in 0 .. Size - 1
      BY <1>1, RingPlaces DEF Holds
    <2>2. Len(typed) # 0
      BY <1>1
    <2> QED BY <2>1, <2>2
  <1>3. \A k \in 1 .. n : typed[k] = buffer[Place(out_index, k)]
    BY <1>2 DEF Holds
  <1>4. Advanced(out_index, 1) = Place(out_index, 2)
    BY <1>1, RingPlaces DEF Advanced
  <1>5. /\ Between(in_index, Place(out_index, 2)) = n - 1
        /\ \A k \in 1 .. Size - 1 : Place(Place(out_index, 2), k) = Place(out_index, k + 1)
    BY <1>1, <1>2, DrainRing
  <1>6. /\ Len(Tail(typed)) = n - 1 /\ Head(typed) = typed[1]
        /\ \A k \in 1 .. n - 1 : Tail(typed)[k] = typed[k + 1]
    BY <1>1, <1>2
  <1>7. Place(out_index, 1) = out_index
    BY <1>1, SizeAssumption DEF Place
  <1>8. in_index # out_index
    BY <1>1, <1>2 DEF Between
  <1> HIDE DEF n
  <1>9. ASSUME NEW k \in 1 .. n - 1
        PROVE  Tail(typed)[k] = buffer[Place(Place(out_index, 2), k)]
    <2>1. k \in 1 .. Size - 1 /\ k + 1 \in 1 .. n
      BY SizeAssumption, <1>2
    <2> QED BY <2>1, <1>3, <1>5, <1>6
  <1>10. Head(typed) = buffer[out_index]
    BY <1>2, <1>3, <1>6, <1>7
  <1> QED BY <1>4, <1>5, <1>6, <1>8, <1>9, <1>10 DEF Holds


-----------------------------------------------------------------------------
(* Every step preserves the invariant *)

LEMMA InitKeys == Init => KeysInv
  <1> SUFFICES ASSUME Init PROVE KeysInv
    OBVIOUS
  <1>1. RingTypes
    BY SMTT(60), SizeAssumption DEF Init, RingTypes
  <1>2. CallTypes
    BY DEF Init, CallTypes, Calls, CallRecords, Idle, Places, NoKey, Symbols
  <1>3. HandlerInv
    BY DEF Init, HandlerInv, Keyboard, Shifts, NoKey
  <1>4. ReaderInv
    BY DEF Init, ReaderInv, Reading, Idle
  <1>5. KeysInOrder
    <2>1. Between(0, 0) = 0
      BY SizeAssumption DEF Between
    <2>2. Holds(typed, buffer, in_index, out_index)
      BY <2>1 DEF Init, Holds
    <2>3. Waiting = typed
      BY <1>1, <2>2, WaitingIs
    <2> QED BY <2>3 DEF Init, KeysInOrder, Idle
  <1> QED BY <1>1, <1>2, <1>3, <1>4, <1>5 DEF KeysInv

\* A call that goes on, away from the buffer.
Elsewhere(p, c) ==
    /\ call' = [call EXCEPT ![p] = c]
    /\ c.at \notin {"load", "store"}
    /\ UNCHANGED <<ring, keys>>

LEMMA ElsewhereStep ==
    ASSUME KeysInv, NEW p \in Process, NEW c \in Calls, Elsewhere(p, c)
    PROVE  KeysInv'
  <1>1. /\ call' \in [Process -> Calls]
        /\ \A q \in Process : call'[q] = IF q = p THEN c ELSE call[q]
        /\ c.at \notin {"load", "store"}
    BY DEF Elsewhere, KeysInv, CallTypes
  <1>2. /\ UNCHANGED <<buffer, in_index, out_index>>
        /\ UNCHANGED <<release, shifted, keyboard, typed, disordered>>
    BY DEF Elsewhere, ring, keys
  <1>3. RingTypes' /\ CallTypes' /\ HandlerInv'
    BY <1>1, <1>2 DEF KeysInv, RingTypes, CallTypes, HandlerInv
  <1>4. ReaderInv'
    BY <1>1, <1>2 DEF KeysInv, ReaderInv, Reading
  <1>5. KeysInOrder'
    BY <1>1, <1>2 DEF KeysInv, KeysInOrder, Waiting, Pending
  <1> QED BY <1>3, <1>4, <1>5 DEF KeysInv

\* So do several calls at once, none of which is at the buffer now.
LEMMA ElsewhereSteps ==
    ASSUME KeysInv, call' \in [Process -> Calls], UNCHANGED <<ring, keys>>,
           \A q \in Process : call'[q] = call[q] \/ call'[q].at \notin {"load", "store"}
    PROVE  KeysInv'
  <1>1. /\ UNCHANGED <<buffer, in_index, out_index>>
        /\ UNCHANGED <<release, shifted, keyboard, typed, disordered>>
    BY DEF ring, keys
  <1>2. RingTypes' /\ CallTypes' /\ HandlerInv'
    BY <1>1 DEF KeysInv, RingTypes, CallTypes, HandlerInv
  <1>3. ReaderInv'
    BY <1>1 DEF KeysInv, ReaderInv, Reading
  <1>4. KeysInOrder'
    BY <1>1 DEF KeysInv, KeysInOrder, Waiting, Pending
  <1> QED BY <1>2, <1>3, <1>4 DEF KeysInv

LEMMA SameKeys ==
    ASSUME KeysInv, UNCHANGED <<ring, keys, call>>
    PROVE  KeysInv'
  <1>1. /\ UNCHANGED <<buffer, in_index, out_index, call>>
        /\ UNCHANGED <<release, shifted, keyboard, typed, disordered>>
    BY DEF ring, keys
  <1> QED BY <1>1 DEF KeysInv, RingTypes, CallTypes, HandlerInv, ReaderInv, Reading,
                      KeysInOrder, Waiting, Pending

\* The handler when it writes: the code is of a key that goes down, and the shift
\* it remembers is the one that is held.
LEMMA PressStep ==
    ASSUME KeysInv, NEW key \in Keys, Press(key)
    PROVE  KeysInv'
  <1> DEFINE held == keyboard.held \cup ({key} \cap Shifts)
  <1>1. /\ RingTypes /\ CallTypes /\ HandlerInv /\ ReaderInv /\ KeysInOrder
        /\ keyboard.rest = NoKey /\ UNCHANGED <<out_index, call>>
    BY DEF KeysInv, Press
  <1>2. PICK characters \in Characters(key, shifted) :
          /\ Interrupt(key, characters)
          /\ \E meant \in Characters(key, keyboard.held # {}) :
                /\ Len(meant) = Len(characters)
                /\ key = "windows" => meant = characters
                /\ typed' = typed \o meant
          /\ disordered' = (disordered \/ Pending + Len(characters) >= Size \/ held = Shifts)
    BY DEF Press
  <1>3. PICK meant \in Characters(key, keyboard.held # {}) :
          /\ Len(meant) = Len(characters)
          /\ key = "windows" => meant = characters
          /\ typed' = typed \o meant
    BY <1>2
  <1>4. keyboard' = [keyboard EXCEPT !.held = held]
    BY DEF Press
  <1>5. key \in {"arrow", "backspace", "l_shift", "r_shift", "enter", "escape",
                 "windows", "letter"}
    BY KeysAssumption
  <1>6. ASSUME NEW b \in BOOLEAN, NEW x \in Characters(key, b)
        PROVE  x \in Seq(Character) /\ Len(x) <= 3
    <2> DEFINE Short(list) == list \in Seq(Character) /\ Len(list) <= 3
    <2>1. /\ Short(<<"esc", "[", "A">>) /\ Short(<<"back">>) /\ Short(<<"\n">>)
          /\ Short(<<"nul">>) /\ Short(<<"a">>) /\ Short(<<"A">>)
      BY DEF Character
    <2>2. Short(<< >>)
      OBVIOUS
    <2>3. \/ x = <<"esc", "[", "A">> \/ x = <<"back">> \/ x = << >>
          \/ x = <<"\n">> \/ x = <<"nul">> \/ x = <<"a">> \/ x = <<"A">>
      BY <1>5, <1>6 DEF Characters, Shifts
    <2> HIDE DEF Short
    <2>4. Short(x)
      BY <2>1, <2>2, <2>3, Zenon
    <2> QED BY <2>4 DEF Short
  <1>7. /\ shifted \in BOOLEAN /\ release = FALSE
        /\ characters \in Seq(Character) /\ Len(characters) <= 3
        /\ meant \in Seq(Character) /\ Len(meant) <= 3
    BY <1>1, <1>6 DEF HandlerInv
  <1>8. ASSUME shifted = (keyboard.held # {})
        PROVE  meant = characters
    <2>1. /\ meant \in Characters(key, shifted)
          /\ characters \in Characters(key, shifted)
      BY <1>8
    <2>2. CASE key # "windows"
      BY <1>5, <2>1, <2>2 DEF Characters, Shifts
    <2> QED BY <1>3, <2>2
  <1>9. key # "release"
    BY <1>5
  <1>10. /\ release' = FALSE
         /\ shifted' = IF key \in Shifts THEN TRUE ELSE shifted
         /\ buffer' = Written(characters)
         /\ in_index' = Advanced(in_index, Len(characters))
    BY <1>2, <1>7, <1>9 DEF Interrupt, ReleaseAfter, ShiftedAfter
  <1>11. RingTypes'
    <2>1. Written(characters) \in [0 .. Size - 1 -> Character]
      BY <1>1, <1>7, WrittenIs
    <2>2. Advanced(in_index, Len(characters)) \in 0 .. Size - 1
      <3>1. in_index + Len(characters) \in Nat /\ Size \in Nat \ {0}
        BY <1>1, <1>7, SizeAssumption DEF RingTypes
      <3>2. \A a \in Nat : a % Size \in 0 .. Size - 1
        BY <3>1
      <3> QED BY <3>1, <3>2 DEF Advanced
    <2>3. typed' \in Seq(Character)
      BY <1>1, <1>3, <1>7 DEF RingTypes
    <2>4. disordered' \in BOOLEAN
      BY <1>2
    <2> QED BY <2>1, <2>2, <2>3, <2>4, <1>1, <1>10 DEF RingTypes
  <1>12. CallTypes'
    BY <1>1 DEF CallTypes
  <1>13. /\ keyboard \in Keyboard
         /\ keyboard'.held = held /\ keyboard'.rest = NoKey
         /\ keyboard' \in Keyboard
    <2>1. keyboard \in Keyboard
      BY <1>1 DEF HandlerInv
    <2>2. held \in SUBSET Shifts
      BY <2>1 DEF Keyboard
    <2> HIDE DEF held
    <2> QED BY <2>1, <2>2, <1>1, <1>4 DEF Keyboard
  <1>14. ~disordered' => ~disordered /\ Pending + Len(characters) < Size /\ held # Shifts
    <2>1. Pending = Between(in_index, out_index) /\ Pending \in 0 .. Size - 1
      BY <1>1, RingPlaces DEF RingTypes, Pending
    <2>2. Len(characters) \in Nat /\ Size \in Nat /\ Pending \in Nat
      BY <2>1, <1>7, SizeAssumption
    <2> HIDE DEF held
    <2>3. ~disordered' =>
             ~disordered /\ ~(Pending + Len(characters) >= Size) /\ held # Shifts
      BY <1>2
    <2> QED BY <2>2, <2>3
  <1>15. HandlerInv'
    <2>1. shifted' \in BOOLEAN /\ release' \in BOOLEAN
      BY <1>7, <1>10
    <2>2. release' = (keyboard'.rest # NoKey) /\ NoKey \notin Shifts
      BY <1>10, <1>13 DEF NoKey, Shifts
    <2>3. ~disordered' => shifted' = (keyboard'.held # {}) /\ keyboard'.held # Shifts
      <3>1. CASE key \in Shifts
        BY <3>1, <1>10, <1>13, <1>14
      <3>2. CASE key \notin Shifts
        <4>1. held = keyboard.held
          BY <3>2
        <4> QED BY <4>1, <3>2, <1>1, <1>10, <1>13, <1>14 DEF HandlerInv
      <3> QED BY <3>1, <3>2
    <2> QED BY <2>1, <2>2, <2>3, <1>13 DEF HandlerInv
  <1>16. ReaderInv'
    <2>1. typed # << >> => typed' # << >>
      BY <1>1, <1>3, <1>7 DEF RingTypes
    <2> QED BY <2>1, <1>1, <1>14 DEF ReaderInv, Reading
  <1>17. KeysInOrder'
    <2> SUFFICES ASSUME ~disordered'
                 PROVE  /\ (Waiting = typed)'
                        /\ \A p \in Process : call'[p].at = "store" => call'[p].key = Head(typed')
      BY DEF KeysInOrder
    <2>1. /\ ~disordered /\ Pending + Len(characters) < Size /\ meant = characters
      BY <1>1, <1>8, <1>14 DEF HandlerInv
    <2>2. Holds(typed, buffer, in_index, out_index)
      BY <2>1, <1>1, WaitingIs DEF KeysInOrder
    <2>3. Between(in_index, out_index) + Len(characters) < Size
      BY <2>1, <1>1, RingPlaces DEF RingTypes, Pending
    <2>4. Holds(typed', buffer', in_index', out_index')
      BY <2>1, <2>2, <2>3, <1>1, <1>3, <1>7, <1>10, KeysWritten
    <2>5. (Waiting = typed)'
      BY <2>4, <1>11, WaitingHolds DEF RingTypes, Waiting, Pending
    <2>6. ASSUME NEW p \in Process, call[p].at = "store"
          PROVE  call[p].key = Head(typed')
      <3>1. typed # << >> /\ call[p].key = Head(typed)
        BY <2>1, <2>6, <1>1 DEF ReaderInv, Reading, KeysInOrder
      <3>2. Head(typed') = Head(typed)
        BY <3>1, <1>1, <1>3, <1>7 DEF RingTypes
      <3> QED BY <3>1, <3>2
    <2> QED BY <2>5, <2>6, <1>1
  <1> QED BY <1>11, <1>12, <1>15, <1>16, <1>17 DEF KeysInv

\* The handler when it does not.
LEMMA QuietStep ==
    ASSUME KeysInv, HandlerInv',
           UNCHANGED <<buffer, in_index, out_index, typed, disordered, call>>
    PROVE  KeysInv'
  <1>1. RingTypes' /\ CallTypes'
    BY DEF KeysInv, RingTypes, CallTypes
  <1>2. ReaderInv'
    BY DEF KeysInv, ReaderInv, Reading
  <1>3. KeysInOrder'
    BY DEF KeysInv, KeysInOrder, Waiting, Pending
  <1> QED BY <1>1, <1>2, <1>3 DEF KeysInv

LEMMA ReleaseStep ==
    ASSUME KeysInv, NEW key \in Keys, Release(key)
    PROVE  KeysInv'
  <1>1. /\ HandlerInv /\ RingTypes /\ keyboard.rest = NoKey
        /\ key \in Shifts => key \in keyboard.held
        /\ Interrupt("release", << >>)
        /\ keyboard' = [keyboard EXCEPT !.rest = key]
        /\ UNCHANGED <<out_index, typed, disordered, call>>
    BY DEF KeysInv, Release
  <1>2. key \in Key /\ key # NoKey
    BY KeysAssumption DEF NoKey, Key
  <1>3. /\ release' = TRUE /\ shifted' = shifted
        /\ UNCHANGED <<buffer, in_index>>
    BY <1>1 DEF Interrupt, ReleaseAfter, ShiftedAfter, Shifts
  <1>4. /\ keyboard'.rest = key /\ keyboard'.held = keyboard.held
        /\ keyboard' \in Keyboard
    BY <1>1, <1>2 DEF HandlerInv, Keyboard
  <1>5. HandlerInv'
    BY <1>1, <1>2, <1>3, <1>4 DEF HandlerInv
  <1> QED BY <1>1, <1>3, <1>5, QuietStep

LEMMA ReleasedStep == ASSUME KeysInv, Released PROVE KeysInv'
  <1> DEFINE key == keyboard.rest
  <1>1. /\ HandlerInv /\ RingTypes /\ key # NoKey
        /\ keyboard' = [held |-> keyboard.held \ {key}, rest |-> NoKey]
        /\ UNCHANGED <<out_index, typed, disordered, call>>
    BY DEF KeysInv, Released
  <1>2. PICK characters \in Characters(key, shifted) : Interrupt(key, characters)
    BY DEF Released
  <1>3. release = TRUE /\ key \in Key /\ key # "release"
    BY <1>1 DEF HandlerInv, Keyboard, Key
  <1>4. /\ release' = FALSE
        /\ shifted' = IF key \in Shifts THEN FALSE ELSE shifted
        /\ UNCHANGED <<buffer, in_index>>
    BY <1>2, <1>3 DEF Interrupt, ReleaseAfter, ShiftedAfter
  <1>5. /\ keyboard'.rest = NoKey /\ keyboard'.held = keyboard.held \ {key}
        /\ keyboard' \in Keyboard
        /\ keyboard.held \in SUBSET Shifts
    <2> DEFINE still == keyboard.held \ {key}
    <2>1. keyboard.held \in SUBSET Shifts /\ still \in SUBSET Shifts
      BY <1>1 DEF HandlerInv, Keyboard
    <2>2. keyboard' = [held |-> still, rest |-> NoKey]
      BY <1>1
    <2> HIDE DEF still
    <2>3. keyboard'.rest = NoKey /\ keyboard'.held = still /\ keyboard' \in Keyboard
      BY <2>1, <2>2 DEF Keyboard
    <2> QED BY <2>1, <2>3 DEF still
  <1>6. ~disordered => shifted' = (keyboard'.held # {}) /\ keyboard'.held # Shifts
    <2>1. CASE key \in Shifts
      <3>1. ~disordered => keyboard.held # Shifts /\ key \in keyboard.held
        BY <2>1, <1>1 DEF HandlerInv
      <3>2. ~disordered => keyboard.held \ {key} = {}
        BY <3>1, <2>1, <1>5 DEF Shifts
      <3>3. Shifts # {}
        BY DEF Shifts
      <3> QED BY <3>2, <3>3, <2>1, <1>4, <1>5
    <2>2. CASE key \notin Shifts
      <3>1. keyboard'.held = keyboard.held
        BY <2>2, <1>5
      <3> QED BY <2>2, <3>1, <1>1, <1>4 DEF HandlerInv
    <2> QED BY <2>1, <2>2
  <1>7. HandlerInv'
    <2>1. shifted' \in BOOLEAN /\ NoKey \notin Shifts
      BY <1>1, <1>4 DEF HandlerInv, NoKey, Shifts
    <2> QED BY <2>1, <1>1, <1>4, <1>5, <1>6 DEF HandlerInv
  <1> QED BY <1>1, <1>4, <1>7, QuietStep


-----------------------------------------------------------------------------
(* Reading *)

LEMMA CallFields ==
    ASSUME KeysInv, NEW p \in Process
    PROVE  /\ call[p] \in Calls /\ call[p].left \in Int /\ call[p].timeout \in Int
           /\ call[p].text \in Seq(Piece) /\ call[p].sends \in Seq(Symbols)
  BY DEF KeysInv, CallTypes, Calls, CallRecords

LEMMA ReadWaitStep == ASSUME KeysInv, NEW p \in Process, ReadWait(p) PROVE KeysInv'
  <1> DEFINE c == [call[p] EXCEPT !.at = "load"]
  <1>1. /\ RingTypes /\ CallTypes /\ HandlerInv /\ ReaderInv /\ KeysInOrder
        /\ call[p].at = "wait" /\ in_index # out_index
        /\ UNCHANGED <<buffer, in_index, out_index, release, shifted, keyboard, typed>>
    BY DEF KeysInv, ReadWait, At, Arrived, ring
  <1>2. disordered' = (disordered \/ \E q \in Process : call[q].at \in {"load", "store"})
    BY DEF ReadWait
  <1>3. call' = [call EXCEPT ![p] = c]
    BY DEF ReadWait, Goes
  <1>4. c \in Calls /\ c.at = "load"
    BY <1>1 DEF CallTypes, Calls, CallRecords, Places
  <1> HIDE DEF c
  <1>5. /\ call' \in [Process -> Calls]
        /\ \A q \in Process : call'[q] = IF q = p THEN c ELSE call[q]
    BY <1>1, <1>3, <1>4 DEF CallTypes
  <1>6. ~disordered' => ~disordered /\ \A q \in Process : ~Reading(q)
    BY <1>2 DEF Reading
  <1>7. RingTypes' /\ CallTypes'
    <2>1. disordered' \in BOOLEAN
      BY <1>2
    <2> QED BY <2>1, <1>1, <1>5 DEF RingTypes, CallTypes
  <1>8. HandlerInv'
    BY <1>1, <1>6 DEF HandlerInv
  <1>9. ~disordered' => typed # << >>
    <2> SUFFICES ASSUME ~disordered' PROVE typed # << >>
      OBVIOUS
    <2>1. Holds(typed, buffer, in_index, out_index)
      BY <1>1, <1>6, WaitingIs DEF KeysInOrder
    <2>2. Len(typed) = Between(in_index, out_index)
      BY <2>1 DEF Holds
    <2>3. Between(in_index, out_index) # 0
      BY <1>1, SizeAssumption DEF RingTypes, Between
    <2> QED BY <2>2, <2>3
  <1>10. ReaderInv'
    BY <1>1, <1>4, <1>5, <1>6, <1>9 DEF ReaderInv, Reading
  <1>11. KeysInOrder'
    BY <1>1, <1>4, <1>5, <1>6 DEF KeysInOrder, Waiting, Pending
  <1> QED BY <1>7, <1>8, <1>10, <1>11 DEF KeysInv

LEMMA ReadLoadStep == ASSUME KeysInv, NEW p \in Process, ReadLoad(p) PROVE KeysInv'
  <1> DEFINE c == [call[p] EXCEPT !.at = "store", !.key = buffer[out_index]]
  <1>1. /\ RingTypes /\ CallTypes /\ HandlerInv /\ ReaderInv /\ KeysInOrder
        /\ call[p].at = "load"
        /\ UNCHANGED <<buffer, in_index, out_index, release, shifted, keyboard, typed,
                       disordered>>
    BY DEF KeysInv, ReadLoad, At, ring, keys
  <1>2. call' = [call EXCEPT ![p] = c]
    BY DEF ReadLoad
  <1>3. c \in Calls /\ c.at = "store" /\ c.key = buffer[out_index]
    <2>1. buffer[out_index] \in Character /\ call[p] \in Calls
      BY <1>1 DEF RingTypes, CallTypes
    <2> QED BY <2>1 DEF Calls, CallRecords, Places
  <1> HIDE DEF c
  <1>4. /\ call' \in [Process -> Calls]
        /\ \A q \in Process : call'[q] = IF q = p THEN c ELSE call[q]
    BY <1>1, <1>2, <1>3 DEF CallTypes
  <1>5. RingTypes' /\ CallTypes' /\ HandlerInv'
    BY <1>1, <1>4 DEF RingTypes, CallTypes, HandlerInv
  <1>6. ReaderInv'
    BY <1>1, <1>3, <1>4 DEF ReaderInv, Reading
  <1>7. ~disordered => Head(typed) = buffer[out_index]
    <2> SUFFICES ASSUME ~disordered PROVE Head(typed) = buffer[out_index]
      OBVIOUS
    <2>1. typed # << >> /\ Holds(typed, buffer, in_index, out_index)
      BY <1>1, WaitingIs DEF ReaderInv, Reading, KeysInOrder
    <2> QED BY <2>1, <1>1, KeyTaken
  <1>8. KeysInOrder'
    BY <1>1, <1>3, <1>4, <1>7 DEF KeysInOrder, Waiting, Pending
  <1> QED BY <1>5, <1>6, <1>8 DEF KeysInv

LEMMA ReadStoreStep == ASSUME KeysInv, NEW p \in Process, ReadStore(p) PROVE KeysInv'
  <1>1. /\ RingTypes /\ CallTypes /\ HandlerInv /\ ReaderInv /\ KeysInOrder
        /\ call[p].at = "store" /\ out_index' = Advanced(out_index, 1)
        /\ UNCHANGED <<buffer, in_index, release, shifted, keyboard, disordered>>
    BY DEF KeysInv, ReadStore, At
  <1>2. typed' = IF typed = << >> THEN typed ELSE Tail(typed)
    BY DEF ReadStore
  <1>3. PICK c \in Calls : call' = [call EXCEPT ![p] = c] /\ c.at \in {"user", "wait"}
    <2>1. Idle \in Calls /\ Idle.at = "user"
      BY DEF Idle, Calls, CallRecords, Places
    <2>2. /\ [Idle EXCEPT !.at = "wait", !.left = call[p].left - 1] \in Calls
          /\ [Idle EXCEPT !.at = "wait", !.left = call[p].left - 1].at = "wait"
      <3>1. ASSUME NEW n \in Int
            PROVE  /\ [Idle EXCEPT !.at = "wait", !.left = n] \in Calls
                   /\ [Idle EXCEPT !.at = "wait", !.left = n].at = "wait"
        <4> DEFINE c == [Idle EXCEPT !.at = "wait", !.left = n]
        <4>1. Idle \in CallRecords
          BY <2>1 DEF Calls
        <4>2. c \in CallRecords /\ c.at = "wait"
          BY <4>1 DEF CallRecords, Places
        <4> QED BY <4>2 DEF Calls
      <3>2. call[p].left - 1 \in Int
        BY CallFields
      <3> QED BY <3>1, <3>2
    <2> QED BY <2>1, <2>2 DEF ReadStore, Return
  <1>4. /\ call' \in [Process -> Calls]
        /\ \A q \in Process : call'[q] = IF q = p THEN c ELSE call[q]
    BY <1>1, <1>3 DEF CallTypes
  <1>5. RingTypes'
    <2>1. Advanced(out_index, 1) \in 0 .. Size - 1
      <3>1. out_index + 1 \in Nat /\ Size \in Nat \ {0}
        BY <1>1, SizeAssumption DEF RingTypes
      <3>2. \A a \in Nat : a % Size \in 0 .. Size - 1
        BY <3>1
      <3> QED BY <3>1, <3>2 DEF Advanced
    <2>2. typed' \in Seq(Character)
      BY <1>1, <1>2 DEF RingTypes
    <2> QED BY <2>1, <2>2, <1>1 DEF RingTypes
  <1>6. CallTypes' /\ HandlerInv'
    BY <1>1, <1>4 DEF CallTypes, HandlerInv
  <1>7. ~disordered' => \A q \in Process : call'[q].at \notin {"load", "store"}
    BY <1>1, <1>3, <1>4 DEF ReaderInv, Reading
  <1>8. ReaderInv'
    BY <1>7 DEF ReaderInv, Reading
  <1>9. KeysInOrder'
    <2> SUFFICES ASSUME ~disordered PROVE (Waiting = typed)'
      BY <1>1, <1>7 DEF KeysInOrder
    <2>1. typed # << >> /\ Holds(typed, buffer, in_index, out_index)
      BY <1>1, WaitingIs DEF ReaderInv, Reading, KeysInOrder
    <2>2. Holds(typed', buffer', in_index', out_index')
      BY <2>1, <1>1, <1>2, KeyTaken
    <2> QED BY <2>2, <1>5, WaitingHolds DEF RingTypes, Waiting, Pending
  <1> QED BY <1>5, <1>6, <1>8, <1>9 DEF KeysInv

-----------------------------------------------------------------------------
(* The other calls *)

LEMMA SendsTyped == ASSUME NEW piece \in Piece PROVE Sends(piece) \in Seq(Symbols)
  <1>1. Message \in Seq({"?"}) /\ Len(Message) = 2
    BY DEF Message
  <1>2. /\ [i \in 1 .. Len(Message) |-> To("vga", Message[i])] \in Seq(Symbols)
        /\ [i \in 1 .. Len(Message) |-> To("serial", Message[i])] \in Seq(Symbols)
    <2>1. \A i \in 1 .. 2 : Message[i] = "?"
      BY <1>1
    <2>2. To("vga", "?") \in Symbols /\ To("serial", "?") \in Symbols
      BY DEF To, Symbols
    <2> QED BY <2>1, <2>2, <1>1
  <1>3. /\ <<To("vga", piece), To("serial", piece)>> \in Seq(Symbols)
        /\ <<To("vga", piece)>> \in Seq(Symbols)
    BY DEF To, Symbols
  <1>4. << >> \in Seq(Symbols)
    OBVIOUS
  <1>5. [i \in 1 .. Len(Message) |-> To("vga", Message[i])] \o
        [i \in 1 .. Len(Message) |-> To("serial", Message[i])] \in Seq(Symbols)
    BY <1>2
  <1>6. CASE piece \in Plain \cup {"back"}
    <2>1. Sends(piece) = <<To("vga", piece), To("serial", piece)>>
      <3>1. piece \notin Unknown /\ piece # "clear"
        BY <1>6 DEF Plain, Unknown
      <3> QED BY <1>6, <3>1, Zenon DEF Sends
    <2> QED BY <1>3, <2>1
  <1>7. CASE piece = "clear"
    <2>1. Sends(piece) = <<To("vga", piece)>>
      <3>1. piece \notin Plain \cup {"back"} /\ piece \notin Unknown
        BY <1>7 DEF Plain, Unknown
      <3> QED BY <1>7, <3>1, Zenon DEF Sends
    <2> QED BY <1>3, <2>1
  <1>8. CASE piece \in Unknown
    <2>1. Sends(piece) = [i \in 1 .. Len(Message) |-> To("vga", Message[i])] \o
                         [i \in 1 .. Len(Message) |-> To("serial", Message[i])]
      <3>1. piece \notin Plain \cup {"back"} /\ piece # "clear"
        BY <1>8 DEF Plain, Unknown
      <3> QED BY <1>8, <3>1, Zenon DEF Sends
    <2> QED BY <1>5, <2>1
  <1>9. CASE piece \notin Plain \cup Unknown \cup {"back", "clear"}
    <2>1. Sends(piece) = << >>
      BY <1>9, Zenon DEF Sends
    <2> QED BY <1>4, <2>1
  <1> QED BY <1>6, <1>7, <1>8, <1>9

\* The call with its next piece.
LEMMA BeginsIs ==
    ASSUME KeysInv, NEW p \in Process, call[p].text # << >>
    PROVE  /\ Begins(call[p]) \in Calls
           /\ Head(call[p].text) \in Piece
           /\ Begins(call[p]).sends = Sends(Head(call[p].text))
           /\ Begins(call[p]).at = IF Sends(Head(call[p].text)) = << >> THEN "text" ELSE "send"
  <1> DEFINE text == call[p].text
             rest == IF EndsText(Head(text)) THEN << >> ELSE Tail(text)
             at == IF Sends(Head(text)) = << >> THEN "text" ELSE "send"
             sends == Sends(Head(text))
             c == [call[p] EXCEPT !.text = rest, !.sends = sends, !.at = at]
  <1>1. call[p] \in CallRecords /\ text \in Seq(Piece)
    BY CallFields DEF Calls
  <1>2. rest \in Seq(Piece) /\ Head(text) \in Piece
    BY <1>1
  <1>3. /\ sends \in Seq(Symbols) /\ at \in {"text", "send"}
        /\ at = "send" => sends # << >>
    BY <1>2, SendsTyped
  <1>4. Begins(call[p]) = c
    BY DEF Begins
  <1> HIDE DEF rest, at, sends
  <1>5. c \in CallRecords /\ c.at = at /\ c.sends = sends
    BY <1>1, <1>2, <1>3 DEF CallRecords, Places
  <1>6. c \in Calls
    BY <1>3, <1>5 DEF Calls
  <1> QED BY <1>2, <1>4, <1>5, <1>6 DEF at, sends

LEMMA Joined ==
    ASSUME NEW S, NEW a \in Seq(S), NEW b \in Seq(S)
    PROVE  a \o b \in Seq(S) /\ Len(a \o b) = Len(a) + Len(b)
  OBVIOUS

\* Noise is what an output can be sent.
LEMMA NoiseTyped == ASSUME NEW noise \in Noise PROVE noise \in Seq(Symbols)
  <1>1. PICK n \in (0 .. Len(Message)) \X (0 .. Len(Message)) :
           noise = [i \in 1 .. n[1] |-> To("vga", "?")] \o
                   [i \in 1 .. n[2] |-> To("serial", "?")]
    BY DEF Noise
  <1>2. Len(Message) = 2
    BY DEF Message
  <1>3. To("vga", "?") \in Symbols /\ To("serial", "?") \in Symbols
    BY DEF To, Symbols
  <1>4. /\ [i \in 1 .. n[1] |-> To("vga", "?")] \in Seq(Symbols)
        /\ [i \in 1 .. n[2] |-> To("serial", "?")] \in Seq(Symbols)
    BY <1>2, <1>3
  <1> QED BY <1>1, <1>4

\* A call that goes on with noise is still inside its symbol, if it was.
LEMMA GarbledIs ==
    ASSUME NEW c \in Calls, c.sends # << >>, NEW noise \in Noise
    PROVE  LET g == Garbled(c, noise) IN
           /\ g \in Calls
           /\ c.at \in {"advance", "scroll"} => g.at = c.at
           /\ g.at = IF g.sends = << >> THEN "text" ELSE c.at
  <1> DEFINE inside == c.at \in {"advance", "scroll"}
             sends == IF inside THEN <<Head(c.sends)>> \o noise ELSE noise
             at == IF sends = << >> THEN "text" ELSE c.at
             g == [c EXCEPT !.sends = sends, !.at = at]
  <1>1. noise \in Seq(Symbols) /\ c \in CallRecords
    BY NoiseTyped DEF Calls
  <1>2. Head(c.sends) \in Symbols
    <2>1. c.sends \in Seq(Symbols)
      BY <1>1 DEF CallRecords
    <2> QED BY <2>1
  <1>3. sends \in Seq(Symbols) /\ (inside => sends # << >>)
    <2>1. CASE inside
      <3> DEFINE head == <<Head(c.sends)>>
      <3>1. head \in Seq(Symbols) /\ Len(head) = 1
        BY <1>2
      <3> HIDE DEF head
      <3>2. head \o noise \in Seq(Symbols) /\ Len(head \o noise) = 1 + Len(noise)
        BY <3>1, <1>1, Joined
      <3>3. head \o noise # << >>
        BY <3>2, <1>1
      <3> QED BY <2>1, <3>2, <3>3 DEF head
    <2>2. CASE ~inside
      BY <2>2, <1>1
    <2> QED BY <2>1, <2>2
  <1>4. Garbled(c, noise) = g
    BY DEF Garbled
  <1> HIDE DEF sends
  <1>5. at \in Places
    BY <1>1 DEF CallRecords, Places
  <1> HIDE DEF at
  <1>6. g \in CallRecords /\ g.at = at /\ g.sends = sends
    BY <1>1, <1>3, <1>5 DEF CallRecords
  <1>7. g \in Calls
    <2>1. at \in {"send", "edit", "advance", "scroll"} => sends # << >>
      BY DEF at
    <2> QED BY <2>1, <1>6 DEF Calls
  <1> QED BY <1>3, <1>4, <1>6, <1>7 DEF at

\* One message over another: the calls that send them go on with noise.
LEMMA OverwriteIs ==
    ASSUME KeysInv, NEW p \in Process, OverwriteMessage(p)
    PROVE  /\ call' \in [Process -> Calls]
           /\ call'[p].at \in {"text", "send"}
           /\ call'[p].sends # << >> <=> call'[p].at = "send"
           /\ \A q \in Process \ {p} :
                 \/ call'[q] = call[q]
                 \/ /\ Printing(call[q])
                    /\ call[q].at \in {"advance", "scroll"} => call'[q].at = call[q].at
                    /\ call'[q].at = IF call'[q].sends = << >> THEN "text" ELSE call[q].at
  <1> DEFINE begun == [call EXCEPT ![p] = Begins(call[p])]
             printing == {q \in Process : Printing(begun[q])}
  <1>1. call \in [Process -> Calls] /\ call[p].text # << >> /\ Printing(Begins(call[p]))
    BY DEF KeysInv, CallTypes, OverwriteMessage, PieceNext, Overwrites
  <1>2. PICK noise \in [printing -> Noise] :
           call' = [q \in Process |->
                      IF q \in printing THEN Garbled(begun[q], noise[q]) ELSE begun[q]]
    BY DEF OverwriteMessage
  <1>3. /\ Begins(call[p]) \in Calls
        /\ Begins(call[p]).at \in {"text", "send"}
        /\ Begins(call[p]).at = "text" => Begins(call[p]).sends = << >>
    BY <1>1, BeginsIs
  <1>4. /\ begun \in [Process -> Calls] /\ begun[p] = Begins(call[p])
        /\ \A q \in Process \ {p} : begun[q] = call[q]
    BY <1>1, <1>3
  <1> HIDE DEF begun
  <1>5. ASSUME NEW q \in printing
        PROVE  /\ q \in Process /\ Printing(begun[q])
               /\ call'[q] \in Calls
               /\ begun[q].at \in {"advance", "scroll"} => call'[q].at = begun[q].at
               /\ call'[q].at = IF call'[q].sends = << >> THEN "text" ELSE begun[q].at
    <2>1. /\ q \in Process /\ Printing(begun[q]) /\ begun[q] \in Calls
          /\ noise[q] \in Noise /\ begun[q].sends # << >>
      BY <1>4 DEF Printing, Calls
    <2>2. call'[q] = Garbled(begun[q], noise[q])
      BY <2>1, <1>2
    <2> HIDE DEF printing
    <2> QED BY <2>1, <2>2, GarbledIs
  <1>6. \A q \in Process : q \notin printing => call'[q] = begun[q]
    BY <1>2
  <1>7. p \in printing
    BY <1>1, <1>4
  <1>8. call' \in [Process -> Calls]
    <2>1. \A q \in Process : call'[q] \in Calls
      BY <1>4, <1>5, <1>6
    <2>2. call' = [q \in Process |-> call'[q]]
      BY <1>2
    <2> HIDE DEF printing
    <2> QED BY <2>1, <2>2
  <1>9. /\ call'[p].at \in {"text", "send"}
        /\ call'[p].sends # << >> <=> call'[p].at = "send"
    <2>1. call'[p].at = IF call'[p].sends = << >> THEN "text" ELSE Begins(call[p]).at
      BY <1>4, <1>5, <1>7
    <2>2. Begins(call[p]).at = "send"
      BY <1>1, <1>3 DEF Printing
    <2> QED BY <2>1, <2>2
  <1>10. ASSUME NEW q \in Process \ {p}
         PROVE  \/ call'[q] = call[q]
                \/ /\ Printing(call[q])
                   /\ call[q].at \in {"advance", "scroll"} => call'[q].at = call[q].at
                   /\ call'[q].at = IF call'[q].sends = << >> THEN "text" ELSE call[q].at
    BY <1>4, <1>5, <1>6
  <1> QED BY <1>8, <1>9, <1>10

LEMMA WriteSteps ==
    ASSUME KeysInv, NEW p \in Process,
           \/ \E text \in Texts, noblock \in BOOLEAN : Write(p, text, noblock)
           \/ WritePiece(p)
    PROVE  KeysInv'
  <1>1. call[p] \in Calls /\ call[p].text \in Seq(Piece)
    BY CallFields
  <1>2. ASSUME NEW text \in Texts, NEW noblock \in BOOLEAN, Write(p, text, noblock)
        PROVE  KeysInv'
    <2> DEFINE c == [call[p] EXCEPT !.at = "text", !.text = text]
    <2>1. CASE noblock
      BY <1>2, <2>1, SameKeys DEF Write, Stop
    <2>2. CASE ~noblock
      <3>1. text \in Seq(Piece)
        BY TextsAssumption DEF Piece
      <3>2. c \in Calls /\ c.at = "text"
        BY <1>1, <3>1 DEF Calls, CallRecords, Places
      <3>3. call' = [call EXCEPT ![p] = c] /\ UNCHANGED <<ring, keys>>
        BY <1>2, <2>2 DEF Write
      <3> HIDE DEF c
      <3> QED BY <3>2, <3>3, ElsewhereStep DEF Elsewhere
    <2> QED BY <2>1, <2>2
  <1>3. CASE WritePiece(p)
    <2> DEFINE text == call[p].text
    <2>1. CASE text = << >>
      <3>1. Idle \in Calls /\ Idle.at = "user"
        BY DEF Idle, Calls, CallRecords, Places
      <3>2. call' = [call EXCEPT ![p] = Idle] /\ UNCHANGED <<ring, keys>>
        BY <1>3, <2>1 DEF WritePiece, PieceNext, Return
      <3> QED BY <3>1, <3>2, ElsewhereStep DEF Elsewhere
    <2>2. CASE text # << >> /\ Head(text) = "style"
      BY <1>3, <2>2, SameKeys DEF WritePiece, PieceNext, Stop
    <2>3. CASE text # << >> /\ Head(text) # "style"
      <3> DEFINE c == Begins(call[p])
      <3>1. c \in Calls /\ c.at \in {"text", "send"}
        BY <2>3, BeginsIs
      <3>2. call' = [call EXCEPT ![p] = c] /\ UNCHANGED <<ring, keys>>
        BY <1>3, <2>3 DEF WritePiece
      <3> HIDE DEF c
      <3> QED BY <3>1, <3>2, ElsewhereStep DEF Elsewhere
    <2> QED BY <2>1, <2>2, <2>3
  <1> QED BY <1>2, <1>3

\* After a symbol is sent to an output.
LEMMA SentStep ==
    ASSUME KeysInv, NEW p \in Process, call[p].sends # << >>, Sent(p),
           UNCHANGED <<ring, keys>>
    PROVE  KeysInv'
  <1> DEFINE rest == Tail(call[p].sends)
             at == IF rest = << >> THEN "text" ELSE "send"
             c == [call[p] EXCEPT !.sends = rest, !.at = at]
  <1>1. call[p] \in Calls /\ rest \in Seq(Symbols)
    BY CallFields
  <1>2. call' = [call EXCEPT ![p] = c]
    BY DEF Sent
  <1>3. at \in {"text", "send"} /\ (at = "send" => rest # << >>)
    OBVIOUS
  <1> HIDE DEF rest, at
  <1>4. c \in Calls /\ c.at \in {"text", "send"}
    <2>1. call[p] \in CallRecords
      BY <1>1 DEF Calls
    <2>2. c \in CallRecords /\ c.at = at /\ c.sends = rest
      BY <2>1, <1>1, <1>3 DEF CallRecords, Places
    <2> QED BY <2>2, <1>3 DEF Calls
  <1> HIDE DEF c
  <1> QED BY <1>2, <1>4, ElsewhereStep DEF Elsewhere

\* A call that only goes to another place.
LEMMA GoesStep ==
    ASSUME KeysInv, NEW p \in Process, NEW place \in {"edit", "advance", "scroll"},
           call[p].sends # << >>, Goes(p, place), UNCHANGED <<ring, keys>>
    PROVE  KeysInv'
  <1> DEFINE c == [call[p] EXCEPT !.at = place]
  <1>1. c \in Calls /\ c.at = place
    <2>1. call[p] \in CallRecords
      BY CallFields DEF Calls
    <2>2. c \in CallRecords /\ c.at = place /\ c.sends = call[p].sends
      BY <2>1 DEF CallRecords, Places
    <2> QED BY <2>2 DEF Calls
  <1>2. call' = [call EXCEPT ![p] = c]
    BY DEF Goes
  <1> HIDE DEF c
  <1> QED BY <1>1, <1>2, ElsewhereStep DEF Elsewhere


LEMMA StepKeys == ASSUME KeysInv, NEW p \in Process, Step(p) PROVE KeysInv'
  <1>1. /\ call[p] \in Calls
        /\ call[p].at \in {"send", "edit", "advance", "scroll"} => call[p].sends # << >>
    BY CallFields DEF Calls
  <1>2. CASE ReadWait(p) \/ ReadLoad(p) \/ ReadStore(p)
    BY <1>2, ReadWaitStep, ReadLoadStep, ReadStoreStep
  <1>3. CASE WritePiece(p)
    BY <1>3, WriteSteps
  <1>4. CASE PollRound(p)
    <2> DEFINE timeout == IF call[p].timeout = -1 THEN -1 ELSE call[p].timeout - 1
               c == [call[p] EXCEPT !.timeout = timeout]
    <2>1. Idle \in Calls /\ Idle.at = "user"
      BY DEF Idle, Calls, CallRecords, Places
    <2>2. c \in Calls /\ c.at = "poll"
      <3>1. timeout \in Int /\ call[p] \in CallRecords /\ call[p].at = "poll"
        BY <1>4, CallFields DEF PollRound, At, Calls
      <3> HIDE DEF timeout
      <3>2. c \in CallRecords /\ c.at = "poll"
        BY <3>1 DEF CallRecords
      <3> QED BY <3>2 DEF Calls
    <2>3. /\ call' = [call EXCEPT ![p] = Idle] \/ call' = [call EXCEPT ![p] = c]
          /\ UNCHANGED <<ring, keys>>
      BY <1>4 DEF PollRound, Return
    <2> HIDE DEF c
    <2> QED BY <2>1, <2>2, <2>3, ElsewhereStep DEF Elsewhere
  <1>5. CASE SendSerial(p) \/ Edit(p) \/ EditEnd(p)
    <2>1. /\ call[p].at \in {"send", "edit"} /\ UNCHANGED <<ring, keys>>
          /\ Sent(p) \/ Goes(p, "edit")
      BY <1>5 DEF SendSerial, Edit, EditEnd, Sending, At
    <2> QED BY <2>1, <1>1, SentStep, GoesStep
  <1>6. CASE Put(p)
    <2>1. call[p].at = "send" /\ UNCHANGED <<ring, keys>>
      BY <1>6 DEF Put, Sending, At
    <2>2. call' = call \/ Goes(p, "advance")
      BY <1>6 DEF Put
    <2> QED BY <2>1, <2>2, <1>1, GoesStep, SameKeys
  <1>7. CASE Advance(p)
    BY <1>7, <1>1, GoesStep DEF Advance, At
  <1>8. CASE Scroll(p)
    <2>1. call[p].at = "scroll" /\ Sent(p) /\ UNCHANGED <<ring, keys>>
      BY <1>8 DEF Scroll, At
    <2> QED BY <2>1, <1>1, SentStep
  <1>9. CASE OverwriteMessage(p)
    <2>1. UNCHANGED <<ring, keys>>
      BY <1>9 DEF OverwriteMessage
    <2>2. \A q \in Process : call'[q] = call[q] \/ call'[q].at \notin {"load", "store"}
      <3>1. \A q \in Process : Printing(call[q]) => call[q].at \notin {"load", "store"}
        BY DEF Printing
      <3> QED BY <1>9, <3>1, OverwriteIs
    <2> QED BY <1>9, <2>1, <2>2, OverwriteIs, ElsewhereSteps
  <1> QED BY <1>2, <1>3, <1>4, <1>5, <1>6, <1>7, <1>8, <1>9 DEF Step

LEMMA NextKeys == KeysInv /\ [Next]_vars => KeysInv'
  <1> SUFFICES ASSUME KeysInv, [Next]_vars PROVE KeysInv'
    OBVIOUS
  <1>1. ASSUME NEW key \in Keys, Press(key) \/ Release(key)
        PROVE  KeysInv'
    BY <1>1, PressStep, ReleaseStep
  <1>2. CASE Released
    BY <1>2, ReleasedStep
  <1>3. ASSUME NEW p \in Process, NEW noblock \in BOOLEAN, NEW n \in ReadSizes,
               Read(p, n, noblock)
        PROVE  KeysInv'
    <2> DEFINE c == [call[p] EXCEPT !.at = "wait", !.left = n]
    <2>1. CASE noblock
      BY <1>3, <2>1, SameKeys DEF Read, Stop
    <2>2. CASE ~noblock
      <3>1. c \in Calls /\ c.at = "wait"
        <4>1. call[p] \in CallRecords /\ n \in Int
          BY CallFields, SizesAssumption DEF Calls
        <4>2. c \in CallRecords /\ c.at = "wait"
          BY <4>1 DEF CallRecords, Places
        <4> QED BY <4>2 DEF Calls
      <3>2. call' = [call EXCEPT ![p] = c] /\ UNCHANGED <<ring, keys>>
        BY <1>3, <2>2 DEF Read
      <3> HIDE DEF c
      <3> QED BY <3>1, <3>2, ElsewhereStep DEF Elsewhere
    <2> QED BY <2>1, <2>2
  <1>4. ASSUME NEW p \in Process, NEW noblock \in BOOLEAN, NEW text \in Texts,
               Write(p, text, noblock)
        PROVE  KeysInv'
    BY <1>4, WriteSteps
  <1>5. ASSUME NEW p \in Process, NEW timeout \in Timeouts, Poll(p, timeout)
        PROVE  KeysInv'
    <2> DEFINE c == [call[p] EXCEPT !.at = "poll", !.timeout = timeout]
    <2>1. c \in Calls /\ c.at = "poll"
      <3>1. call[p] \in CallRecords /\ timeout \in Int
        BY CallFields, SizesAssumption DEF Calls
      <3>2. c \in CallRecords /\ c.at = "poll"
        BY <3>1 DEF CallRecords, Places
      <3> QED BY <3>2 DEF Calls
    <2>2. call' = [call EXCEPT ![p] = c] /\ UNCHANGED <<ring, keys>>
      BY <1>5 DEF Poll
    <2> HIDE DEF c
    <2> QED BY <2>1, <2>2, ElsewhereStep DEF Elsewhere
  <1>6. ASSUME NEW p \in Process, NEW device, NEW operation, Device(p, device, operation)
        PROVE  KeysInv'
    BY <1>6, SameKeys DEF Device, Stop
  <1>7. ASSUME NEW p \in Process, Step(p)
        PROVE  KeysInv'
    BY <1>7, StepKeys
  <1>8. CASE Halted \/ UNCHANGED vars
    BY <1>8, SameKeys DEF Halted, vars
  <1> QED BY <1>1, <1>2, <1>3, <1>4, <1>5, <1>6, <1>7, <1>8 DEF Next

-----------------------------------------------------------------------------
(* The cells of the screen *)

LEMMA Division ==
    ASSUME NEW n \in Nat \ {0}, NEW a \in Nat
    PROVE  /\ a \div n \in Nat /\ a % n \in 0 .. n - 1
           /\ a = n * (a \div n) + (a % n)
  OBVIOUS

LEMMA Quotient ==
    ASSUME NEW n \in Nat \ {0}, NEW q \in Nat, NEW r \in 0 .. n - 1
    PROVE  (n * q + r) \div n = q /\ (n * q + r) % n = r
  OBVIOUS

LEMMA Product ==
    ASSUME NEW n \in Nat \ {0}, NEW q \in Nat
    PROVE  n * q \in Nat /\ n * (q + 1) = n * q + n
  OBVIOUS

LEMMA Monotone ==
    ASSUME NEW n \in Nat \ {0}, NEW q \in Nat, NEW r \in Nat, q < r
    PROVE  n * q + n <= n * r
  OBVIOUS

\* The row and the column of a cell.
Rows == 0 .. Height - 1
Columns == 0 .. Width - 1

LEMMA CellsAre ==
    ASSUME NEW i \in Cell
    PROVE  /\ i \div Width \in Rows /\ i % Width \in Columns
           /\ i = Width * (i \div Width) + (i % Width)
  <1>1. Width \in Nat \ {0} /\ Height \in Nat \ {0} /\ i \in Nat
    BY ScreenAssumption DEF Cell
  <1>2. i < Width * Height
    <2>1. Width * Height \in Nat
      BY <1>1, Product
    <2> QED BY <2>1 DEF Cell
  <1> DEFINE q == i \div Width
             r == i % Width
  <1>3. q \in Nat /\ r \in 0 .. Width - 1 /\ i = Width * q + r
    BY <1>1, Division
  <1> HIDE DEF q, r
  <1>4. q < Height
    <2> SUFFICES ASSUME ~(q < Height) PROVE FALSE
      OBVIOUS
    <2>1. Width * Height <= Width * q
      <3>1. CASE q = Height
        BY <3>1, <1>1, Product
      <3>2. CASE Height < q
        <4>1. Width * Height + Width <= Width * q
          BY <3>2, <1>1, <1>3, Monotone
        <4>2. Width * Height \in Nat /\ Width * q \in Nat
          BY <1>1, <1>3, Product
        <4> QED BY <4>1, <4>2, <1>1
      <3> QED BY <3>1, <3>2, <1>1, <1>3
    <2>2. Width * Height \in Nat /\ Width * q \in Nat
      BY <1>1, <1>3, Product
    <2> QED BY <2>1, <2>2, <1>1, <1>2, <1>3
  <1>5. q \in Rows /\ r \in Columns
    BY <1>1, <1>3, <1>4 DEF Rows, Columns
  <1> QED BY <1>3, <1>5 DEF q, r

LEMMA PlacesAre ==
    ASSUME NEW r \in Rows, NEW c \in Columns
    PROVE  /\ r * Width + c \in Cell
           /\ (r * Width + c) \div Width = r
           /\ (r * Width + c) % Width = c
  <1>1. Width \in Nat \ {0} /\ Height \in Nat \ {0} /\ r \in Nat /\ r + 1 \in Nat
    BY ScreenAssumption DEF Rows
  <1>2. r * Width = Width * r /\ Width * r \in Nat /\ Width * Height \in Nat
    BY <1>1, Product
  <1>3. Width * r + Width <= Width * Height
    BY <1>1, Monotone DEF Rows
  <1>4. Width * r + c \in Cell
    BY <1>1, <1>2, <1>3 DEF Cell, Columns
  <1>5. (Width * r + c) \div Width = r /\ (Width * r + c) % Width = c
    BY <1>1, Quotient DEF Columns
  <1> QED BY <1>2, <1>4, <1>5

\* The rest of a row from a column.
LEMMA RestOfRow ==
    ASSUME NEW r \in Rows, NEW c \in Columns, NEW i \in Cell
    PROVE  i \in r * Width + c .. r * Width + Width - 1
              <=> i \div Width = r /\ i % Width >= c
  <1> DEFINE q == i \div Width
             k == i % Width
  <1>1. /\ Width \in Nat \ {0} /\ r \in Nat /\ q \in Nat /\ k \in 0 .. Width - 1
        /\ c \in 0 .. Width - 1 /\ i = Width * q + k
    BY CellsAre, ScreenAssumption DEF Rows, Columns
  <1> HIDE DEF q, k
  <1>2. /\ r * Width = Width * r /\ Width * r \in Nat /\ Width * q \in Nat
    BY <1>1, Product
  <1> DEFINE rest == i \in r * Width + c .. r * Width + Width - 1
  <1>3. CASE q = r
    <2>1. rest <=> k >= c
      BY <1>1, <1>2, <1>3
    <2> QED BY <1>3, <2>1 DEF q, k
  <1>4. CASE q < r
    <2>1. Width * q + Width <= Width * r
      BY <1>1, <1>4, Monotone
    <2>2. i < Width * r + c
      BY <1>1, <1>2, <2>1
    <2>3. ~rest /\ q # r
      BY <1>1, <1>2, <1>4, <2>2
    <2> QED BY <2>3 DEF q
  <1>5. CASE r < q
    <2>1. Width * r + Width <= Width * q
      BY <1>1, <1>5, Monotone
    <2>2. i > Width * r + Width - 1
      BY <1>1, <1>2, <2>1
    <2>3. ~rest /\ q # r
      BY <1>1, <1>2, <1>5, <2>2
    <2> QED BY <2>3 DEF q
  <1> QED BY <1>1, <1>3, <1>4, <1>5

LEMMA CellBelow ==
    ASSUME NEW i \in Cell
    PROVE  /\ i + Width \in Cell <=> i \div Width # Height - 1
           /\ i + Width \in Cell => /\ (i + Width) \div Width = i \div Width + 1
                                    /\ (i + Width) % Width = i % Width
  <1> DEFINE q == i \div Width
             k == i % Width
  <1>1. /\ Width \in Nat \ {0} /\ Height \in Nat \ {0} /\ q \in Rows /\ k \in Columns
        /\ q \in Nat /\ q + 1 \in Nat /\ k \in 0 .. Width - 1 /\ i = Width * q + k
    BY CellsAre, ScreenAssumption DEF Rows, Columns
  <1> HIDE DEF q, k
  <1>2. i + Width = Width * (q + 1) + k /\ Width * (q + 1) \in Nat /\ Width * Height \in Nat
    BY <1>1, Product
  <1>3. (i + Width) \div Width = q + 1 /\ (i + Width) % Width = k
    <2> DEFINE j == Width * (q + 1) + k
    <2>1. j \div Width = q + 1 /\ j % Width = k
      BY <1>1, Quotient
    <2>2. i + Width = j
      BY <1>2
    <2> HIDE DEF j
    <2> QED BY <2>1, <2>2
  <1>4. CASE q = Height - 1
    <2>1. q + 1 = Height
      BY <1>1, <1>4
    <2>2. i + Width \notin Cell
      BY <1>1, <1>2, <2>1 DEF Cell
    <2> QED BY <1>4, <2>2 DEF q
  <1>5. CASE q # Height - 1
    <2>1. q + 1 < Height
      BY <1>1, <1>5 DEF Rows
    <2>2. Width * (q + 1) + Width <= Width * Height
      BY <1>1, <2>1, Monotone
    <2>3. i + Width \in Cell
      BY <1>1, <1>2, <2>2 DEF Cell
    <2> QED BY <1>3, <1>5, <2>3 DEF q, k
  <1> QED BY <1>4, <1>5

-----------------------------------------------------------------------------
(* The paper *)

Mark == Piece \cup {"?"}
Glyph == Mark \cup {Blank}
Erasing == {"\n", "\r", "back", "bell", "clear"}

\* The paper of OutputsAgree with a number of rows, and its steps.
Newline(s) == [s EXCEPT !.row = @ + 1, !.column = 0]

SymbolOn(s, symbol) ==
    CASE symbol = "\n" -> Newline(s)
      [] symbol = "\r" -> [s EXCEPT !.column = 0]
      [] symbol = "back" -> [s EXCEPT !.column = IF @ = 0 THEN 0 ELSE @ - 1]
      [] symbol = "bell" -> s
      [] symbol = "clear" ->
            [s EXCEPT !.cells = [place \in DOMAIN @ |->
                IF place[1] = s.row /\ place[2] >= s.column THEN Blank ELSE @[place]]]
      [] OTHER ->
            LET t == [s EXCEPT !.cells[<<s.row, s.column>>] = symbol] IN
            IF s.column = Width - 1 THEN Newline(t) ELSE [t EXCEPT !.column = @ + 1]

Empty(rows) ==
    [row |-> 0, column |-> 0, cells |-> [place \in (0 .. rows) \X (0 .. Width - 1) |-> Blank]]

PaperOf(out, rows) ==
    LET after[i \in 0 .. Len(out)] ==
            IF i = 0 THEN Empty(rows) ELSE SymbolOn(after[i - 1], out[i])
    IN after[Len(out)]

Sheets(rows) ==
    [row : Nat, column : Columns, cells : [(0 .. rows) \X Columns -> Glyph]]

\* Nothing stands below the row of the cursor.
Clean(t, rows) ==
    \A i \in 0 .. rows : \A j \in Columns : i > t.row => t.cells[<<i, j>>] = Blank

LEMMA PaperIs == Paper = PaperOf(output, Len(output) + Height)
  BY DEF Paper, PaperOf, Empty, SymbolOn, Newline

LEMMA SheetIs ==
    ASSUME NEW rows \in Nat, NEW t \in Sheets(rows)
    PROVE  /\ t.row \in Nat /\ t.column \in Columns
           /\ t.cells \in [(0 .. rows) \X Columns -> Glyph]
           /\ t = [row |-> t.row, column |-> t.column, cells |-> t.cells]
  BY DEF Sheets

LEMMA SheetOf ==
    ASSUME NEW rows \in Nat, NEW r \in Nat, NEW c \in Columns,
           NEW cells \in [(0 .. rows) \X Columns -> Glyph]
    PROVE  [row |-> r, column |-> c, cells |-> cells] \in Sheets(rows)
  BY DEF Sheets

LEMMA NewlineIs ==
    ASSUME NEW r \in Nat, NEW c \in Columns, NEW cells
    PROVE  Newline([row |-> r, column |-> c, cells |-> cells])
              = [row |-> r + 1, column |-> 0, cells |-> cells]
  <1> DEFINE s == [row |-> r, column |-> c, cells |-> cells]
             u == [s EXCEPT !.row = r + 1]
  <1>1. u = [row |-> r + 1, column |-> c, cells |-> cells] /\ s.row = r
    BY DEF Columns
  <1>2. Newline(s) = [u EXCEPT !.column = 0]
    BY <1>1, Zenon DEF Newline
  <1> HIDE DEF u
  <1>3. [u EXCEPT !.column = 0] = [row |-> r + 1, column |-> 0, cells |-> cells]
    BY <1>1
  <1> QED BY <1>2, <1>3

\* What a symbol does to the paper, by kind.
Erased(u, t, x, rows) ==
    /\ u.row = IF x = "\n" THEN t.row + 1 ELSE t.row
    /\ u.column = CASE x \in {"\n", "\r"} -> 0
                    [] x = "back" -> (IF t.column = 0 THEN 0 ELSE t.column - 1)
                    [] OTHER -> t.column
    /\ \A i \in 0 .. rows : \A j \in Columns :
          u.cells[<<i, j>>] = IF x = "clear" /\ i = t.row /\ j >= t.column THEN Blank
                              ELSE t.cells[<<i, j>>]

Printed(u, t, x, rows) ==
    /\ u.row = IF t.column = Width - 1 THEN t.row + 1 ELSE t.row
    /\ u.column = IF t.column = Width - 1 THEN 0 ELSE t.column + 1
    /\ \A i \in 0 .. rows : \A j \in Columns :
          u.cells[<<i, j>>] = IF i = t.row /\ j = t.column THEN x ELSE t.cells[<<i, j>>]

LEMMA SymbolIs ==
    ASSUME NEW rows \in Nat, NEW t \in Sheets(rows), NEW x \in Mark
    PROVE  /\ SymbolOn(t, x) \in Sheets(rows)
           /\ x \in Erasing => Erased(SymbolOn(t, x), t, x, rows)
           /\ x \notin Erasing => Printed(SymbolOn(t, x), t, x, rows)
  <1> DEFINE u == SymbolOn(t, x)
             Sheet(i, j, s) == [row |-> i, column |-> j, cells |-> s]
             r == t.row
             c == t.column
             cells == t.cells
             below == r + 1
  <1>1. /\ r \in Nat /\ c \in Columns /\ cells \in [(0 .. rows) \X Columns -> Glyph]
        /\ t = Sheet(r, c, cells) /\ below \in Nat /\ below = r + 1
    <2>1. /\ r \in Nat /\ c \in Columns /\ cells \in [(0 .. rows) \X Columns -> Glyph]
          /\ t = Sheet(r, c, cells)
      BY SheetIs, Zenon
    <2> HIDE DEF r
    <2>2. below \in Nat /\ below = r + 1
      BY <2>1
    <2> QED BY <2>1, <2>2
  <1>2. t.row = r /\ t.column = c /\ t.cells = cells
    OBVIOUS
  <1> HIDE DEF r, c, cells, below
  <1>3. Width \in Nat \ {0} /\ 0 \in Columns
    BY ScreenAssumption DEF Columns
  <1>4. CASE x = "\n"
    <2>1. u = Newline(t)
      BY <1>4, Zenon DEF SymbolOn
    <2>2. u = Sheet(below, 0, cells)
      <3>1. Newline(Sheet(r, c, cells)) = Sheet(r + 1, 0, cells)
        BY <1>1, NewlineIs
      <3> QED BY <2>1, <3>1, <1>1
    <2>3. u \in Sheets(rows)
      <3>1. Sheet(below, 0, cells) \in Sheets(rows)
        BY <1>1, <1>3, SheetOf
      <3> QED BY <3>1, <2>2
    <2> HIDE DEF u
    <2>4. Erased(u, t, x, rows)
      BY <1>1, <1>2, <1>4, <2>2 DEF Erased
    <2> QED BY <2>3, <2>4, <1>4 DEF Erasing, u
  <1>5. CASE x = "\r"
    <2>1. u = [t EXCEPT !.column = 0]
      BY <1>5, Zenon DEF SymbolOn
    <2>2. u = Sheet(r, 0, cells)
      BY <2>1, <1>1
    <2>3. u \in Sheets(rows)
      <3>1. Sheet(r, 0, cells) \in Sheets(rows)
        BY <1>1, <1>3, SheetOf
      <3> QED BY <3>1, <2>2
    <2> HIDE DEF u
    <2>4. Erased(u, t, x, rows)
      BY <1>2, <1>5, <2>2 DEF Erased
    <2> QED BY <2>3, <2>4, <1>5 DEF Erasing, u
  <1>6. CASE x = "back"
    <2> DEFINE d == IF c = 0 THEN 0 ELSE c - 1
    <2>1. u = [t EXCEPT !.column = IF @ = 0 THEN 0 ELSE @ - 1]
      BY <1>6, Zenon DEF SymbolOn
    <2>2. u = Sheet(r, d, cells)
      BY <2>1, <1>1
    <2>3. d \in Columns
      BY <1>1, <1>3 DEF Columns
    <2>4. u \in Sheets(rows)
      BY <1>1, <2>2, <2>3, SheetOf
    <2> HIDE DEF u
    <2>5. Erased(u, t, x, rows)
      BY <1>2, <1>6, <2>2 DEF Erased
    <2> QED BY <2>4, <2>5, <1>6 DEF Erasing, u
  <1>7. CASE x = "bell"
    <2>1. u = t
      BY <1>7, Zenon DEF SymbolOn
    <2> HIDE DEF u
    <2>2. Erased(u, t, x, rows)
      BY <1>7, <2>1 DEF Erased
    <2> QED BY <2>1, <2>2, <1>7 DEF Erasing, u
  <1>8. CASE x = "clear"
    <2> DEFINE left0 == [place \in DOMAIN cells |->
                           IF place[1] = r /\ place[2] >= c THEN Blank ELSE cells[place]]
    <2>1. u = [t EXCEPT !.cells = [place \in DOMAIN @ |->
                 IF place[1] = t.row /\ place[2] >= t.column THEN Blank ELSE @[place]]]
      BY <1>8, Zenon DEF SymbolOn
    <2>2. u = Sheet(r, c, left0)
      BY <2>1, <1>1
    <2>3. DOMAIN cells = (0 .. rows) \X Columns
      BY <1>1
    <2>4. left0 \in [(0 .. rows) \X Columns -> Glyph]
      BY <1>1, <2>3 DEF Glyph
    <2>5. \A i \in 0 .. rows : \A j \in Columns :
             left0[<<i, j>>] = IF i = r /\ j >= c THEN Blank ELSE cells[<<i, j>>]
      BY <2>3
    <2> HIDE DEF left0, u
    <2>6. u \in Sheets(rows)
      BY <1>1, <2>2, <2>4, SheetOf
    <2>7. Erased(u, t, x, rows)
      BY <1>2, <1>8, <2>2, <2>5 DEF Erased
    <2> QED BY <2>6, <2>7, <1>8 DEF Erasing, u
  <1>9. CASE x \notin Erasing
    <2> DEFINE now == [cells EXCEPT ![<<r, c>>] = x]
               s == [t EXCEPT !.cells[<<t.row, t.column>>] = x]
    <2>1. u = IF t.column = Width - 1 THEN Newline(s) ELSE [s EXCEPT !.column = @ + 1]
      BY <1>9, Zenon DEF SymbolOn, Erasing
    <2>2. s = Sheet(r, c, now)
      BY <1>1
    <2>3. now \in [(0 .. rows) \X Columns -> Glyph]
      BY <1>1 DEF Glyph
    <2>4. \A i \in 0 .. rows : \A j \in Columns :
             now[<<i, j>>] = IF i = r /\ j = c THEN x ELSE cells[<<i, j>>]
      BY <1>1
    <2> HIDE DEF now, s, u
    <2>5. CASE c = Width - 1
      <3>1. u = Sheet(below, 0, now)
        <4>1. Newline(Sheet(r, c, now)) = Sheet(r + 1, 0, now)
          BY <1>1, NewlineIs
        <4> QED BY <2>1, <2>2, <2>5, <1>1, <1>2, <4>1
      <3>2. u \in Sheets(rows)
        <4>1. Sheet(below, 0, now) \in Sheets(rows)
          BY <1>1, <1>3, <2>3, SheetOf
        <4> QED BY <3>1, <4>1
      <3>3. Printed(u, t, x, rows)
        BY <1>1, <1>2, <2>4, <2>5, <3>1 DEF Printed
      <3> QED BY <3>2, <3>3, <1>9 DEF u
    <2>6. CASE c # Width - 1
      <3>1. u = Sheet(r, c + 1, now)
        BY <2>1, <2>2, <2>6, <1>2
      <3>2. c + 1 \in Columns
        BY <1>1, <1>3, <2>6 DEF Columns
      <3>3. u \in Sheets(rows)
        BY <1>1, <2>3, <3>1, <3>2, SheetOf
      <3>4. Printed(u, t, x, rows)
        BY <1>2, <2>4, <2>6, <3>1 DEF Printed
      <3> QED BY <3>3, <3>4, <1>9 DEF u
    <2> QED BY <2>5, <2>6
  <1>10. x \in Erasing => x \in {"\n", "\r", "back", "bell", "clear"}
    BY DEF Erasing
  <1> HIDE DEF u
  <1> QED BY <1>4, <1>5, <1>6, <1>7, <1>8, <1>9, <1>10

\* The papers of all that was written, as a run.
PaperStep(rows) == [a \in Mark \X Sheets(rows) |-> SymbolOn(a[2], a[1])]

LEMMA PaperSteps ==
    ASSUME NEW rows \in Nat
    PROVE  /\ PaperStep(rows) \in [Mark \X Sheets(rows) -> Sheets(rows)]
           /\ \A x \in Mark, t \in Sheets(rows) : PaperStep(rows)[<<x, t>>] = SymbolOn(t, x)
           /\ Empty(rows) \in Sheets(rows)
  <1>1. PaperStep(rows) \in [Mark \X Sheets(rows) -> Sheets(rows)]
    BY SymbolIs DEF PaperStep
  <1>2. \A x \in Mark, t \in Sheets(rows) : PaperStep(rows)[<<x, t>>] = SymbolOn(t, x)
    BY DEF PaperStep
  <1>3. Empty(rows) \in Sheets(rows)
    <2> DEFINE blank == [place \in (0 .. rows) \X (0 .. Width - 1) |-> Blank]
    <2>1. blank \in [(0 .. rows) \X Columns -> Glyph]
      BY DEF Columns, Glyph
    <2>2. 0 \in Columns /\ 0 \in Nat
      BY ScreenAssumption DEF Columns
    <2>3. Empty(rows) = [row |-> 0, column |-> 0, cells |-> blank]
      BY DEF Empty
    <2> HIDE DEF blank
    <2> QED BY <2>1, <2>2, <2>3, SheetOf
  <1> QED BY <1>1, <1>2, <1>3

LEMMA PaperRuns ==
    ASSUME NEW rows \in Nat, NEW out \in Seq(Mark)
    PROVE  \E f : /\ Runs(f, out, Sheets(rows), Empty(rows), PaperStep(rows))
                  /\ PaperOf(out, rows) = f[Len(out)]
  <1> DEFINE n == Len(out)
             S == Sheets(rows)
             start == Empty(rows)
             step == PaperStep(rows)
             Def(f) == f = [i \in 0 .. n |->
                              IF i = 0 THEN start ELSE SymbolOn(f[i - 1], out[i])]
             W == CHOOSE f : Def(f)
  <1>1. PaperOf(out, rows) = W[n]
    BY DEF PaperOf
  <1>2. /\ step \in [Mark \X S -> S] /\ start \in S
        /\ \A x \in Mark, t \in S : step[<<x, t>>] = SymbolOn(t, x)
    BY PaperSteps
  <1>3. n \in Nat /\ \A i \in 1 .. n : out[i] \in Mark
    OBVIOUS
  <1> HIDE DEF n, S, start, step, Def, W
  <1>4. PICK f : Runs(f, out, S, start, step)
    BY <1>2, RunExists
  <1>5. /\ f \in [0 .. n -> S] /\ f[0] = start
        /\ \A i \in 1 .. n : f[i] = step[<<out[i], f[i - 1]>>]
    BY <1>4 DEF Runs, n
  <1>6. \A i \in 1 .. n : f[i] = SymbolOn(f[i - 1], out[i])
    <2>1. \A i \in 1 .. n : f[i - 1] \in S
      BY <1>3, <1>5
    <2> QED BY <2>1, <1>2, <1>3, <1>5
  <1>7. Def(f)
    <2>1. f = [i \in 0 .. n |-> f[i]]
      BY <1>5
    <2>2. \A i \in 0 .. n : f[i] = IF i = 0 THEN start ELSE SymbolOn(f[i - 1], out[i])
      BY <1>3, <1>5, <1>6
    <2> QED BY <2>1, <2>2 DEF Def
  <1>8. Def(W)
    BY <1>7 DEF W
  <1>9. /\ W = [i \in 0 .. n |-> W[i]]
        /\ \A i \in 0 .. n : W[i] = IF i = 0 THEN start ELSE SymbolOn(W[i - 1], out[i])
    BY <1>8 DEF Def
  <1>10. W[0] = start /\ \A i \in 1 .. n : W[i] = SymbolOn(W[i - 1], out[i])
    <2>1. 0 \in 0 .. n /\ \A i \in 1 .. n : i \in 0 .. n /\ i # 0
      BY <1>3
    <2> QED BY <2>1, <1>9, Zenon
  <1>11. \A i \in 1 .. n : W[i - 1] \in S => W[i] = step[<<out[i], W[i - 1]>>]
    BY <1>2, <1>3, <1>10
  <1>12. Runs(W, out, S, start, step)
    BY <1>2, <1>9, <1>10, <1>11, IsRun DEF n
  <1> QED BY <1>1, <1>12 DEF n, S, start, step

LEMMA PaperGrows ==
    ASSUME NEW rows \in Nat, NEW out \in Seq(Mark), NEW x \in Mark
    PROVE  /\ PaperOf(out, rows) \in Sheets(rows)
           /\ PaperOf(<< >>, rows) = Empty(rows)
           /\ PaperOf(Append(out, x), rows) = SymbolOn(PaperOf(out, rows), x)
  <1> DEFINE S == Sheets(rows)
             start == Empty(rows)
             step == PaperStep(rows)
             more == Append(out, x)
  <1>1. more \in Seq(Mark) /\ Len(more) = Len(out) + 1 /\ Len(out) \in Nat
        /\ << >> \in Seq(Mark) /\ Len(<< >>) = 0
    OBVIOUS
  <1>2. PICK f : Runs(f, out, S, start, step) /\ PaperOf(out, rows) = f[Len(out)]
    BY PaperRuns
  <1>3. PICK g : Runs(g, more, S, start, step) /\ PaperOf(more, rows) = g[Len(more)]
    BY <1>1, PaperRuns
  <1>4. PICK e : Runs(e, << >>, S, start, step) /\ PaperOf(<< >>, rows) = e[0]
    BY <1>1, PaperRuns
  <1>5. e[0] = start
    BY <1>4 DEF Runs
  <1>6. f[Len(out)] \in S
    BY <1>1, <1>2 DEF Runs
  <1> HIDE DEF S, start, step
  <1>7. g[Len(out) + 1] = step[<<x, f[Len(out)]>>]
    BY <1>2, <1>3, RunGrows
  <1>8. step[<<x, f[Len(out)]>>] = SymbolOn(f[Len(out)], x)
    BY <1>6, PaperSteps DEF S, step
  <1> HIDE DEF more
  <1>9. PaperOf(more, rows) = SymbolOn(PaperOf(out, rows), x)
    BY <1>1, <1>2, <1>3, <1>7, <1>8
  <1> QED BY <1>2, <1>4, <1>5, <1>6, <1>9 DEF S, start, more

-----------------------------------------------------------------------------
(* The window *)

\* The screen s with the cursor at row r and column c is a window of the paper t,
\* on which at most written symbols are.  In the middle of a symbol the cursor can
\* be a row below the screen, and then its row of the paper is still blank.
Shows(t, s, r, c, rows, written) ==
    /\ r \in 0 .. Height /\ r <= t.row /\ c = t.column
    /\ t.row # r => r >= Height - 1
    /\ t.row <= written
    /\ Clean(t, rows)
    /\ r = Height => \A j \in Columns : t.cells[<<t.row, j>>] = Blank
    /\ s \in [Cell -> Glyph]
    /\ \A i \in Cell : s[i] = t.cells[<<t.row - r + i \div Width, i % Width>>]

\* Where the step of Advance leaves the cursor.
RowAfter(r, c) == IF c + 1 = Width THEN r + 1 ELSE r
ColumnAfter(c) == IF c + 1 = Width THEN 0 ELSE c + 1

LEMMA EmptyShows ==
    ASSUME NEW rows \in Nat, rows >= Height
    PROVE  Shows(Empty(rows), [i \in Cell |-> Blank], 0, 0, rows, 0)
  <1> DEFINE t == Empty(rows)
  <1>1. /\ t.row = 0 /\ t.column = 0
        /\ \A i \in 0 .. rows : \A j \in Columns : t.cells[<<i, j>>] = Blank
    BY DEF Empty, Columns
  <1>2. Height \in Nat \ {0}
    BY ScreenAssumption
  <1> HIDE DEF t
  <1>3. \A i \in Cell : t.cells[<<t.row - 0 + i \div Width, i % Width>>] = Blank
    <2> TAKE i \in Cell
    <2>1. i \div Width \in Rows /\ i % Width \in Columns
      BY CellsAre
    <2> DEFINE q == i \div Width
    <2> HIDE DEF q
    <2>2. q \in Rows
      BY <2>1 DEF q
    <2>3. t.row - 0 + q = q /\ q \in 0 .. rows
      BY <1>1, <1>2, <2>2 DEF Rows
    <2> QED BY <2>1, <2>3, <1>1 DEF q
  <1>4. [i \in Cell |-> Blank] \in [Cell -> Glyph]
    BY DEF Glyph
  <1>5. Clean(t, rows)
    BY <1>1 DEF Clean
  <1>6. 0 \in 0 .. Height /\ 0 # Height
    BY <1>2
  <1>7. Shows(t, [i \in Cell |-> Blank], 0, 0, rows, 0)
    BY <1>1, <1>3, <1>4, <1>5, <1>6 DEF Shows
  <1> QED BY <1>7 DEF t

\* The rows of the paper that the screen has.
LEMMA WindowIs ==
    ASSUME NEW rows \in Nat, NEW n \in Nat, rows >= n + Height, NEW t \in Sheets(rows),
           NEW s, NEW r, NEW c, Shows(t, s, r, c, rows, n)
    PROVE  /\ t.row \in Nat /\ t.column \in Columns /\ t.row \in 0 .. rows
           /\ r \in Nat /\ Height \in Nat \ {0}
           /\ t.row - r \in Nat
           /\ \A q \in Rows : t.row - r + q \in 0 .. rows
  <1>1. t.row \in Nat /\ t.column \in Columns
    BY SheetIs
  <1>2. r \in 0 .. Height /\ r <= t.row /\ t.row <= n /\ Height \in Nat \ {0}
    BY ScreenAssumption DEF Shows
  <1> QED BY <1>1, <1>2 DEF Rows

\* What is put on the screen is put on the paper.
LEMMA PutShows ==
    ASSUME NEW rows \in Nat, NEW n \in Nat, rows >= n + 1 + Height, NEW t \in Sheets(rows),
           NEW s, NEW r, NEW c, Shows(t, s, r, c, rows, n), r # Height,
           NEW x \in Mark, x \notin Erasing
    PROVE  /\ r * Width + c \in Cell
           /\ Shows(SymbolOn(t, x), [s EXCEPT ![r * Width + c] = x],
                    RowAfter(r, c), ColumnAfter(c), rows, n + 1)
  <1> DEFINE u == SymbolOn(t, x)
             place == r * Width + c
             v == [s EXCEPT ![place] = x]
             a == RowAfter(r, c)
             top == t.row - r
  <1>1. /\ t.row \in Nat /\ t.column \in Columns /\ t.row \in 0 .. rows
        /\ r \in Nat /\ Height \in Nat \ {0} /\ top \in Nat
        /\ \A q \in Rows : top + q \in 0 .. rows
    <2>1. rows >= n + Height
      BY ScreenAssumption
    <2> QED BY <2>1, WindowIs
  <1>2. /\ r \in 0 .. Height /\ r <= t.row /\ c = t.column
        /\ t.row # r => r >= Height - 1
        /\ t.row <= n
        /\ Clean(t, rows)
        /\ s \in [Cell -> Glyph]
        /\ \A i \in Cell : s[i] = t.cells[<<top + i \div Width, i % Width>>]
    BY DEF Shows
  <1>3. u \in Sheets(rows) /\ Printed(u, t, x, rows)
    BY SymbolIs
  <1>4. r \in Rows /\ c \in Columns
    BY <1>1, <1>2 DEF Rows
  <1>5. place \in Cell /\ place \div Width = r /\ place % Width = c
    BY <1>4, PlacesAre
  <1>6. /\ u.row # a => t.row # r
        /\ a \in 0 .. Height /\ a <= u.row /\ a >= r /\ u.row - a = top
        /\ u.row <= n + 1 /\ u.row >= t.row /\ u.row \in Nat
        /\ a = Height => u.row > t.row
        /\ ColumnAfter(c) = u.column
    <2>1. Width \in Nat \ {0}
      BY ScreenAssumption
    <2> HIDE DEF u, place, v
    <2>2. CASE c = Width - 1
      <3>1. a = r + 1 /\ ColumnAfter(c) = 0 /\ u.row = t.row + 1 /\ u.column = 0
        BY <2>1, <2>2, <1>2, <1>3, <1>4 DEF Printed, RowAfter, ColumnAfter, Columns
      <3>2. t.row \in Nat /\ r \in 0 .. Height - 1
        BY <1>1, <1>4 DEF Rows
      <3> HIDE DEF a
      <3> QED BY <3>1, <3>2, <1>1, <1>2
    <2>3. CASE c # Width - 1
      <3>1. a = r /\ ColumnAfter(c) = c + 1 /\ u.row = t.row /\ u.column = c + 1
        BY <2>1, <2>3, <1>2, <1>3, <1>4 DEF Printed, RowAfter, ColumnAfter, Columns
      <3> QED BY <3>1, <1>1, <1>2, <1>4 DEF Rows
    <2> QED BY <2>2, <2>3
  <1> HIDE DEF u, place, v, a, top
  <1>7. v \in [Cell -> Glyph]
    BY <1>2 DEF v, Glyph
  <1>8. Clean(u, rows)
    BY <1>1, <1>2, <1>3, <1>6 DEF Clean, Printed
  <1>9. a = Height => \A j \in Columns : u.cells[<<u.row, j>>] = Blank
    <2>1. u.row \in 0 .. rows
      BY <1>1, <1>6
    <2> QED BY <1>1, <1>2, <1>3, <1>6, <2>1 DEF Clean, Printed
  <1>10. ASSUME NEW i \in Cell
         PROVE  v[i] = u.cells[<<top + i \div Width, i % Width>>]
    <2> DEFINE q == i \div Width
               k == i % Width
    <2>1. q \in Rows /\ k \in Columns /\ i = Width * q + k
      BY CellsAre
    <2>2. i = place <=> q = r /\ k = c
      <3>1. place = Width * r + c
        BY <1>1, <1>4, ScreenAssumption DEF place
      <3> HIDE DEF q, k
      <3>2. q = r /\ k = c => i = place
        BY <2>1, <3>1
      <3>3. i = place => q = r /\ k = c
        BY <1>5 DEF q, k
      <3> QED BY <3>2, <3>3
    <2>3. s[i] = t.cells[<<top + q, k>>]
      BY <1>2
    <2>4. v[i] = IF i = place THEN x ELSE s[i]
      BY <1>2 DEF v
    <2> HIDE DEF q, k
    <2>5. top + q \in 0 .. rows /\ (top + q = t.row <=> q = r)
      BY <1>1, <2>1 DEF top, Rows
    <2>6. u.cells[<<top + q, k>>] =
             IF top + q = t.row /\ k = t.column THEN x ELSE t.cells[<<top + q, k>>]
      BY <1>3, <2>1, <2>5 DEF Printed
    <2>7. v[i] = u.cells[<<top + q, k>>]
      BY <1>2, <2>2, <2>3, <2>4, <2>5, <2>6
    <2> QED BY <2>7 DEF q, k
  <1>11. u.row # a => a >= Height - 1
    BY <1>1, <1>2, <1>6
  <1>12. Shows(u, v, a, ColumnAfter(c), rows, n + 1)
    BY <1>6, <1>7, <1>8, <1>9, <1>10, <1>11 DEF Shows
  <1> QED BY <1>5, <1>12 DEF u, place, v, a

\* What moves the cursor or erases: v is the screen after it.
LEMMA ErasingShows ==
    ASSUME NEW rows \in Nat, NEW n \in Nat, rows >= n + 1 + Height, NEW t \in Sheets(rows),
           NEW s, NEW r, NEW c, Shows(t, s, r, c, rows, n), r # Height,
           NEW x \in Mark, x \in Erasing,
           NEW v \in [Cell -> Glyph],
           \A i \in Cell : v[i] = IF x = "clear" /\ i \div Width = r /\ i % Width >= c
                                  THEN Blank ELSE s[i]
    PROVE  /\ Shows(SymbolOn(t, x), v, IF x = "\n" THEN r + 1 ELSE r,
                    SymbolOn(t, x).column, rows, n + 1)
           /\ x \in {"\n", "\r"} => SymbolOn(t, x).column = 0
           /\ x = "back" => SymbolOn(t, x).column = IF c = 0 THEN 0 ELSE c - 1
           /\ x \in {"bell", "clear"} => SymbolOn(t, x).column = c
           /\ r \in Rows /\ c \in Columns
  <1> DEFINE u == SymbolOn(t, x)
             a == IF x = "\n" THEN r + 1 ELSE r
             top == t.row - r
  <1>1. /\ t.row \in Nat /\ t.column \in Columns /\ t.row \in 0 .. rows
        /\ r \in Nat /\ Height \in Nat \ {0} /\ top \in Nat
        /\ \A q \in Rows : top + q \in 0 .. rows
    <2>1. rows >= n + Height
      BY ScreenAssumption
    <2> QED BY <2>1, WindowIs
  <1>2. /\ r \in 0 .. Height /\ r <= t.row /\ c = t.column
        /\ t.row # r => r >= Height - 1
        /\ t.row <= n
        /\ Clean(t, rows)
        /\ \A i \in Cell : s[i] = t.cells[<<top + i \div Width, i % Width>>]
    BY DEF Shows
  <1>3. u \in Sheets(rows) /\ Erased(u, t, x, rows)
    BY SymbolIs
  <1>4. r \in Rows /\ c \in Columns
    BY <1>1, <1>2 DEF Rows
  <1>5. /\ x \in {"\n", "\r"} => u.column = 0
        /\ x = "back" => u.column = IF c = 0 THEN 0 ELSE c - 1
        /\ x \in {"bell", "clear"} => u.column = c
    <2>1. u.column = CASE x \in {"\n", "\r"} -> 0
                       [] x = "back" -> (IF t.column = 0 THEN 0 ELSE t.column - 1)
                       [] OTHER -> t.column
      BY <1>3, Zenon DEF Erased
    <2> HIDE DEF u
    <2>2. x \in {"\n", "\r"} => u.column = 0
      <3>1. x \in {"\n", "\r"} => x # "back"
        OBVIOUS
      <3> QED BY <2>1, <3>1, Zenon
    <2>3. x = "back" => u.column = IF c = 0 THEN 0 ELSE c - 1
      <3>1. x = "back" => x \notin {"\n", "\r"}
        OBVIOUS
      <3> QED BY <2>1, <3>1, <1>2, Zenon
    <2>4. x \in {"bell", "clear"} => u.column = c
      <3>1. x \in {"bell", "clear"} => x \notin {"\n", "\r"} /\ x # "back"
        OBVIOUS
      <3> QED BY <2>1, <3>1, <1>2, Zenon
    <2> QED BY <2>2, <2>3, <2>4
  <1>6. /\ u.row = IF x = "\n" THEN t.row + 1 ELSE t.row
        /\ \A i \in 0 .. rows : \A j \in Columns :
              u.cells[<<i, j>>] = IF x = "clear" /\ i = t.row /\ j >= t.column THEN Blank
                                  ELSE t.cells[<<i, j>>]
    BY <1>3, Zenon DEF Erased
  <1> HIDE DEF u
  <1>7. /\ u.row # a => t.row # r
        /\ a \in 0 .. Height /\ a <= u.row /\ a >= r /\ u.row - a = top
        /\ u.row <= n + 1 /\ u.row >= t.row /\ u.row \in 0 .. rows
        /\ a = Height => u.row > t.row
    <2>1. CASE x = "\n"
      <3>1. a = r + 1 /\ u.row = t.row + 1
        BY <2>1, <1>6
      <3>2. t.row \in Nat /\ r \in 0 .. Height - 1
        BY <1>1, <1>4 DEF Rows
      <3> HIDE DEF a
      <3> QED BY <3>1, <3>2, <1>1, <1>2
    <2>2. CASE x # "\n"
      <3>1. a = r /\ u.row = t.row
        BY <2>2, <1>6
      <3> HIDE DEF a
      <3> QED BY <3>1, <1>1, <1>2, <1>4 DEF Rows
    <2> QED BY <2>1, <2>2
  <1> HIDE DEF a, top
  <1>8. Clean(u, rows)
    BY <1>1, <1>2, <1>6, <1>7 DEF Clean
  <1>9. a = Height => \A j \in Columns : u.cells[<<u.row, j>>] = Blank
    BY <1>1, <1>2, <1>6, <1>7 DEF Clean
  <1>10. ASSUME NEW i \in Cell
         PROVE  v[i] = u.cells[<<top + i \div Width, i % Width>>]
    <2> DEFINE q == i \div Width
               k == i % Width
    <2>1. q \in Rows /\ k \in Columns
      BY CellsAre
    <2>2. /\ s[i] = t.cells[<<top + q, k>>]
          /\ v[i] = IF x = "clear" /\ q = r /\ k >= c THEN Blank ELSE s[i]
      BY <1>2
    <2> HIDE DEF q, k
    <2>3. top + q \in 0 .. rows /\ (top + q = t.row <=> q = r)
      BY <1>1, <2>1 DEF top, Rows
    <2>4. u.cells[<<top + q, k>>] =
             IF x = "clear" /\ top + q = t.row /\ k >= t.column THEN Blank
             ELSE t.cells[<<top + q, k>>]
      BY <1>6, <2>1, <2>3
    <2>5. v[i] = u.cells[<<top + q, k>>]
      BY <1>2, <2>2, <2>3, <2>4
    <2> QED BY <2>5 DEF q, k
  <1>11. u.row # a => a >= Height - 1
    BY <1>1, <1>2, <1>7
  <1>12. Shows(u, v, a, u.column, rows, n + 1)
    BY <1>7, <1>8, <1>9, <1>10, <1>11 DEF Shows
  <1> QED BY <1>4, <1>5, <1>12 DEF u, a

\* A row leaves the screen at the top, and a blank one comes at the bottom.
LEMMA ScrollShows ==
    ASSUME NEW rows \in Nat, NEW n \in Nat, rows >= n + Height, NEW t \in Sheets(rows),
           NEW s, NEW c, Shows(t, s, Height, c, rows, n)
    PROVE  Shows(t, [i \in Cell |-> IF i + Width \in Cell THEN s[i + Width] ELSE Blank],
                 Height - 1, c, rows, n)
  <1> DEFINE v == [i \in Cell |-> IF i + Width \in Cell THEN s[i + Width] ELSE Blank]
             top == t.row - Height
  <1>1. /\ t.row \in Nat /\ Height \in Nat \ {0} /\ top \in Nat
    BY WindowIs
  <1>2. /\ Height <= t.row /\ c = t.column /\ t.row <= n
        /\ Clean(t, rows)
        /\ \A j \in Columns : t.cells[<<t.row, j>>] = Blank
        /\ s \in [Cell -> Glyph]
        /\ \A i \in Cell : s[i] = t.cells[<<top + i \div Width, i % Width>>]
    BY DEF Shows
  <1>3. v \in [Cell -> Glyph]
    BY <1>2 DEF Glyph
  <1>4. ASSUME NEW i \in Cell
        PROVE  v[i] = t.cells[<<t.row - (Height - 1) + i \div Width, i % Width>>]
    <2> DEFINE q == i \div Width
               k == i % Width
    <2>1. q \in Rows /\ k \in Columns
      BY CellsAre
    <2>2. /\ i + Width \in Cell <=> q # Height - 1
          /\ i + Width \in Cell => /\ (i + Width) \div Width = q + 1
                                   /\ (i + Width) % Width = k
      BY CellBelow
    <2>3. i + Width \in Cell => s[i + Width] = t.cells[<<top + (q + 1), k>>]
      <3> SUFFICES ASSUME i + Width \in Cell PROVE s[i + Width] = t.cells[<<top + (q + 1), k>>]
        OBVIOUS
      <3> DEFINE b == i + Width
      <3>1. b \in Cell /\ b \div Width = q + 1 /\ b % Width = k
        BY <2>2
      <3> HIDE DEF b, q, k, top
      <3>2. s[b] = t.cells[<<top + (q + 1), k>>]
        BY <3>1, <1>2
      <3> QED BY <3>2 DEF b
    <2> HIDE DEF q, k
    <2>4. t.row - (Height - 1) + q = top + (q + 1)
      BY <1>1, <2>1 DEF Rows
    <2>5. q = Height - 1 => t.row - (Height - 1) + q = t.row
      BY <1>1
    <2>6. v[i] = t.cells[<<t.row - (Height - 1) + q, k>>]
      BY <1>2, <2>1, <2>2, <2>3, <2>4, <2>5
    <2> QED BY <2>6 DEF q, k
  <1>5. /\ Height - 1 \in 0 .. Height /\ Height - 1 <= t.row /\ Height - 1 # Height
        /\ Height - 1 >= Height - 1
    BY <1>1, <1>2
  <1> HIDE DEF v
  <1>6. Shows(t, v, Height - 1, c, rows, n)
    BY <1>2, <1>3, <1>4, <1>5 DEF Shows
  <1> QED BY <1>6 DEF v

\* A window above the last rows is the one of OutputsAgree.
LEMMA WindowAgrees ==
    ASSUME NEW rows \in Nat, NEW n \in Nat, rows >= n + Height, NEW t \in Sheets(rows),
           NEW s, NEW r, NEW c, Shows(t, s, r, c, rows, n), r # Height
    PROVE  LET top == IF t.row < Height THEN 0 ELSE t.row - Height + 1 IN
           /\ r = t.row - top
           /\ c = t.column
           /\ s = [i \in Cell |-> t.cells[<<top + i \div Width, i % Width>>]]
  <1> DEFINE top == IF t.row < Height THEN 0 ELSE t.row - Height + 1
  <1>1. t.row \in Nat /\ r \in Nat /\ Height \in Nat \ {0}
    BY WindowIs
  <1>2. /\ r \in 0 .. Height /\ r <= t.row /\ c = t.column
        /\ t.row # r => r >= Height - 1
        /\ s \in [Cell -> Glyph]
        /\ \A i \in Cell : s[i] = t.cells[<<t.row - r + i \div Width, i % Width>>]
    BY DEF Shows
  <1>3. top = t.row - r /\ r = t.row - top
    BY <1>1, <1>2
  <1> HIDE DEF top
  <1>4. s = [i \in Cell |-> t.cells[<<top + i \div Width, i % Width>>]]
    <2>1. s = [i \in Cell |-> s[i]]
      BY <1>2
    <2>2. \A i \in Cell : s[i] = t.cells[<<top + i \div Width, i % Width>>]
      BY <1>2, <1>3
    <2> QED BY <2>1, <2>2
  <1> QED BY <1>2, <1>3, <1>4 DEF top

-----------------------------------------------------------------------------
(* What the serial port is sent *)

\* What it owes to a symbol, and all that it owes to what was written.
SerialOf(x) == IF x = "clear" THEN << >> ELSE Serially(x)

SentOf(out) ==
    LET sent[i \in 0 .. Len(out)] ==
            IF i = 0 THEN << >>
            ELSE IF out[i] = "clear" THEN sent[i - 1]
            ELSE sent[i - 1] \o Serially(out[i])
    IN sent[Len(out)]

SentStepOf == [a \in Mark \X Seq(Mark) |-> a[2] \o SerialOf(a[1])]

LEMMA SeriallyIs ==
    ASSUME NEW x \in Mark
    PROVE  /\ Serially(x) \in Seq(Mark) /\ SerialOf(x) \in Seq(Mark)
           /\ x = "clear" => SerialOf(x) = << >>
           /\ x # "clear" => SerialOf(x) = Serially(x)
           /\ x = "?" => Serially(x) = <<"?">>
  <1>1. Serially(x) \in Seq(Mark)
    <2>1. <<"\r", "\n">> \in Seq(Mark) /\ << >> \in Seq(Mark) /\ <<x>> \in Seq(Mark)
      <3>1. "\r" \in Mark /\ "\n" \in Mark
        BY DEF Mark, Piece
      <3> QED BY <3>1
    <2>2. Serially(x) \in {<<"\r", "\n">>, << >>, <<x>>}
      <3>1. Serially(x) = <<"\r", "\n">> \/ Serially(x) = << >> \/ Serially(x) = <<x>>
        <4>1. CASE x = "\n"
          BY <4>1, Zenon DEF Serially
        <4>2. CASE x = "bell"
          <5>1. x # "\n"
            BY <4>2
          <5> QED BY <4>2, <5>1, Zenon DEF Serially
        <4>3. CASE x # "\n" /\ x # "bell"
          BY <4>3, Zenon DEF Serially
        <4> QED BY <4>1, <4>2, <4>3
      <3> QED BY <3>1
    <2> QED BY <2>1, <2>2
  <1>2. x = "?" => Serially(x) = <<"?">>
    <2>1. "?" # "\n" /\ "?" # "bell"
      OBVIOUS
    <2> QED BY <2>1, Zenon DEF Serially
  <1>3. << >> \in Seq(Mark)
    OBVIOUS
  <1> QED BY <1>1, <1>2, <1>3 DEF SerialOf

LEMMA SentSteps ==
    /\ SentStepOf \in [Mark \X Seq(Mark) -> Seq(Mark)]
    /\ \A x \in Mark, s \in Seq(Mark) :
          /\ SentStepOf[<<x, s>>] = s \o SerialOf(x)
          /\ SentStepOf[<<x, s>>] = IF x = "clear" THEN s ELSE s \o Serially(x)
    /\ << >> \in Seq(Mark)
  <1>1. \A x \in Mark, s \in Seq(Mark) : s \o SerialOf(x) \in Seq(Mark)
    BY SeriallyIs
  <1>2. SentStepOf \in [Mark \X Seq(Mark) -> Seq(Mark)]
    BY <1>1 DEF SentStepOf
  <1>3. \A x \in Mark, s \in Seq(Mark) : SentStepOf[<<x, s>>] = s \o SerialOf(x)
    BY DEF SentStepOf
  <1>4. \A s \in Seq(Mark) : s \o << >> = s
    OBVIOUS
  <1>5. \A x \in Mark, s \in Seq(Mark) :
           SentStepOf[<<x, s>>] = IF x = "clear" THEN s ELSE s \o Serially(x)
    BY <1>3, <1>4, SeriallyIs
  <1>6. << >> \in Seq(Mark)
    OBVIOUS
  <1> QED BY <1>2, <1>3, <1>5, <1>6

LEMMA SentRuns ==
    ASSUME NEW out \in Seq(Mark)
    PROVE  \E f : /\ Runs(f, out, Seq(Mark), << >>, SentStepOf)
                  /\ SentOf(out) = f[Len(out)]
  <1> DEFINE n == Len(out)
             S == Seq(Mark)
             start == << >>
             step == SentStepOf
             Def(f) == f = [i \in 0 .. n |->
                              IF i = 0 THEN start
                              ELSE IF out[i] = "clear" THEN f[i - 1]
                              ELSE f[i - 1] \o Serially(out[i])]
             W == CHOOSE f : Def(f)
  <1>1. SentOf(out) = W[n]
    BY DEF SentOf
  <1>2. /\ step \in [Mark \X S -> S] /\ start \in S
        /\ \A x \in Mark, s \in S :
              step[<<x, s>>] = IF x = "clear" THEN s ELSE s \o Serially(x)
    BY SentSteps
  <1>3. n \in Nat /\ \A i \in 1 .. n : out[i] \in Mark
    OBVIOUS
  <1> HIDE DEF n, S, start, step, Def, W
  <1>4. PICK f : Runs(f, out, S, start, step)
    BY <1>2, RunExists
  <1>5. /\ f \in [0 .. n -> S] /\ f[0] = start
        /\ \A i \in 1 .. n : f[i] = step[<<out[i], f[i - 1]>>]
    BY <1>4 DEF Runs, n
  <1>6. \A i \in 1 .. n : f[i] = IF out[i] = "clear" THEN f[i - 1]
                                 ELSE f[i - 1] \o Serially(out[i])
    <2>1. \A i \in 1 .. n : f[i - 1] \in S
      BY <1>3, <1>5
    <2> QED BY <2>1, <1>2, <1>3, <1>5
  <1>7. Def(f)
    <2>1. f = [i \in 0 .. n |-> f[i]]
      BY <1>5
    <2>2. \A i \in 0 .. n : f[i] = IF i = 0 THEN start
                                   ELSE IF out[i] = "clear" THEN f[i - 1]
                                   ELSE f[i - 1] \o Serially(out[i])
      <3> TAKE i \in 0 .. n
      <3>1. i = 0 \/ (i \in 1 .. n /\ i # 0)
        BY <1>3
      <3> QED BY <3>1, <1>5, <1>6, Zenon
    <2> QED BY <2>1, <2>2 DEF Def
  <1>8. Def(W)
    BY <1>7 DEF W
  <1>9. /\ W = [i \in 0 .. n |-> W[i]]
        /\ \A i \in 0 .. n : W[i] = IF i = 0 THEN start
                                    ELSE IF out[i] = "clear" THEN W[i - 1]
                                    ELSE W[i - 1] \o Serially(out[i])
    BY <1>8 DEF Def
  <1>10. /\ W[0] = start
         /\ \A i \in 1 .. n : W[i] = IF out[i] = "clear" THEN W[i - 1]
                                     ELSE W[i - 1] \o Serially(out[i])
    <2>1. 0 \in 0 .. n /\ \A i \in 1 .. n : i \in 0 .. n /\ i # 0
      BY <1>3
    <2> QED BY <2>1, <1>9, Zenon
  <1>11. \A i \in 1 .. n : W[i - 1] \in S => W[i] = step[<<out[i], W[i - 1]>>]
    BY <1>2, <1>3, <1>10
  <1>12. Runs(W, out, S, start, step)
    BY <1>2, <1>9, <1>10, <1>11, IsRun DEF n
  <1> QED BY <1>1, <1>12 DEF n, S, start, step

LEMMA MarksAssociate ==
    \A a, b, c \in Seq(Mark) : a \o (b \o c) = (a \o b) \o c
  BY ConcatenationAssociates

LEMMA SentGrows ==
    ASSUME NEW out \in Seq(Mark), NEW x \in Mark
    PROVE  /\ SentOf(out) \in Seq(Mark)
           /\ SentOf(<< >>) = << >>
           /\ SentOf(Append(out, x)) = SentOf(out) \o SerialOf(x)
  <1> DEFINE S == Seq(Mark)
             start == << >>
             step == SentStepOf
             more == Append(out, x)
  <1>1. more \in Seq(Mark) /\ Len(more) = Len(out) + 1 /\ Len(out) \in Nat
        /\ << >> \in Seq(Mark) /\ Len(<< >>) = 0
    OBVIOUS
  <1>2. PICK f : Runs(f, out, S, start, step) /\ SentOf(out) = f[Len(out)]
    BY SentRuns
  <1>3. PICK g : Runs(g, more, S, start, step) /\ SentOf(more) = g[Len(more)]
    BY <1>1, SentRuns
  <1>4. PICK e : Runs(e, << >>, S, start, step) /\ SentOf(<< >>) = e[0]
    BY <1>1, SentRuns
  <1>5. e[0] = start
    BY <1>4 DEF Runs
  <1>6. f[Len(out)] \in S
    BY <1>1, <1>2 DEF Runs
  <1> HIDE DEF S, start, step
  <1>7. g[Len(out) + 1] = step[<<x, f[Len(out)]>>]
    BY <1>2, <1>3, RunGrows
  <1>8. step[<<x, f[Len(out)]>>] = f[Len(out)] \o SerialOf(x)
    BY <1>6, SentSteps DEF S, step
  <1> HIDE DEF more
  <1>9. SentOf(more) = SentOf(out) \o SerialOf(x)
    BY <1>1, <1>2, <1>3, <1>7, <1>8
  <1> QED BY <1>2, <1>4, <1>5, <1>6, <1>9 DEF S, start, more

-----------------------------------------------------------------------------
(* The invariant of the outputs *)

Busy(c) == c.at \in {"advance", "scroll"}
Inside(c) == c.at \in {"edit", "advance", "scroll"}
Sender(c) == c.at \in {"send", "edit", "advance", "scroll"}

\* What goes through Edit.
Editing(c) == Head(c.sends).to = "vga" /\ Head(c.sends).symbol \in {"back", "clear"}

\* What a call has still to send; in the middle of a symbol that one is sent.
Remaining(c) == IF Busy(c) THEN Tail(c.sends) ELSE c.sends

\* All that a piece is sent as.
Whole(l) ==
    \/ l = << >>
    \/ l = <<To("vga", "clear")>>
    \/ \E x \in Plain \cup {"back"} : l = <<To("vga", x), To("serial", x)>>
    \/ l = <<To("vga", "?"), To("vga", "?"), To("serial", "?"), To("serial", "?")>>

\* The rest of it, of which the screen has something that the serial port is owed.
Owes(l, due) ==
    \/ \E x \in Plain \cup {"back", "?"} : l = <<To("serial", x)>> /\ due = Serially(x)
    \/ l = <<To("serial", "?"), To("serial", "?")>> /\ due = <<"?", "?">>
    \/ l = <<To("vga", "?"), To("serial", "?"), To("serial", "?")>> /\ due = <<"?">>

Begun(c) == \E due \in Seq(Mark) : Owes(Remaining(c), due)

\* A call has something to send when it is at an output, the rest of a piece until
\* messages are written over each other.
SendsInv ==
    \A p \in Process :
        /\ Sender(call[p]) <=> call[p].sends # << >>
        /\ call[p].at = "edit" => Editing(call[p])
        /\ ~mixed.outputs => Whole(Remaining(call[p])) \/ Begun(call[p])

\* The screen s is a window of the paper on which out is written.
OnPaper(out, s, r, c) ==
    \A rows \in Nat :
        rows >= Len(out) + Height => Shows(PaperOf(out, rows), s, r, c, rows, Len(out))

\* Between symbols, and where the cursor will be after the step of Advance.
Shown == OnPaper(output, screen, row, column)
ShownAfter == OnPaper(output, screen, RowAfter(row, column), ColumnAfter(column))

\* Until two processes are inside a symbol the screen is a window of the paper,
\* but for what Advance and Scroll still do, and the column that backspace found
\* is still there.
ScreenInv ==
    /\ panic = OutsideScreen => mixed.screen
    /\ ~mixed.screen =>
          /\ \A p, q \in Process : Inside(call[p]) /\ Inside(call[q]) => p = q
          /\ (\A p \in Process : ~Busy(call[p])) => row # Height /\ Shown
          /\ \A p \in Process :
                /\ call[p].at = "edit" /\ Head(call[p].sends).symbol = "back" => column # 0
                /\ call[p].at = "advance" => ShownAfter
                /\ call[p].at = "scroll" => Shown

\* Until two processes are between the outputs the serial port has all that was
\* written, but for what one of them still owes it.
SerialInv ==
    /\ panic = OutsideScreen => \E p \in Process : call[p].sends # << >>
    /\ panic # OutsideScreen /\ ~mixed.outputs =>
          /\ \A p, q \in Process : Begun(call[p]) /\ Begun(call[q]) => p = q
          /\ \A p \in Process, due \in Seq(Mark) :
                Owes(Remaining(call[p]), due) => SentOf(output) = serial \o due
          /\ (\A p \in Process : ~Begun(call[p])) => SentOf(output) = serial

OutputTypes ==
    /\ output \in Seq(Mark)
    /\ serial \in Seq(Mark)
    /\ mixed \in [screen : BOOLEAN, outputs : BOOLEAN]

OutputInv == OutputTypes /\ SendsInv /\ ScreenInv /\ SerialInv

LEMMA ToIs ==
    ASSUME NEW d, NEW x
    PROVE  To(d, x).to = d /\ To(d, x).symbol = x
  BY DEF To

LEMMA OneAndOne ==
    ASSUME NEW v, NEW s
    PROVE  <<v>> \o <<s>> = <<v, s>>
  <1> DEFINE a == <<v>>
             b == <<s>>
             t == a \o b
             S == {v, s}
  <1>1. a \in Seq(S) /\ b \in Seq(S)
    OBVIOUS
  <1>2. a[1] = v /\ b[1] = s /\ Len(a) = 1 /\ Len(b) = 1
    OBVIOUS
  <1> HIDE DEF a, b, S
  <1>3. /\ t \in Seq(S) /\ Len(t) = Len(a) + Len(b)
        /\ \A k \in 1 .. Len(a) : t[k] = a[k]
        /\ \A k \in 1 .. Len(b) : t[Len(a) + k] = b[k]
    BY <1>1
  <1> HIDE DEF t
  <1>4. t[1] = v /\ t[1 + 1] = s /\ Len(t) = 2
    BY <1>2, <1>3
  <1>5. t = <<t[1], t[2]>>
    <2>1. t \in Seq(S) /\ Len(t) = 2
      BY <1>3, <1>4
    <2> QED BY <2>1
  <1> QED BY <1>4, <1>5 DEF t, a, b

LEMMA TwoAndTwo ==
    ASSUME NEW v, NEW s
    PROVE <<v, v>> \o <<s, s>> = <<v, v, s, s>>
  <1> DEFINE a == <<v, v>>
             b == <<s, s>>
             t == a \o b
             S == {v, s}
  <1>1. a \in Seq(S) /\ b \in Seq(S) 
    OBVIOUS
  <1>2. a[1] = v /\ a[2] = v /\ b[1] = s /\ b[2] = s /\ Len(a) = 2 /\ Len(b) = 2
    OBVIOUS
  <1> HIDE DEF a, b, S
  <1>3. /\ t \in Seq(S) /\ Len(t) = Len(a) + Len(b)
        /\ \A k \in 1 .. Len(a) : t[k] = a[k]
        /\ \A k \in 1 .. Len(b) : t[Len(a) + k] = b[k]
    BY <1>1
  <1> HIDE DEF t
  <1>4. t[1] = v /\ t[2] = v /\ t[2 + 1] = s /\ t[2 + 2] = s /\ Len(t) = 4
    BY <1>2, <1>3
  <1>5. t = <<t[1], t[2], t[3], t[4]>>
    <2>1. t \in Seq(S) /\ Len(t) = 4
      BY <1>3, <1>4
    <2> QED BY <2>1
  <1> QED BY <1>4, <1>5 DEF t, a, b

\* The pieces are sent as wholes.
LEMMA SendsWhole == ASSUME NEW piece \in Piece PROVE Whole(Sends(piece))
  <1>1. CASE piece \in Plain \cup {"back"}
    <2>1. Sends(piece) = <<To("vga", piece), To("serial", piece)>>
      <3>1. piece \notin Unknown /\ piece # "clear"
        BY <1>1 DEF Plain, Unknown
      <3> QED BY <1>1, <3>1, Zenon DEF Sends
    <2> QED BY <1>1, <2>1, Zenon DEF Whole
  <1>2. CASE piece = "clear"
    <2>1. Sends(piece) = <<To("vga", piece)>>
      <3>1. piece \notin Plain \cup {"back"} /\ piece \notin Unknown
        BY <1>2 DEF Plain, Unknown
      <3> QED BY <1>2, <3>1, Zenon DEF Sends
    <2> QED BY <1>2, <2>1, Zenon DEF Whole
  <1>3. CASE piece \in Unknown
    <2> DEFINE v == To("vga", "?")
               s == To("serial", "?")
    <2>1. Sends(piece) = [i \in 1 .. Len(Message) |-> To("vga", Message[i])] \o
                         [i \in 1 .. Len(Message) |-> To("serial", Message[i])]
      <3>1. piece \notin Plain \cup {"back"} /\ piece # "clear"
        BY <1>3 DEF Plain, Unknown
      <3> QED BY <1>3, <3>1, Zenon DEF Sends
    <2>2. Len(Message) = 2 /\ \A i \in 1 .. 2 : Message[i] = "?"
      BY DEF Message
    <2>3. /\ [i \in 1 .. Len(Message) |-> To("vga", Message[i])] = [i \in 1 .. 2 |-> v]
          /\ [i \in 1 .. Len(Message) |-> To("serial", Message[i])] = [i \in 1 .. 2 |-> s]
      BY <2>2
    <2> HIDE DEF v, s
    <2>4. [i \in 1 .. 2 |-> v] = <<v, v>> /\ [i \in 1 .. 2 |-> s] = <<s, s>>
      OBVIOUS
    <2>5. <<v, v>> \o <<s, s>> = <<v, v, s, s>>
      BY TwoAndTwo
    <2>6. Sends(piece) = <<v, v, s, s>>
      BY <2>1, <2>3, <2>4, <2>5
    <2> QED BY <2>6, Zenon DEF Whole, v, s
  <1>4. CASE piece \notin Plain \cup Unknown \cup {"back", "clear"}
    <2>1. Sends(piece) = << >>
      BY <1>4, Zenon DEF Sends
    <2> QED BY <2>1, Zenon DEF Whole
  <1> QED BY <1>1, <1>2, <1>3, <1>4

\* One debt, and none of a whole.
LEMMA OneDue ==
    ASSUME NEW l, NEW due, Owes(l, due)
    PROVE  ~Whole(l) /\ \A other : Owes(l, other) => other = due
  <1> DEFINE v == To("vga", "?")
             s == To("serial", "?")
  <1>1. /\ v.to = "vga" /\ s.to = "serial" /\ s.symbol = "?"
        /\ \A x : To("serial", x).to = "serial" /\ To("serial", x).symbol = x
                  /\ To("vga", x).to = "vga"
    BY ToIs
  <1>2. /\ Serially("?") = <<"?">> /\ "?" \notin Plain \cup {"back"}
    BY SeriallyIs DEF Mark, Plain
  <1> HIDE DEF v, s
  <1>3. /\ \/ \E x \in Plain \cup {"back", "?"} : l = <<To("serial", x)>> /\ due = Serially(x)
           \/ l = <<s, s>> /\ due = <<"?", "?">>
           \/ l = <<v, s, s>> /\ due = <<"?">>
        /\ \A other : Owes(l, other) =>
           \/ \E x \in Plain \cup {"back", "?"} : l = <<To("serial", x)>> /\ other = Serially(x)
           \/ l = <<s, s>> /\ other = <<"?", "?">>
           \/ l = <<v, s, s>> /\ other = <<"?">>
    BY Zenon DEF Owes, v, s
  <1>4. Whole(l) => \/ l = << >>
                    \/ l = <<To("vga", "clear")>>
                    \/ \E x \in Plain \cup {"back"} : l = <<To("vga", x), To("serial", x)>>
                    \/ l = <<v, v, s, s>>
    BY Zenon DEF Whole, v, s
  <1>5. CASE \E x \in Plain \cup {"back", "?"} : l = <<To("serial", x)>> /\ due = Serially(x)
    <2>1. PICK x \in Plain \cup {"back", "?"} : l = <<To("serial", x)>> /\ due = Serially(x)
      BY <1>5
    <2>2. Len(l) = 1 /\ l[1].to = "serial" /\ l[1].symbol = x
      BY <2>1, <1>1
    <2>3. ~Whole(l)
      BY <1>1, <1>4, <2>2
    <2>4. ASSUME NEW other, Owes(l, other) PROVE other = due
      <3>1. PICK y \in Plain \cup {"back", "?"} : l = <<To("serial", y)>> /\ other = Serially(y)
        BY <1>3, <2>2, <2>4
      <3>2. y = x
        BY <3>1, <2>2, <1>1
      <3> QED BY <3>1, <3>2, <2>1
    <2> QED BY <2>3, <2>4
  <1>6. CASE l = <<s, s>> /\ due = <<"?", "?">>
    <2>1. Len(l) = 2 /\ l[1].to = "serial"
      BY <1>1, <1>6
    <2>2. ~Whole(l)
      BY <1>1, <1>4, <2>1
    <2>3. ASSUME NEW other, Owes(l, other) PROVE other = due
      BY <1>3, <1>6, <2>1, <2>3
    <2> QED BY <2>2, <2>3
  <1>7. CASE l = <<v, s, s>> /\ due = <<"?">>
    <2>1. Len(l) = 3
      BY <1>7
    <2>2. ~Whole(l)
      <3>1. l # << >>
        BY <2>1
      <3>2. l # <<To("vga", "clear")>>
        <4>1. Len(<<To("vga", "clear")>>) = 1
          OBVIOUS
        <4> QED BY <4>1, <2>1
      <3>3. l # <<v, v, s, s>>
        <4>1. Len(<<v, v, s, s>>) = 4
          OBVIOUS
        <4> QED BY <4>1, <2>1
      <3>4. \A x \in Plain \cup {"back"} : l # <<To("vga", x), To("serial", x)>>
        <4>1. \A x \in Plain \cup {"back"} : Len(<<To("vga", x), To("serial", x)>>) = 2
          OBVIOUS
        <4> QED BY <4>1, <2>1
      <3> QED BY <1>4, <3>1, <3>2, <3>3, <3>4, Zenon
    <2>3. ASSUME NEW other, Owes(l, other) PROVE other = due
      <3>1. \A x \in Plain \cup {"back", "?"} : l # <<To("serial", x)>>
        <4>1. \A x \in Plain \cup {"back", "?"} : Len(<<To("serial", x)>>) = 1
          OBVIOUS
        <4> QED BY <4>1, <2>1
      <3>2. l # <<s, s>>
        <4>1. Len(<<s, s>>) = 2
          OBVIOUS
        <4> QED BY <4>1, <2>1
      <3>3. l = <<v, s, s>> /\ other = <<"?">>
        BY <1>3, <2>3, <3>1, <3>2, Zenon
      <3> QED BY <3>3, <1>7
    <2> QED BY <2>2, <2>3
  <1> QED BY <1>3, <1>5, <1>6, <1>7

LEMMA DueIs == ASSUME NEW l, NEW due, Owes(l, due) PROVE due \in Seq(Mark)
  <1>1. <<"?", "?">> \in Seq(Mark) /\ <<"?">> \in Seq(Mark)
    <2>1. "?" \in Mark
      BY DEF Mark
    <2> QED BY <2>1
  <1>2. \A x \in Plain \cup {"back", "?"} : Serially(x) \in Seq(Mark)
    BY SeriallyIs DEF Plain, Mark, Piece
  <1> QED BY <1>1, <1>2, Zenon DEF Owes

\* A symbol goes to the screen first, and then the serial port is owed it.
LEMMA ToScreen ==
    ASSUME NEW l, Head(l).to = "vga"
    PROVE  /\ Whole(l) /\ l # << >> =>
                 \/ Tail(l) = << >> /\ SerialOf(Head(l).symbol) = << >>
                 \/ Owes(Tail(l), SerialOf(Head(l).symbol))
           /\ \A due : Owes(l, due) => Owes(Tail(l), due \o SerialOf(Head(l).symbol))
  <1> DEFINE v == To("vga", "?")
             s == To("serial", "?")
  <1>1. /\ v.to = "vga" /\ s.to = "serial" /\ v.symbol = "?"
        /\ \A x : To("serial", x).to = "serial"
                  /\ To("vga", x).to = "vga" /\ To("vga", x).symbol = x
    BY ToIs
  <1>2. /\ SerialOf("?") = <<"?">> /\ "?" \notin Plain \cup {"back"}
        /\ SerialOf("clear") = << >>
        /\ \A x \in Plain \cup {"back", "?"} : SerialOf(x) = Serially(x)
    BY SeriallyIs DEF Mark, Piece, Plain
  <1> HIDE DEF v, s
  <1>3. ASSUME Whole(l), l # << >>
        PROVE  \/ Tail(l) = << >> /\ SerialOf(Head(l).symbol) = << >>
               \/ Owes(Tail(l), SerialOf(Head(l).symbol))
    <2>1. \/ l = <<To("vga", "clear")>>
          \/ \E x \in Plain \cup {"back"} : l = <<To("vga", x), To("serial", x)>>
          \/ l = <<v, v, s, s>>
      BY <1>3, Zenon DEF Whole, v, s
    <2>2. CASE l = <<To("vga", "clear")>>
      <3>1. Head(l) = To("vga", "clear") /\ Tail(l) = << >>
        BY <2>2
      <3> QED BY <3>1, <1>1, <1>2
    <2>3. CASE \E x \in Plain \cup {"back"} : l = <<To("vga", x), To("serial", x)>>
      <3>1. PICK x \in Plain \cup {"back"} : l = <<To("vga", x), To("serial", x)>>
        BY <2>3
      <3>2. Head(l) = To("vga", x) /\ Tail(l) = <<To("serial", x)>>
        BY <3>1
      <3>3. x \in Plain \cup {"back", "?"}
        OBVIOUS
      <3>4. SerialOf(Head(l).symbol) = Serially(x)
        BY <3>2, <3>3, <1>1, <1>2
      <3> QED BY <3>2, <3>3, <3>4, Zenon DEF Owes
    <2>4. CASE l = <<v, v, s, s>>
      <3>1. Head(l) = v /\ Tail(l) = <<v, s, s>>
        BY <2>4
      <3>2. SerialOf(Head(l).symbol) = <<"?">>
        BY <3>1, <1>1, <1>2
      <3> QED BY <3>1, <3>2, Zenon DEF Owes, v, s
    <2> QED BY <2>1, <2>2, <2>3, <2>4
  <1>4. ASSUME NEW due, Owes(l, due)
        PROVE  Owes(Tail(l), due \o SerialOf(Head(l).symbol))
    <2>1. \/ \E x \in Plain \cup {"back", "?"} : l = <<To("serial", x)>> /\ due = Serially(x)
          \/ l = <<s, s>> /\ due = <<"?", "?">>
          \/ l = <<v, s, s>> /\ due = <<"?">>
      BY <1>4, Zenon DEF Owes, v, s
    <2>2. \A x : l # <<To("serial", x)>>
      <3> SUFFICES ASSUME NEW x, l = <<To("serial", x)>> PROVE FALSE
        OBVIOUS
      <3>1. Head(l) = To("serial", x)
        OBVIOUS
      <3> QED BY <3>1, <1>1
    <2>3. l # <<s, s>>
      <3> SUFFICES ASSUME l = <<s, s>> PROVE FALSE
        OBVIOUS
      <3>1. Head(l) = s
        OBVIOUS
      <3> QED BY <3>1, <1>1
    <2>4. l = <<v, s, s>> /\ due = <<"?">>
      BY <2>1, <2>2, <2>3
    <2>5. Head(l) = v /\ Tail(l) = <<s, s>>
      BY <2>4
    <2>6. SerialOf(Head(l).symbol) = <<"?">>
      BY <2>5, <1>1, <1>2
    <2>7. due \o SerialOf(Head(l).symbol) = <<"?", "?">>
      <3>1. <<"?">> \o <<"?">> = <<"?", "?">>
        BY OneAndOne
      <3> QED BY <3>1, <2>4, <2>6
    <2> QED BY <2>5, <2>7, Zenon DEF Owes, s
  <1> QED BY <1>3, <1>4

\* What goes to the serial port is the first that it is owed.
LEMMA ToPort ==
    ASSUME NEW l, l # << >>, Head(l).to = "serial"
    PROVE  /\ ~Whole(l)
           /\ \A due : Owes(l, due) =>
                 \/ Tail(l) = << >> /\ due = Serially(Head(l).symbol)
                 \/ \E rest \in Seq(Mark) : /\ Owes(Tail(l), rest)
                                            /\ due = Serially(Head(l).symbol) \o rest
  <1> DEFINE v == To("vga", "?")
             s == To("serial", "?")
  <1>1. /\ v.to = "vga" /\ s.to = "serial" /\ s.symbol = "?"
        /\ \A x : /\ To("serial", x).symbol = x
                  /\ To("vga", x).to = "vga"
    BY ToIs
  <1>2. Serially("?") = <<"?">>
    BY SeriallyIs DEF Mark
  <1> HIDE DEF v, s
  <1>3. ~Whole(l)
    <2> SUFFICES ASSUME Whole(l) PROVE FALSE
      OBVIOUS
    <2>1. \/ l = <<To("vga", "clear")>>
          \/ \E x \in Plain \cup {"back"} : l = <<To("vga", x), To("serial", x)>>
          \/ l = <<v, v, s, s>>
      BY Zenon DEF Whole, v, s
    <2>2. (\E x : Head(l) = To("vga", x)) \/ Head(l) = v
      BY <2>1
    <2> QED BY <2>2, <1>1
  <1>4. ASSUME NEW due, Owes(l, due)
        PROVE  \/ Tail(l) = << >> /\ due = Serially(Head(l).symbol)
               \/ \E rest \in Seq(Mark) : /\ Owes(Tail(l), rest)
                                          /\ due = Serially(Head(l).symbol) \o rest
    <2>1. \/ \E x \in Plain \cup {"back", "?"} : l = <<To("serial", x)>> /\ due = Serially(x)
          \/ l = <<s, s>> /\ due = <<"?", "?">>
          \/ l = <<v, s, s>> /\ due = <<"?">>
      BY <1>4, Zenon DEF Owes, v, s
    <2>2. CASE \E x \in Plain \cup {"back", "?"} : l = <<To("serial", x)>> /\ due = Serially(x)
      <3>1. PICK x \in Plain \cup {"back", "?"} : l = <<To("serial", x)>> /\ due = Serially(x)
        BY <2>2
      <3>2. Head(l) = To("serial", x) /\ Tail(l) = << >>
        BY <3>1
      <3> QED BY <3>1, <3>2, <1>1
    <2>3. CASE l = <<s, s>> /\ due = <<"?", "?">>
      <3> DEFINE rest == <<"?">>
      <3>1. Head(l) = s /\ Tail(l) = <<s>>
        BY <2>3
      <3>2. Owes(Tail(l), rest)
        <4>1. "?" \in Plain \cup {"back", "?"}
          OBVIOUS
        <4> QED BY <3>1, <4>1, <1>2, Zenon DEF Owes, s
      <3>3. due = Serially(Head(l).symbol) \o rest
        <4>1. <<"?">> \o <<"?">> = <<"?", "?">>
          BY OneAndOne
        <4> QED BY <4>1, <2>3, <3>1, <1>1, <1>2
      <3>4. rest \in Seq(Mark)
        BY <3>2, DueIs
      <3> QED BY <3>2, <3>3, <3>4, Zenon
    <2>4. l # <<v, s, s>>
      <3> SUFFICES ASSUME l = <<v, s, s>> PROVE FALSE
        OBVIOUS
      <3>1. Head(l) = v
        OBVIOUS
      <3> QED BY <3>1, <1>1
    <2> QED BY <2>1, <2>2, <2>3, <2>4
  <1> QED BY <1>3, <1>4

-----------------------------------------------------------------------------
(* The steps and the serial port *)

\* p's call is d from now on.
Becomes(p, d) ==
    /\ call' = [call EXCEPT ![p] = d]
    /\ Sender(d) <=> d.sends # << >>
    /\ d.at = "edit" => Editing(d)

LEMMA BecomesIs ==
    ASSUME CallTypes, NEW p \in Process, NEW d, Becomes(p, d)
    PROVE  \A q \in Process : call'[q] = IF q = p THEN d ELSE call[q]
  BY DEF CallTypes, Becomes

\* What is owed stays so while the calls have the same to send.
LEMMA SameDebts ==
    ASSUME SerialInv, UNCHANGED <<output, serial>>, mixed'.outputs = mixed.outputs,
           panic' = OutsideScreen <=> panic = OutsideScreen,
           panic = OutsideScreen => UNCHANGED call,
           \A q \in Process : \A due :
              Owes(Remaining(call'[q]), due) <=> Owes(Remaining(call[q]), due)
    PROVE  SerialInv'
  <1>1. \A q \in Process : Begun(call'[q]) <=> Begun(call[q])
    BY DEF Begun
  <1>2. (panic = OutsideScreen => \E p \in Process : call[p].sends # << >>)'
    BY DEF SerialInv
  <1>3. ASSUME panic' # OutsideScreen, ~mixed'.outputs, panic # OutsideScreen
        PROVE  /\ \A p, q \in Process : Begun(call'[p]) /\ Begun(call'[q]) => p = q
               /\ \A p \in Process, due \in Seq(Mark) :
                     Owes(Remaining(call'[p]), due) => SentOf(output') = serial' \o due
               /\ (\A p \in Process : ~Begun(call'[p])) => SentOf(output') = serial'
    BY <1>1, <1>3 DEF SerialInv
  <1>4. panic = OutsideScreen => panic' = OutsideScreen
    OBVIOUS
  <1> QED BY <1>2, <1>3, <1>4 DEF SerialInv

\* The first symbol of p goes to the screen.
Showing(p) ==
    /\ Running
    /\ call[p].at \in {"send", "edit"}
    /\ Head(call[p].sends).to = "vga"

LEMMA OutputGrows ==
    ASSUME KeysInv, OutputTypes, SendsInv, SerialInv, NEW p \in Process,
           Showing(p), Meets(p), UNCHANGED <<serial, panic>>,
           NEW d, Becomes(p, d), Remaining(d) = Tail(call[p].sends)
    PROVE  OutputTypes' /\ SendsInv' /\ SerialInv'
  <1> DEFINE l == call[p].sends
             x == Head(l).symbol
  <1>1. /\ panic = NoPanic /\ call[p].at \in {"send", "edit"} /\ Head(l).to = "vga"
        /\ output' = Append(output, x)
        /\ mixed' = [screen |-> mixed.screen \/ Crowded(p),
                     outputs |-> mixed.outputs \/
                        \E q \in Process \ {p} : call[q].sends # << >>]
    BY DEF Showing, Running, Meets
  <1>2. /\ ~Busy(call[p]) /\ l # << >> /\ Remaining(call[p]) = l
        /\ l \in Seq(Symbols) /\ x \in Mark
    <2>1. ~Busy(call[p]) /\ l # << >>
      BY <1>1 DEF SendsInv, Busy, Sender
    <2>2. l \in Seq(Symbols)
      BY CallFields
    <2>3. Head(l) \in Symbols
      BY <2>1, <2>2
    <2> QED BY <2>1, <2>2, <2>3 DEF Remaining, Symbols, Mark
  <1>3. \A q \in Process : call'[q] = IF q = p THEN d ELSE call[q]
    BY BecomesIs DEF KeysInv
  <1>4. OutputTypes'
    <2>1. output' \in Seq(Mark)
      BY <1>1, <1>2 DEF OutputTypes
    <2>2. mixed' \in [screen : BOOLEAN, outputs : BOOLEAN]
      BY <1>1 DEF OutputTypes, Crowded
    <2> QED BY <2>1, <2>2 DEF OutputTypes
  <1>5. SentOf(output') = SentOf(output) \o SerialOf(x) /\ SerialOf(x) \in Seq(Mark)
    BY <1>1, <1>2, SentGrows, SeriallyIs DEF OutputTypes
  <1>6. ~mixed'.outputs => Whole(l) \/ \E due \in Seq(Mark) : Owes(l, due)
    BY <1>1, <1>2 DEF SendsInv, Begun
  <1>7. /\ Whole(l) => \/ Remaining(d) = << >> /\ SerialOf(x) = << >>
                       \/ Owes(Remaining(d), SerialOf(x))
        /\ \A due : Owes(l, due) => Owes(Remaining(d), due \o SerialOf(x))
    BY <1>1, <1>2, ToScreen
  <1> HIDE DEF x, l
  <1>8. SendsInv'
    <2>1. ASSUME ~mixed'.outputs
          PROVE  Whole(Remaining(d)) \/ Begun(d)
      <3>1. CASE Whole(l)
        BY <3>1, <1>5, <1>7 DEF Begun, Whole
      <3>2. CASE \E due \in Seq(Mark) : Owes(l, due)
        <4>1. PICK due \in Seq(Mark) : Owes(l, due)
          BY <3>2
        <4>2. Owes(Remaining(d), due \o SerialOf(x))
          BY <4>1, <1>7
        <4> QED BY <4>2, DueIs DEF Begun
      <3> QED BY <3>1, <3>2, <2>1, <1>6
    <2>2. ~mixed'.outputs => ~mixed.outputs
      BY <1>1
    <2> QED BY <2>1, <2>2, <1>3 DEF SendsInv, Becomes
  <1>9. SerialInv'
    <2>1. panic' # OutsideScreen
      BY <1>1 DEF NoPanic, OutsideScreen
    <2> SUFFICES ASSUME ~mixed'.outputs
                 PROVE  /\ \A q, r \in Process : Begun(call'[q]) /\ Begun(call'[r]) => q = r
                        /\ \A q \in Process, due \in Seq(Mark) :
                              Owes(Remaining(call'[q]), due) => SentOf(output') = serial' \o due
                        /\ (\A q \in Process : ~Begun(call'[q])) => SentOf(output') = serial'
      BY <2>1 DEF SerialInv
    <2>2. ~mixed.outputs /\ \A q \in Process \ {p} : call[q].sends = << >>
      BY <1>1
    <2>3. ASSUME NEW q \in Process \ {p}
          PROVE  /\ Remaining(call'[q]) = << >> /\ Remaining(call[q]) = << >>
                 /\ \A due : ~Owes(<< >>, due)
                 /\ ~Begun(call'[q]) /\ ~Begun(call[q])
      <3>1. call[q].sends = << >> /\ ~Busy(call[q]) /\ call'[q] = call[q]
        BY <2>2, <1>3 DEF SendsInv, Sender, Busy
      <3>2. Remaining(call[q]) = << >> /\ Whole(<< >>)
        BY <3>1 DEF Remaining, Whole
      <3>3. \A due : ~Owes(<< >>, due)
        BY <3>2, OneDue
      <3> QED BY <3>1, <3>2, <3>3 DEF Begun
    <2>4. /\ (~Begun(call[p])) => SentOf(output) = serial
          /\ \A due \in Seq(Mark) : Owes(l, due) => SentOf(output) = serial \o due
      <3>1. panic # OutsideScreen
        BY <2>1
      <3> QED BY <3>1, <2>2, <2>3, <1>2 DEF SerialInv
    <2>5. \A q, r \in Process : Begun(call'[q]) /\ Begun(call'[r]) => q = r
      BY <2>3
    <2>6. /\ \A due \in Seq(Mark) :
                Owes(Remaining(d), due) => SentOf(output') = serial \o due
          /\ ~Begun(d) => SentOf(output') = serial
      <3>1. serial \in Seq(Mark)
        BY DEF OutputTypes
      <3>2. CASE Whole(l)
        <4>1. ~Begun(call[p])
          BY <3>2, <1>2, OneDue DEF Begun
        <4>2. SentOf(output') = serial \o SerialOf(x)
          BY <4>1, <2>4, <1>5
        <4>3. CASE Remaining(d) = << >> /\ SerialOf(x) = << >>
          <5>1. SentOf(output') = serial
            BY <4>2, <4>3, <3>1
          <5>2. \A due : ~Owes(Remaining(d), due)
            <6>1. Whole(Remaining(d))
              BY <4>3 DEF Whole
            <6> QED BY <6>1, OneDue
          <5> QED BY <5>1, <5>2
        <4>4. CASE Owes(Remaining(d), SerialOf(x))
          <5>1. Begun(d)
            BY <4>4, <1>5 DEF Begun
          <5> QED BY <4>2, <4>4, <5>1, OneDue
        <4> QED BY <4>3, <4>4, <3>2, <1>7
      <3>3. CASE \E due \in Seq(Mark) : Owes(l, due)
        <4>1. PICK due \in Seq(Mark) : Owes(l, due)
          BY <3>3
        <4>2. Owes(Remaining(d), due \o SerialOf(x))
          BY <4>1, <1>7
        <4>3. due \o SerialOf(x) \in Seq(Mark) /\ Begun(d)
          BY <4>2, DueIs DEF Begun
        <4>4. SentOf(output') = serial \o (due \o SerialOf(x))
          <5>1. SentOf(output') = (serial \o due) \o SerialOf(x)
            BY <4>1, <2>4, <1>5
          <5>2. (serial \o due) \o SerialOf(x) = serial \o (due \o SerialOf(x))
            <6>1. serial \in Seq(Mark) /\ due \in Seq(Mark) /\ SerialOf(x) \in Seq(Mark)
              BY <3>1, <4>1, <1>5
            <6> QED BY <6>1, MarksAssociate, Zenon
          <5> QED BY <5>1, <5>2
        <4> QED BY <4>2, <4>3, <4>4, OneDue
      <3> QED BY <3>2, <3>3, <2>2, <1>1, <1>6
    <2>7. call'[p] = d
      BY <1>3
    <2>8. \A q \in Process, due \in Seq(Mark) :
             Owes(Remaining(call'[q]), due) => SentOf(output') = serial' \o due
      <3> TAKE q \in Process, due \in Seq(Mark)
      <3>1. CASE q = p
        BY <3>1, <2>6, <2>7
      <3>2. CASE q # p
        BY <3>2, <2>3
      <3> QED BY <3>1, <3>2
    <2>9. (\A q \in Process : ~Begun(call'[q])) => SentOf(output') = serial'
      BY <2>6, <2>7
    <2> QED BY <2>5, <2>8, <2>9
  <1> QED BY <1>4, <1>8, <1>9

\* A symbol goes to the serial port.
LEMMA SerialGrows ==
    ASSUME KeysInv, OutputTypes, SendsInv, SerialInv, NEW p \in Process, SendSerial(p)
    PROVE  OutputTypes' /\ SendsInv' /\ SerialInv'
  <1> DEFINE l == call[p].sends
             x == Head(l).symbol
             d == [call[p] EXCEPT !.sends = Tail(l), !.at = IF Tail(l) = << >> THEN "text" ELSE "send"]
  <1>1. /\ panic = NoPanic /\ call[p].at = "send" /\ Head(l).to = "serial"
        /\ serial' = serial \o Serially(x)
        /\ UNCHANGED <<output, mixed, panic>>
        /\ call' = [call EXCEPT ![p] = d]
    BY DEF SendSerial, Sending, At, Running, Sent
  <1>2. /\ ~Busy(call[p]) /\ l # << >> /\ Remaining(call[p]) = l
        /\ l \in Seq(Symbols) /\ x \in Mark
    <2>1. ~Busy(call[p]) /\ l # << >>
      BY <1>1 DEF SendsInv, Busy, Sender
    <2>2. l \in Seq(Symbols)
      BY CallFields
    <2>3. Head(l) \in Symbols
      BY <2>1, <2>2
    <2> QED BY <2>1, <2>2, <2>3 DEF Remaining, Symbols, Mark
  <1>3. d.sends = Tail(l) /\ d.at = IF Tail(l) = << >> THEN "text" ELSE "send"
    <2>1. call[p] \in CallRecords
      BY CallFields DEF Calls
    <2> QED BY <2>1 DEF CallRecords
  <1> HIDE DEF d
  <1>4. Becomes(p, d) /\ Remaining(d) = Tail(l)
    BY <1>1, <1>3 DEF Becomes, Sender, Busy, Remaining
  <1>5. \A q \in Process : call'[q] = IF q = p THEN d ELSE call[q]
    BY <1>4, BecomesIs DEF KeysInv
  <1>6. serial \in Seq(Mark) /\ serial' \in Seq(Mark) /\ Serially(x) \in Seq(Mark)
    BY <1>1, <1>2, SeriallyIs DEF OutputTypes
  <1>7. OutputTypes'
    BY <1>1, <1>6 DEF OutputTypes
  <1>8. ~mixed.outputs => \E due \in Seq(Mark) : Owes(l, due)
    BY <1>1, <1>2, ToPort DEF SendsInv, Begun
  <1>9. \A due : Owes(l, due) =>
           \/ Tail(l) = << >> /\ due = Serially(x)
           \/ \E rest \in Seq(Mark) : Owes(Tail(l), rest) /\ due = Serially(x) \o rest
    BY <1>1, <1>2, ToPort
  <1> HIDE DEF x, l
  <1>10. SendsInv'
    <2>1. ~mixed.outputs => Whole(Remaining(d)) \/ Begun(d)
      BY <1>4, <1>8, <1>9 DEF Whole, Begun
    <2> QED BY <2>1, <1>1, <1>4, <1>5 DEF SendsInv, Becomes
  <1>11. SerialInv'
    <2>1. panic' # OutsideScreen /\ panic # OutsideScreen
      BY <1>1 DEF NoPanic, OutsideScreen
    <2> SUFFICES ASSUME ~mixed'.outputs
                 PROVE  /\ \A q, r \in Process : Begun(call'[q]) /\ Begun(call'[r]) => q = r
                        /\ \A q \in Process, now \in Seq(Mark) :
                              Owes(Remaining(call'[q]), now) => SentOf(output') = serial' \o now
                        /\ (\A q \in Process : ~Begun(call'[q])) => SentOf(output') = serial'
      BY <2>1 DEF SerialInv
    <2> PICK due \in Seq(Mark) : Owes(l, due)
      BY <1>1, <1>8
    <2>2. Begun(call[p]) /\ SentOf(output) = serial \o due
      BY <1>1, <1>2, <2>1 DEF Begun, SerialInv
    <2>3. ASSUME NEW q \in Process \ {p}
          PROVE  /\ ~Begun(call'[q])
                 /\ \A now \in Seq(Mark) : ~Owes(Remaining(call'[q]), now)
      <3>1. ~Begun(call[q])
        BY <2>1, <2>2, <1>1 DEF SerialInv
      <3> QED BY <3>1, <1>5 DEF Begun
    <2>4. call'[p] = d
      BY <1>5
    <2>5. /\ \A now \in Seq(Mark) :
                Owes(Remaining(d), now) => SentOf(output') = serial' \o now
          /\ ~Begun(d) => SentOf(output') = serial'
      <3>1. CASE Tail(l) = << >> /\ due = Serially(x)
        <4>1. SentOf(output') = serial'
          BY <3>1, <2>2, <1>1
        <4>2. \A now : ~Owes(Remaining(d), now)
          <5>1. Whole(Remaining(d))
            BY <3>1, <1>4 DEF Whole
          <5> QED BY <5>1, OneDue
        <4> QED BY <4>1, <4>2
      <3>2. CASE \E rest \in Seq(Mark) : Owes(Tail(l), rest) /\ due = Serially(x) \o rest
        <4>1. PICK rest \in Seq(Mark) : Owes(Tail(l), rest) /\ due = Serially(x) \o rest
          BY <3>2
        <4>2. SentOf(output') = serial' \o rest
          <5>1. SentOf(output') = serial \o (Serially(x) \o rest)
            BY <4>1, <2>2, <1>1
          <5>2. serial \o (Serially(x) \o rest) = (serial \o Serially(x)) \o rest
            <6>1. serial \in Seq(Mark) /\ Serially(x) \in Seq(Mark) /\ rest \in Seq(Mark)
              BY <1>6, <4>1
            <6> QED BY <6>1, MarksAssociate, Zenon
          <5> QED BY <5>1, <5>2, <1>1
        <4>3. Owes(Remaining(d), rest) /\ Begun(d)
          BY <4>1, <1>4 DEF Begun
        <4> QED BY <4>2, <4>3, OneDue
      <3> QED BY <3>1, <3>2, <1>9
    <2>6. \A q, r \in Process : Begun(call'[q]) /\ Begun(call'[r]) => q = r
      BY <2>3
    <2>7. \A q \in Process, now \in Seq(Mark) :
             Owes(Remaining(call'[q]), now) => SentOf(output') = serial' \o now
      <3> TAKE q \in Process, now \in Seq(Mark)
      <3>1. CASE q = p
        BY <3>1, <2>4, <2>5
      <3>2. CASE q # p
        BY <3>2, <2>3
      <3> QED BY <3>1, <3>2
    <2>8. (\A q \in Process : ~Begun(call'[q])) => SentOf(output') = serial'
      BY <2>4, <2>5
    <2> QED BY <2>6, <2>7, <2>8
  <1> QED BY <1>7, <1>10, <1>11

-----------------------------------------------------------------------------
(* The steps and the screen *)

\* A step away from the outputs: if it is of a call, that one has nothing to send,
\* or gets a whole.
Quiet ==
    /\ UNCHANGED <<screen, row, column, serial, output, mixed>>
    /\ panic' = OutsideScreen <=> panic = OutsideScreen
    /\ panic = OutsideScreen => UNCHANGED call
    /\ \/ UNCHANGED call
       \/ \E p \in Process : \E d :
             /\ Becomes(p, d)
             /\ ~Sender(call[p]) /\ ~Inside(d) /\ Whole(d.sends)

LEMMA QuietOutputs == ASSUME KeysInv, OutputInv, Quiet PROVE OutputInv'
  <1>1. /\ OutputTypes /\ SendsInv /\ ScreenInv /\ SerialInv /\ CallTypes
        /\ UNCHANGED <<screen, row, column, serial, output, mixed>>
        /\ panic' = OutsideScreen <=> panic = OutsideScreen
        /\ panic = OutsideScreen => UNCHANGED call
    BY DEF OutputInv, KeysInv, Quiet
  <1>2. \A q \in Process :
           /\ Sender(call'[q]) <=> call'[q].sends # << >>
           /\ Inside(call'[q]) <=> Inside(call[q])
           /\ Inside(call[q]) => call'[q] = call[q]
           /\ call'[q].at = "edit" => Editing(call'[q])
           /\ call'[q] = call[q] \/ (Whole(Remaining(call'[q])) /\ Whole(Remaining(call[q])))
    <2>1. CASE UNCHANGED call
      BY <2>1, <1>1 DEF SendsInv
    <2>2. CASE \E p \in Process : \E d :
                  Becomes(p, d) /\ ~Sender(call[p]) /\ ~Inside(d) /\ Whole(d.sends)
      <3> PICK p \in Process :
               \E d : Becomes(p, d) /\ ~Sender(call[p]) /\ ~Inside(d) /\ Whole(d.sends)
        BY <2>2
      <3>1. PICK d : Becomes(p, d) /\ ~Sender(call[p]) /\ ~Inside(d) /\ Whole(d.sends)
        OBVIOUS
      <3>2. \A q \in Process : call'[q] = IF q = p THEN d ELSE call[q]
        BY <1>1, <3>1, BecomesIs
      <3>3. /\ ~Inside(call[p]) /\ call[p].sends = << >>
            /\ Whole(Remaining(call[p])) /\ Whole(Remaining(d))
        BY <1>1, <3>1 DEF SendsInv, Sender, Inside, Busy, Remaining, Whole
      <3>4. ASSUME NEW q \in Process, q # p
            PROVE  /\ call'[q] = call[q] /\ (Sender(call[q]) <=> call[q].sends # << >>)
                   /\ call[q].at = "edit" => Editing(call[q])
        BY <3>2, <3>4, <1>1 DEF SendsInv
      <3>5. /\ call'[p] = d /\ (Sender(d) <=> d.sends # << >>)
            /\ d.at # "edit"
        BY <3>1, <3>2 DEF Becomes, Inside
      <3> QED BY <3>1, <3>3, <3>4, <3>5
    <2> QED BY <2>1, <2>2 DEF Quiet
  <1>3. \A q \in Process : \A due :
           Owes(Remaining(call'[q]), due) <=> Owes(Remaining(call[q]), due)
    BY <1>2, OneDue
  <1>4. SerialInv'
    BY <1>1, <1>3, SameDebts
  <1>5. OutputTypes'
    BY <1>1 DEF OutputTypes
  <1>6. SendsInv'
    <2>1. ASSUME NEW q \in Process, ~mixed.outputs
          PROVE  Whole(Remaining(call'[q])) \/ Begun(call'[q])
      BY <1>1, <1>2, <2>1 DEF SendsInv
    <2> QED BY <2>1, <1>1, <1>2 DEF SendsInv
  <1>7. ScreenInv'
    <2>1. (panic = OutsideScreen => mixed.screen)'
      BY <1>1 DEF ScreenInv
    <2>2. \A q \in Process : /\ call'[q].at = "advance" <=> call[q].at = "advance"
                             /\ call'[q].at = "scroll" <=> call[q].at = "scroll"
                             /\ Busy(call'[q]) <=> Busy(call[q])
                             /\ call'[q].at = "edit" => call'[q] = call[q]
      BY <1>2 DEF Inside, Busy
    <2> SUFFICES ASSUME ~mixed.screen
                 PROVE  /\ \A p, q \in Process : Inside(call'[p]) /\ Inside(call'[q]) => p = q
                        /\ (\A p \in Process : ~Busy(call'[p]))
                              => row' # Height /\ Shown'
                        /\ \A p \in Process :
                              /\ call'[p].at = "edit" /\ Head(call'[p].sends).symbol = "back"
                                    => column' # 0
                              /\ call'[p].at = "advance"
                                    => ShownAfter'
                              /\ call'[p].at = "scroll" => Shown'
      BY <2>1, <1>1 DEF ScreenInv
    <2>3. /\ \A p, q \in Process : Inside(call[p]) /\ Inside(call[q]) => p = q
          /\ (\A p \in Process : ~Busy(call[p])) => row # Height /\ Shown
          /\ \A p \in Process :
                /\ call[p].at = "edit" /\ Head(call[p].sends).symbol = "back" => column # 0
                /\ call[p].at = "advance" => ShownAfter
                /\ call[p].at = "scroll" => Shown
      BY <1>1 DEF ScreenInv
    <2>4. (Shown' <=> Shown) /\ (ShownAfter' <=> ShownAfter)
      BY <1>1 DEF Shown, ShownAfter
    <2> QED BY <2>2, <2>3, <2>4, <1>1, <1>2
  <1> QED BY <1>4, <1>5, <1>6, <1>7 DEF OutputInv

\* The papers with a symbol more.
LEMMA PaperMore ==
    ASSUME NEW out \in Seq(Mark), NEW x \in Mark, NEW s, NEW r, NEW c, OnPaper(out, s, r, c),
           NEW rows \in Nat, rows >= Len(Append(out, x)) + Height
    PROVE  /\ Len(Append(out, x)) = Len(out) + 1 /\ Len(out) \in Nat
           /\ rows >= Len(out) + 1 + Height
           /\ PaperOf(out, rows) \in Sheets(rows)
           /\ Shows(PaperOf(out, rows), s, r, c, rows, Len(out))
           /\ PaperOf(Append(out, x), rows) = SymbolOn(PaperOf(out, rows), x)
  <1>1. Len(Append(out, x)) = Len(out) + 1 /\ Len(out) \in Nat /\ Height \in Nat
    BY ScreenAssumption
  <1>2. rows >= Len(out) + 1 + Height /\ rows >= Len(out) + Height
    BY <1>1
  <1>3. Shows(PaperOf(out, rows), s, r, c, rows, Len(out))
    BY <1>2 DEF OnPaper
  <1> QED BY <1>1, <1>2, <1>3, PaperGrows

LEMMA PrintedOn ==
    ASSUME NEW out \in Seq(Mark), NEW x \in Mark, x \notin Erasing,
           NEW s, NEW r, NEW c, r # Height, OnPaper(out, s, r, c)
    PROVE  /\ r * Width + c \in Cell
           /\ OnPaper(Append(out, x), [s EXCEPT ![r * Width + c] = x],
                      RowAfter(r, c), ColumnAfter(c))
  <1> DEFINE place == r * Width + c
             v == [s EXCEPT ![place] = x]
  <1>1. ASSUME NEW rows \in Nat, rows >= Len(Append(out, x)) + Height
        PROVE  /\ place \in Cell
               /\ Shows(PaperOf(Append(out, x), rows), v, RowAfter(r, c), ColumnAfter(c),
                        rows, Len(Append(out, x)))
    <2> DEFINE t == PaperOf(out, rows)
    <2>1. /\ Len(Append(out, x)) = Len(out) + 1 /\ Len(out) \in Nat
          /\ rows >= Len(out) + 1 + Height
          /\ t \in Sheets(rows) /\ Shows(t, s, r, c, rows, Len(out))
          /\ PaperOf(Append(out, x), rows) = SymbolOn(t, x)
      BY <1>1, PaperMore
    <2> HIDE DEF t
    <2>2. place \in Cell /\ Shows(SymbolOn(t, x), v, RowAfter(r, c), ColumnAfter(c), rows, Len(out) + 1)
      BY <2>1, PutShows
    <2> QED BY <2>1, <2>2
  <1> HIDE DEF place, v
  <1>2. place \in Cell
    <2> DEFINE rows == Len(Append(out, x)) + Height
    <2>1. rows \in Nat /\ rows >= Len(Append(out, x)) + Height
      BY ScreenAssumption
    <2> QED BY <2>1, <1>1
  <1>3. OnPaper(Append(out, x), v, RowAfter(r, c), ColumnAfter(c))
    BY <1>1 DEF OnPaper
  <1> QED BY <1>2, <1>3 DEF place, v

LEMMA ErasedOn ==
    ASSUME NEW out \in Seq(Mark), NEW x \in Mark, x \in Erasing,
           NEW s, NEW r, NEW c, r # Height, OnPaper(out, s, r, c),
           NEW v \in [Cell -> Glyph],
           \A i \in Cell : v[i] = IF x = "clear" /\ i \div Width = r /\ i % Width >= c
                                  THEN Blank ELSE s[i]
    PROVE  /\ r \in Rows /\ c \in Columns
           /\ x = "\n" => OnPaper(Append(out, x), v, r + 1, 0)
           /\ x = "\r" => OnPaper(Append(out, x), v, r, 0)
           /\ x = "back" => OnPaper(Append(out, x), v, r, IF c = 0 THEN 0 ELSE c - 1)
           /\ x \in {"bell", "clear"} => OnPaper(Append(out, x), v, r, c)
  <1> DEFINE n == Len(out) + 1
             more(rows) == PaperOf(Append(out, x), rows)
             a == IF x = "\n" THEN r + 1 ELSE r
  <1>1. ASSUME NEW rows \in Nat, rows >= Len(Append(out, x)) + Height
        PROVE  /\ Len(Append(out, x)) = n
               /\ Shows(more(rows), v, a, more(rows).column, rows, n)
               /\ x \in {"\n", "\r"} => more(rows).column = 0
               /\ x = "back" => more(rows).column = IF c = 0 THEN 0 ELSE c - 1
               /\ x \in {"bell", "clear"} => more(rows).column = c
               /\ r \in Rows /\ c \in Columns
    <2> DEFINE t == PaperOf(out, rows)
    <2>1. /\ Len(Append(out, x)) = Len(out) + 1 /\ Len(out) \in Nat
          /\ rows >= Len(out) + 1 + Height
          /\ t \in Sheets(rows) /\ Shows(t, s, r, c, rows, Len(out))
          /\ PaperOf(Append(out, x), rows) = SymbolOn(t, x)
      BY <1>1, PaperMore
    <2> HIDE DEF t
    <2>2. /\ Shows(SymbolOn(t, x), v, a, SymbolOn(t, x).column, rows, Len(out) + 1)
          /\ x \in {"\n", "\r"} => SymbolOn(t, x).column = 0
          /\ x = "back" => SymbolOn(t, x).column = IF c = 0 THEN 0 ELSE c - 1
          /\ x \in {"bell", "clear"} => SymbolOn(t, x).column = c
          /\ r \in Rows /\ c \in Columns
      BY <2>1, ErasingShows
    <2> QED BY <2>1, <2>2
  <1> HIDE DEF n, more, a
  <1>2. r \in Rows /\ c \in Columns
    <2> DEFINE rows == Len(Append(out, x)) + Height
    <2>1. rows \in Nat /\ rows >= Len(Append(out, x)) + Height
      BY ScreenAssumption
    <2> QED BY <2>1, <1>1
  <1>3. ASSUME NEW d, \A rows \in Nat :
                 rows >= Len(Append(out, x)) + Height => more(rows).column = d
        PROVE  OnPaper(Append(out, x), v, a, d)
    BY <1>1, <1>3 DEF OnPaper, more
  <1>4. CASE x = "\n"
    <2>1. OnPaper(Append(out, x), v, a, 0)
      BY <1>1, <1>3, <1>4
    <2> QED BY <2>1, <1>2, <1>4 DEF a
  <1>5. CASE x = "\r"
    <2>1. OnPaper(Append(out, x), v, a, 0)
      BY <1>1, <1>3, <1>5
    <2> QED BY <2>1, <1>2, <1>5 DEF a
  <1>6. CASE x = "back"
    <2>1. OnPaper(Append(out, x), v, a, IF c = 0 THEN 0 ELSE c - 1)
      BY <1>1, <1>3, <1>6
    <2> QED BY <2>1, <1>2, <1>6 DEF a
  <1>7. CASE x \in {"bell", "clear"}
    <2>1. OnPaper(Append(out, x), v, a, c)
      BY <1>1, <1>3, <1>7
    <2> QED BY <2>1, <1>2, <1>7 DEF a
  <1> QED BY <1>4, <1>5, <1>6, <1>7 DEF Erasing

\* A symbol that is not sent in the middle of another finds nobody at the screen.
LEMMA Meeting ==
    ASSUME OutputInv, NEW p \in Process, Showing(p),
           mixed'.screen = (mixed.screen \/ Crowded(p)), ~mixed'.screen
    PROVE  /\ ~mixed.screen /\ \A q \in Process : ~Busy(call[q])
           /\ \A q \in Process \ {p} : ~Inside(call[q])
           /\ row # Height /\ Shown
  <1>1. ~mixed.screen /\ \A q \in Process \ {p} : ~Inside(call[q])
    BY DEF Crowded, Inside
  <1>2. call[p].at \in {"send", "edit"}
    BY DEF Showing
  <1>3. \A q \in Process : ~Busy(call[q])
    BY <1>1, <1>2 DEF Busy, Inside
  <1> QED BY <1>1, <1>3 DEF OutputInv, ScreenInv

LEMMA SymbolSent ==
    ASSUME KeysInv, OutputInv, NEW p \in Process, Showing(p)
    PROVE  /\ call[p].sends \in Seq(Symbols) /\ call[p].sends # << >>
           /\ Head(call[p].sends).symbol \in Mark /\ ~Busy(call[p])
           /\ output \in Seq(Mark) /\ panic = NoPanic /\ panic # OutsideScreen
  <1>1. call[p].at \in {"send", "edit"} /\ panic = NoPanic
    BY DEF Showing, Running
  <1>2. call[p].sends # << >> /\ ~Busy(call[p])
    BY <1>1 DEF OutputInv, SendsInv, Sender, Busy
  <1>3. call[p].sends \in Seq(Symbols)
    BY CallFields
  <1>4. Head(call[p].sends) \in Symbols
    BY <1>2, <1>3
  <1> QED BY <1>1, <1>2, <1>3, <1>4 DEF Symbols, Mark, OutputInv, OutputTypes, NoPanic, OutsideScreen

\* The call of a process that has sent a symbol.
LEMMA SentIs ==
    ASSUME KeysInv, NEW p \in Process, Sent(p)
    PROVE  \E d : /\ Becomes(p, d) /\ ~Busy(d) /\ ~Inside(d)
                  /\ d.sends = Tail(call[p].sends) /\ Remaining(d) = Tail(call[p].sends)
  <1> DEFINE rest == Tail(call[p].sends)
             at == IF rest = << >> THEN "text" ELSE "send"
             d == [call[p] EXCEPT !.sends = rest, !.at = at]
  <1>1. call' = [call EXCEPT ![p] = d]
    BY DEF Sent
  <1>2. d.sends = rest /\ d.at = at
    <2>1. call[p] \in CallRecords
      BY CallFields DEF Calls
    <2> HIDE DEF rest, at
    <2> QED BY <2>1 DEF CallRecords
  <1> HIDE DEF d
  <1>3. Becomes(p, d) /\ ~Busy(d) /\ ~Inside(d) /\ Remaining(d) = rest
    BY <1>1, <1>2 DEF Becomes, Sender, Inside, Busy, Remaining
  <1> QED BY <1>2, <1>3


-----------------------------------------------------------------------------
(* Every step preserves the invariant of the outputs *)

LEMMA InitOutputs == Init => OutputInv
  <1> SUFFICES ASSUME Init PROVE OutputInv
    OBVIOUS
  <1>1. /\ screen = [i \in Cell |-> Blank] /\ row = 0 /\ column = 0
        /\ serial = << >> /\ output = << >>
        /\ mixed = [screen |-> FALSE, outputs |-> FALSE]
        /\ \A p \in Process : call[p] = Idle
        /\ panic # OutsideScreen
    BY DEF Init, NoPanic, OutsideScreen
  <1>2. "?" \in Mark /\ << >> \in Seq(Mark) /\ Len(<< >>) = 0
    BY DEF Mark
  <1>3. \A p \in Process : /\ ~Sender(call[p]) /\ ~Busy(call[p]) /\ ~Inside(call[p])
                           /\ call[p].sends = << >> /\ Remaining(call[p]) = << >>
    BY <1>1 DEF Sender, Inside, Busy, Remaining, Idle
  <1>4. Whole(<< >>)
    BY DEF Whole
  <1>5. \A p \in Process : /\ ~Begun(call[p])
                           /\ \A due : ~Owes(Remaining(call[p]), due)
    BY <1>3, <1>4, OneDue DEF Begun
  <1>6. OutputTypes
    BY <1>1, <1>2 DEF OutputTypes
  <1>7. SendsInv
    BY <1>3, <1>4 DEF SendsInv, Inside
  <1>8. Shown
    <2> SUFFICES ASSUME NEW rows \in Nat, rows >= 0 + Height
                 PROVE  Shows(PaperOf(<< >>, rows), [i \in Cell |-> Blank], 0, 0, rows, 0)
      BY <1>1, <1>2, Zenon DEF Shown, OnPaper
    <2>1. PaperOf(<< >>, rows) = Empty(rows)
      BY <1>2, PaperGrows
    <2>2. rows >= Height
      BY ScreenAssumption
    <2> QED BY <2>1, <2>2, EmptyShows
  <1>9. ScreenInv
    <2>1. row # Height
      BY <1>1, ScreenAssumption
    <2>2. \A p \in Process : call[p].at \notin {"edit", "advance", "scroll"}
      BY <1>3 DEF Inside
    <2> QED BY <2>1, <2>2, <1>1, <1>3, <1>8 DEF ScreenInv
  <1>10. SerialInv
    <2>1. SentOf(output) = serial
      BY <1>1, <1>2, SentGrows
    <2> QED BY <2>1, <1>1, <1>5 DEF SerialInv
  <1> QED BY <1>6, <1>7, <1>9, <1>10 DEF OutputInv

LEMMA StopIsQuiet ==
    ASSUME Running, NEW message, message # OutsideScreen, Stop(message)
    PROVE  Quiet
  BY DEF Running, NoPanic, OutsideScreen, Stop, outputs, vga, Quiet

\* A call that goes on, away from the outputs.
LEMMA OnIsQuiet ==
    ASSUME NEW p \in Process, NEW d, call' = [call EXCEPT ![p] = d], Running,
           call[p].at \notin {"send", "edit", "advance", "scroll"},
           d.at \notin {"edit", "advance", "scroll"},
           d.at = "send" <=> d.sends # << >>, Whole(d.sends),
           UNCHANGED <<outputs, panic>>
    PROVE  Quiet
  <1>1. UNCHANGED <<screen, row, column, serial, output, mixed, panic>>
    BY DEF outputs, vga
  <1>2. panic # OutsideScreen
    BY DEF Running, NoPanic, OutsideScreen
  <1>3. Becomes(p, d) /\ ~Sender(call[p]) /\ ~Inside(d)
    BY DEF Becomes, Sender, Inside
  <1> QED BY <1>1, <1>2, <1>3 DEF Quiet

\* The calls that are not at an output.
LEMMA NothingToSend ==
    ASSUME KeysInv, SendsInv, NEW p \in Process,
           call[p].at \notin {"send", "edit", "advance", "scroll"}
    PROVE  call[p] \in CallRecords /\ call[p].sends = << >> /\ Whole(<< >>)
  BY CallFields DEF Calls, SendsInv, Sender, Whole

LEMMA CallsAreQuiet ==
    ASSUME KeysInv, OutputInv, NEW p \in Process,
           \/ ReadWait(p) \/ ReadLoad(p) \/ ReadStore(p) \/ PollRound(p)
           \/ \E noblock \in BOOLEAN, n \in ReadSizes : Read(p, n, noblock)
           \/ \E timeout \in Timeouts : Poll(p, timeout)
           \/ \E device, operation : Device(p, device, operation)
    PROVE  Quiet
  <1>1. NoBlock # OutsideScreen /\ DevicePanic # OutsideScreen
    BY DEF NoBlock, DevicePanic, OutsideScreen
  <1>2. /\ Running
        /\ call[p].at \in {"user", "wait", "load", "store", "poll"}
    BY DEF ReadWait, ReadLoad, ReadStore, PollRound, Read, Poll, Device, At
  <1>3. call[p] \in CallRecords /\ call[p].sends = << >> /\ Whole(<< >>)
    BY <1>2, NothingToSend DEF OutputInv
  <1>4. ASSUME NEW d, call' = [call EXCEPT ![p] = d], UNCHANGED <<outputs, panic>>,
               d.at \in {"user", "wait", "load", "store", "poll"}, d.sends = << >>
        PROVE  Quiet
    BY <1>2, <1>3, <1>4, OnIsQuiet
  <1>5. Idle.at = "user" /\ Idle.sends = << >>
    BY DEF Idle
  <1>6. CASE ReadWait(p)
    <2> DEFINE d == [call[p] EXCEPT !.at = "load"]
    <2>1. call' = [call EXCEPT ![p] = d] /\ UNCHANGED <<outputs, panic>>
      BY <1>6 DEF ReadWait, Goes
    <2>2. d.at = "load" /\ d.sends = << >>
      BY <1>3 DEF CallRecords
    <2> HIDE DEF d
    <2> QED BY <2>1, <2>2, <1>4
  <1>7. CASE ReadLoad(p)
    <2> DEFINE d == [call[p] EXCEPT !.at = "store", !.key = buffer[out_index]]
    <2>1. call' = [call EXCEPT ![p] = d] /\ UNCHANGED <<outputs, panic>>
      BY <1>7 DEF ReadLoad
    <2>2. d.at = "store" /\ d.sends = << >>
      BY <1>3 DEF CallRecords
    <2> HIDE DEF d
    <2> QED BY <2>1, <2>2, <1>4
  <1>8. CASE ReadStore(p)
    <2> DEFINE d == [Idle EXCEPT !.at = "wait", !.left = call[p].left - 1]
    <2>1. /\ call' = [call EXCEPT ![p] = Idle] \/ call' = [call EXCEPT ![p] = d]
          /\ UNCHANGED <<outputs, panic>>
      BY <1>8 DEF ReadStore, Return
    <2>2. d.at = "wait" /\ d.sends = << >>
      BY DEF Idle
    <2> HIDE DEF d
    <2> QED BY <2>1, <2>2, <1>4, <1>5
  <1>9. CASE PollRound(p)
    <2> DEFINE left_ == IF call[p].timeout = -1 THEN -1 ELSE call[p].timeout - 1
               d == [call[p] EXCEPT !.timeout = left_]
    <2>1. /\ call' = [call EXCEPT ![p] = Idle] \/ call' = [call EXCEPT ![p] = d]
          /\ UNCHANGED <<outputs, panic>> /\ call[p].at = "poll"
      BY <1>9 DEF PollRound, Return, At
    <2>2. d.at = "poll" /\ d.sends = << >>
      <3> HIDE DEF left_
      <3> QED BY <2>1, <1>3 DEF CallRecords
    <2> HIDE DEF d
    <2> QED BY <2>1, <2>2, <1>4, <1>5
  <1>10. ASSUME NEW noblock \in BOOLEAN, NEW n \in ReadSizes, Read(p, n, noblock)
         PROVE  Quiet
    <2> DEFINE d == [call[p] EXCEPT !.at = "wait", !.left = n]
    <2>1. Stop(NoBlock) \/ (call' = [call EXCEPT ![p] = d] /\ UNCHANGED <<outputs, panic>>)
      BY <1>10 DEF Read
    <2>2. d.at = "wait" /\ d.sends = << >>
      BY <1>3 DEF CallRecords
    <2> HIDE DEF d
    <2> QED BY <2>1, <2>2, <1>1, <1>2, <1>4, StopIsQuiet
  <1>11. ASSUME NEW timeout \in Timeouts, Poll(p, timeout)
         PROVE  Quiet
    <2> DEFINE d == [call[p] EXCEPT !.at = "poll", !.timeout = timeout]
    <2>1. call' = [call EXCEPT ![p] = d] /\ UNCHANGED <<outputs, panic>>
      BY <1>11 DEF Poll
    <2>2. d.at = "poll" /\ d.sends = << >>
      BY <1>3 DEF CallRecords
    <2> HIDE DEF d
    <2> QED BY <2>1, <2>2, <1>4
  <1>12. ASSUME NEW device, NEW operation, Device(p, device, operation)
         PROVE  Quiet
    BY <1>1, <1>2, <1>12, StopIsQuiet DEF Device
  <1> QED BY <1>6, <1>7, <1>8, <1>9, <1>10, <1>11, <1>12

LEMMA WritesAreQuiet ==
    ASSUME KeysInv, OutputInv, NEW p \in Process,
           \/ \E text \in Texts, noblock \in BOOLEAN : Write(p, text, noblock)
           \/ WritePiece(p)
    PROVE  Quiet
  <1>1. NoBlock # OutsideScreen /\ UnknownSgr # OutsideScreen
    BY DEF NoBlock, UnknownSgr, OutsideScreen
  <1>2. Running /\ call[p].at \in {"user", "text"}
    BY DEF Write, WritePiece, PieceNext, At
  <1>3. /\ call[p] \in CallRecords /\ call[p].sends = << >> /\ Whole(<< >>)
        /\ call[p].text \in Seq(Piece)
    BY <1>2, NothingToSend, CallFields DEF OutputInv
  <1>4. ASSUME NEW text \in Texts, NEW noblock \in BOOLEAN, Write(p, text, noblock)
        PROVE  Quiet
    <2> DEFINE d == [call[p] EXCEPT !.at = "text", !.text = text]
    <2>1. Stop(NoBlock) \/ (call' = [call EXCEPT ![p] = d] /\ UNCHANGED <<outputs, panic>>)
      BY <1>4 DEF Write
    <2>2. d.at = "text" /\ d.sends = << >>
      BY <1>3 DEF CallRecords
    <2> HIDE DEF d
    <2> QED BY <2>1, <2>2, <1>1, <1>2, <1>3, StopIsQuiet, OnIsQuiet
  <1>5. CASE WritePiece(p)
    <2> DEFINE text == call[p].text
               d == Begins(call[p])
    <2>1. \/ call' = [call EXCEPT ![p] = Idle] /\ UNCHANGED <<outputs, panic>>
          \/ Stop(UnknownSgr)
          \/ /\ text # << >> /\ call' = [call EXCEPT ![p] = d]
             /\ UNCHANGED <<outputs, panic>>
      BY <1>5 DEF WritePiece, PieceNext, Return
    <2>2. CASE call' = [call EXCEPT ![p] = Idle] /\ UNCHANGED <<outputs, panic>>
      <3>1. Idle.at = "user" /\ Idle.sends = << >>
        BY DEF Idle
      <3> QED BY <2>2, <3>1, <1>2, <1>3, OnIsQuiet
    <2>3. CASE Stop(UnknownSgr)
      BY <2>3, <1>1, <1>2, StopIsQuiet
    <2>4. CASE /\ text # << >> /\ call' = [call EXCEPT ![p] = d]
               /\ UNCHANGED <<outputs, panic>>
      <3>1. /\ d.sends = Sends(Head(text)) /\ Head(text) \in Piece
            /\ d.at = IF d.sends = << >> THEN "text" ELSE "send"
        BY <2>4, BeginsIs
      <3>2. Whole(d.sends)
        BY <3>1, SendsWhole
      <3> HIDE DEF d
      <3> QED BY <3>1, <3>2, <2>4, <1>2, OnIsQuiet
    <2> QED BY <2>1, <2>2, <2>3, <2>4
  <1> QED BY <1>4, <1>5

LEMMA ShownIs ==
    ASSUME OutputTypes, NEW s, NEW r, NEW c, OnPaper(output, s, r, c)
    PROVE  /\ r \in 0 .. Height /\ c \in Columns /\ s \in [Cell -> Glyph]
           /\ r # Height => r \in Rows
  <1> DEFINE n == Len(output)
             rows == n + Height
             t == PaperOf(output, rows)
  <1>1. n \in Nat /\ rows \in Nat /\ rows >= n + Height /\ Height \in Nat
    BY ScreenAssumption DEF OutputTypes
  <1>2. "?" \in Mark /\ output \in Seq(Mark)
    BY DEF Mark, OutputTypes
  <1>3. t \in Sheets(rows)
    BY <1>1, <1>2, PaperGrows
  <1>4. Shows(t, s, r, c, rows, n)
    BY <1>1 DEF OnPaper
  <1> HIDE DEF n, rows, t
  <1>5. t.column \in Columns
    BY <1>1, <1>3, <1>4, WindowIs
  <1>6. r \in 0 .. Height /\ c \in Columns /\ s \in [Cell -> Glyph]
    BY <1>4, <1>5 DEF Shows
  <1> QED BY <1>1, <1>6 DEF Rows

\* The steps before and after the symbol is on the screen send nothing.
LEMMA SameSends ==
    ASSUME KeysInv, OutputTypes, SendsInv, SerialInv, NEW p \in Process, NEW d,
           Becomes(p, d), Remaining(d) = Remaining(call[p]),
           panic # OutsideScreen, UNCHANGED <<output, serial, panic>>,
           mixed' \in [screen : BOOLEAN, outputs : BOOLEAN], mixed'.outputs = mixed.outputs
    PROVE  OutputTypes' /\ SendsInv' /\ SerialInv'
  <1>1. \A q \in Process : call'[q] = IF q = p THEN d ELSE call[q]
    BY BecomesIs DEF KeysInv
  <1>2. \A q \in Process : /\ Remaining(call'[q]) = Remaining(call[q])
                           /\ Sender(call'[q]) <=> call'[q].sends # << >>
                           /\ call'[q].at = "edit" => Editing(call'[q])
    BY <1>1 DEF Becomes, SendsInv
  <1>3. SendsInv'
    <2>1. \A q \in Process : Begun(call'[q]) <=> Begun(call[q])
      BY <1>2 DEF Begun
    <2> QED BY <2>1, <1>2 DEF SendsInv
  <1>4. SerialInv'
    BY <1>2, SameDebts
  <1> QED BY <1>3, <1>4 DEF OutputTypes

\* A symbol that erases, or shows nothing.
LEMMA ErasesOutputs ==
    ASSUME KeysInv, OutputInv, NEW p \in Process, Showing(p), Meets(p), Sent(p),
           UNCHANGED <<row, serial, panic>>,
           NEW x, x = Head(call[p].sends).symbol, x \in {"back", "clear", "bell"},
           ~mixed'.screen => column' = IF x = "back" /\ column # 0 THEN column - 1 ELSE column,
           screen' = IF x = "clear" /\ column >= 0
                     THEN [i \in Cell |->
                            IF i \in row * Width + column .. row * Width + Width - 1
                            THEN Blank ELSE screen[i]]
                     ELSE screen
    PROVE  OutputInv'
  <1>1. output' = Append(output, x) /\ mixed'.screen = (mixed.screen \/ Crowded(p))
    BY DEF Meets
  <1>2. /\ x \in Mark /\ x \in Erasing /\ panic # OutsideScreen
        /\ output \in Seq(Mark) /\ OutputTypes /\ SendsInv /\ SerialInv
    BY SymbolSent DEF Erasing, OutputInv
  <1>3. PICK d : /\ Becomes(p, d) /\ ~Busy(d) /\ ~Inside(d)
                 /\ Remaining(d) = Tail(call[p].sends)
    BY SentIs
  <1>4. OutputTypes' /\ SendsInv' /\ SerialInv'
    BY <1>2, <1>3, OutputGrows
  <1>5. ASSUME ~mixed'.screen
        PROVE  /\ \A q \in Process : ~Inside(call'[q])
               /\ row' # Height /\ Shown'
    <2>1. (\A q \in Process \ {p} : ~Inside(call[q])) /\ row # Height /\ Shown
      BY <1>1, <1>5, Meeting
    <2>2. \A q \in Process : ~Inside(call'[q])
      <3>1. \A q \in Process : call'[q] = IF q = p THEN d ELSE call[q]
        BY <1>3, BecomesIs DEF KeysInv
      <3> QED BY <3>1, <2>1, <1>3
    <2>3. row \in Rows /\ column \in Columns /\ screen \in [Cell -> Glyph]
      BY <2>1, <1>2, ShownIs DEF Shown
    <2>4. column >= 0
      BY <2>3 DEF Columns
    <2>5. \A i \in Cell : i \in row * Width + column .. row * Width + Width - 1
                             <=> i \div Width = row /\ i % Width >= column
      BY <2>3, RestOfRow
    <2>6. /\ screen' \in [Cell -> Glyph]
          /\ \A i \in Cell : screen'[i] =
                IF x = "clear" /\ i \div Width = row /\ i % Width >= column
                THEN Blank ELSE screen[i]
      <3>1. CASE x = "clear"
        <4>1. screen' = [i \in Cell |->
                           IF i \div Width = row /\ i % Width >= column
                           THEN Blank ELSE screen[i]]
          BY <3>1, <2>4, <2>5
        <4>2. Blank \in Glyph
          BY DEF Glyph
        <4> QED BY <3>1, <4>1, <4>2, <2>3
      <3>2. CASE x # "clear"
        BY <3>2, <2>3
      <3> QED BY <3>1, <3>2
    <2>7. OnPaper(output, screen, row, column)
      BY <2>1 DEF Shown
    <2>8. /\ x = "back" => OnPaper(output', screen', row, IF column = 0 THEN 0 ELSE column - 1)
          /\ x \in {"bell", "clear"} => OnPaper(output', screen', row, column)
      BY <2>1, <2>6, <2>7, <1>1, <1>2, ErasedOn
    <2>9. Shown'
      <3>1. CASE x = "back"
        <4>1. column' = IF column = 0 THEN 0 ELSE column - 1
          BY <3>1, <1>5
        <4> QED BY <3>1, <4>1, <2>8 DEF Shown
      <3>2. CASE x # "back"
        <4>1. x \in {"bell", "clear"} /\ column' = column
          BY <3>2, <1>5
        <4> QED BY <4>1, <2>8 DEF Shown
      <3> QED BY <3>1, <3>2
    <2> QED BY <2>1, <2>2, <2>9
  <1>6. ScreenInv'
    <2>1. panic' # OutsideScreen
      BY <1>2
    <2>2. ~mixed'.screen =>
             \A q \in Process : call'[q].at \notin {"edit", "advance", "scroll"}
      BY <1>5 DEF Inside
    <2> QED BY <2>1, <2>2, <1>5 DEF ScreenInv, Inside
  <1> QED BY <1>4, <1>6 DEF OutputInv

LEMMA SendingShows ==
    ASSUME NEW p \in Process, Sending(p, "vga")
    PROVE  Showing(p)
  BY DEF Sending, At, Showing

LEMMA EditOutputs ==
    ASSUME KeysInv, OutputInv, NEW p \in Process, Edit(p)
    PROVE  OutputInv'
  <1> DEFINE x == Head(call[p].sends).symbol
             d == [call[p] EXCEPT !.at = "edit"]
  <1>1. /\ Sending(p, "vga") /\ Showing(p) /\ UNCHANGED <<screen, row, column, serial, panic>>
        /\ \/ /\ x = "clear" \/ (x = "back" /\ column # 0)
              /\ Goes(p, "edit")
              /\ mixed' = [mixed EXCEPT !.screen = @ \/ Crowded(p)]
              /\ output' = output
           \/ /\ x = "bell" \/ (x = "back" /\ column = 0)
              /\ Meets(p)
              /\ Sent(p)
    BY SendingShows DEF Edit, vga
  <1>2. CASE /\ x = "bell" \/ (x = "back" /\ column = 0)
             /\ Meets(p)
             /\ Sent(p)
    BY <1>1, <1>2, ErasesOutputs
  <1>3. CASE /\ x = "clear" \/ (x = "back" /\ column # 0)
             /\ Goes(p, "edit")
             /\ mixed' = [mixed EXCEPT !.screen = @ \/ Crowded(p)]
             /\ output' = output
    <2>1. /\ call[p] \in CallRecords /\ call[p].sends # << >>
          /\ call[p].at = "send" /\ Head(call[p].sends).to = "vga"
          /\ panic # OutsideScreen
          /\ OutputTypes /\ SendsInv /\ SerialInv
      BY <1>1, SymbolSent, CallFields DEF Calls, OutputInv, Sending, At
    <2>2. d.at = "edit" /\ d.sends = call[p].sends
      BY <2>1 DEF CallRecords
    <2>3. Editing(d)
      BY <1>3, <2>1, <2>2 DEF Editing
    <2>4. call' = [call EXCEPT ![p] = d]
      BY <1>3 DEF Goes
    <2>5. x = "back" => column # 0
      BY <1>3
    <2> HIDE DEF d
    <2>6. Becomes(p, d) /\ ~Busy(d) /\ Remaining(d) = Remaining(call[p])
      BY <2>1, <2>2, <2>3, <2>4 DEF Becomes, Sender, Busy, Remaining
    <2>7. /\ mixed' \in [screen : BOOLEAN, outputs : BOOLEAN]
          /\ mixed'.outputs = mixed.outputs
          /\ mixed'.screen = (mixed.screen \/ Crowded(p))
      BY <1>3, <2>1 DEF OutputTypes, Crowded
    <2>8. OutputTypes' /\ SendsInv' /\ SerialInv'
      BY <1>1, <1>3, <2>1, <2>6, <2>7, SameSends
    <2>9. \A q \in Process : call'[q] = IF q = p THEN d ELSE call[q]
      BY <2>6, BecomesIs DEF KeysInv
    <2> HIDE DEF x
    <2>10. ASSUME ~mixed'.screen
           PROVE  /\ \A q \in Process \ {p} : ~Inside(call'[q])
                  /\ row' # Height /\ Shown'
      <3>1. /\ \A q \in Process \ {p} : ~Inside(call[q])
            /\ row # Height /\ Shown
        BY <1>1, <2>7, <2>10, Meeting
      <3> QED BY <3>1, <2>9, <1>1, <1>3 DEF Shown
    <2>11. ScreenInv'
      <3>1. Head(call'[p].sends).symbol = x
        BY <2>2, <2>9 DEF x
      <3>2. ~mixed'.screen =>
               /\ \A q, r \in Process : Inside(call'[q]) /\ Inside(call'[r]) => q = r
               /\ row' # Height /\ Shown'
               /\ \A q \in Process :
                     /\ call'[q].at = "edit" => q = p
                     /\ call'[q].at \notin {"advance", "scroll"}
        BY <2>2, <2>9, <2>10 DEF Inside
      <3> QED BY <3>1, <3>2, <2>1, <2>5, <1>1 DEF ScreenInv
    <2> QED BY <2>8, <2>11 DEF OutputInv
  <1> QED BY <1>1, <1>2, <1>3

LEMMA EditEndOutputs ==
    ASSUME KeysInv, OutputInv, NEW p \in Process, EditEnd(p)
    PROVE  OutputInv'
  <1> DEFINE x == Head(call[p].sends).symbol
  <1>1. /\ call[p].at = "edit" /\ Running /\ Meets(p) /\ Sent(p)
        /\ UNCHANGED <<row, serial, panic>>
        /\ column' = IF x = "back" THEN column - 1 ELSE column
        /\ screen' = IF x = "clear" /\ column >= 0
                     THEN [i \in Cell |->
                            IF i \in row * Width + column .. row * Width + Width - 1
                            THEN Blank ELSE screen[i]]
                     ELSE screen
    BY DEF EditEnd, At
  <1>2. Head(call[p].sends).to = "vga" /\ x \in {"back", "clear"}
    BY <1>1 DEF OutputInv, SendsInv, Editing
  <1>3. Showing(p)
    BY <1>1, <1>2 DEF Showing
  <1>4. ~mixed'.screen => (x = "back" => column # 0)
    <2>1. mixed.screen => mixed'.screen
      BY <1>1 DEF Meets
    <2> QED BY <2>1, <1>1 DEF OutputInv, ScreenInv
  <1>5. ~mixed'.screen => column' = IF x = "back" /\ column # 0 THEN column - 1 ELSE column
    BY <1>1, <1>4
  <1> QED BY <1>1, <1>2, <1>3, <1>5, ErasesOutputs

LEMMA SerialOutputs ==
    ASSUME KeysInv, OutputInv, NEW p \in Process, SendSerial(p)
    PROVE  OutputInv'
  <1>1. /\ Sent(p) /\ call[p].at = "send" /\ panic # OutsideScreen
        /\ UNCHANGED <<screen, row, column, output, mixed, panic>>
    BY DEF SendSerial, Sending, At, Running, NoPanic, OutsideScreen, vga
  <1>2. OutputTypes' /\ SendsInv' /\ SerialInv'
    BY SerialGrows DEF OutputInv
  <1>3. \A q \in Process : call'[q] = call[q] \/ (~Inside(call'[q]) /\ ~Inside(call[q]))
    <2>1. PICK d : Becomes(p, d) /\ ~Inside(d)
      BY <1>1, SentIs
    <2>2. \A q \in Process : call'[q] = IF q = p THEN d ELSE call[q]
      BY <2>1, BecomesIs DEF KeysInv
    <2>3. ~Inside(call[p])
      BY <1>1 DEF Inside
    <2> QED BY <2>1, <2>2, <2>3
  <1>4. \A q \in Process : /\ Inside(call'[q]) <=> Inside(call[q])
                           /\ Busy(call'[q]) <=> Busy(call[q])
                           /\ call'[q].at = "edit" => call'[q] = call[q]
                           /\ call'[q].at = "advance" <=> call[q].at = "advance"
                           /\ call'[q].at = "scroll" <=> call[q].at = "scroll"
    BY <1>3 DEF Inside, Busy
  <1>5. (Shown' <=> Shown) /\ (ShownAfter' <=> ShownAfter)
    BY <1>1 DEF Shown, ShownAfter
  <1>6. ScreenInv'
    BY <1>1, <1>4, <1>5 DEF OutputInv, ScreenInv
  <1> QED BY <1>2, <1>6 DEF OutputInv

LEMMA PutOutputs ==
    ASSUME KeysInv, OutputInv, NEW p \in Process, Put(p)
    PROVE  OutputInv'
  <1> DEFINE x == Head(call[p].sends).symbol
             place == row * Width + column
             c == [call[p] EXCEPT !.at = "advance"]
  <1>1. /\ Showing(p) /\ call[p].at = "send" /\ x \notin {"back", "clear", "bell"}
        /\ Meets(p) /\ serial' = serial
        /\ output' = Append(output, x)
        /\ \/ /\ x \notin {"\n", "\r"} /\ place \notin Cell
              /\ panic' = OutsideScreen
              /\ UNCHANGED call
           \/ /\ screen' = IF x \in {"\n", "\r"} THEN screen ELSE [screen EXCEPT ![place] = x]
              /\ column' = IF x \in {"\n", "\r"} THEN -1 ELSE column
              /\ row' = IF x = "\n" THEN row + 1 ELSE row
              /\ call' = [call EXCEPT ![p] = c]
              /\ panic' = panic
    BY SendingShows DEF Put, Sending, At, Meets, Goes
  <1>2. /\ call[p] \in CallRecords /\ call[p].sends # << >>
        /\ x \in Mark /\ panic # OutsideScreen /\ output \in Seq(Mark)
        /\ OutputTypes /\ SendsInv /\ SerialInv
    BY <1>1, SymbolSent, CallFields DEF Calls, OutputInv
  <1>3. c.at = "advance" /\ c.sends = call[p].sends
    BY <1>2 DEF CallRecords
  <1> HIDE DEF x, place, c
  <1>4. ASSUME ~mixed'.screen, x \notin {"\n", "\r"}
        PROVE  /\ place \in Cell
               /\ OnPaper(output', [screen EXCEPT ![place] = x],
                          RowAfter(row, column), ColumnAfter(column))
    <2>1. row # Height /\ OnPaper(output, screen, row, column)
      BY <1>1, <1>4, Meeting DEF Shown, Meets
    <2>2. x \notin Erasing
      BY <1>1, <1>4 DEF Erasing
    <2> QED BY <2>1, <2>2, <1>1, <1>2, PrintedOn DEF place
  <1>5. CASE panic' = OutsideScreen
    <2>1. mixed'.screen /\ UNCHANGED call
      BY <1>1, <1>2, <1>4, <1>5
    <2>2. OutputTypes'
      <3>1. mixed' \in [screen : BOOLEAN, outputs : BOOLEAN]
        BY <1>1, <1>2 DEF Meets, Crowded, OutputTypes
      <3> QED BY <3>1, <1>1, <1>2 DEF OutputTypes
    <2>3. SendsInv'
      BY <2>1, <1>1, <1>2 DEF SendsInv, Meets
    <2>4. ScreenInv'
      BY <2>1 DEF ScreenInv
    <2>5. SerialInv'
      BY <2>1, <1>2, <1>5 DEF SerialInv
    <2> QED BY <2>2, <2>3, <2>4, <2>5 DEF OutputInv
  <1>6. CASE panic' # OutsideScreen
    <2>1. /\ screen' = IF x \in {"\n", "\r"} THEN screen ELSE [screen EXCEPT ![place] = x]
          /\ column' = IF x \in {"\n", "\r"} THEN -1 ELSE column
          /\ row' = IF x = "\n" THEN row + 1 ELSE row
          /\ call' = [call EXCEPT ![p] = c]
          /\ panic' = panic
      BY <1>1, <1>6
    <2>2. Becomes(p, c) /\ Busy(c) /\ Remaining(c) = Tail(call[p].sends)
      BY <2>1, <1>2, <1>3 DEF Becomes, Sender, Busy, Remaining
    <2>3. OutputTypes' /\ SendsInv' /\ SerialInv'
      BY <2>1, <2>2, <1>1, <1>2, OutputGrows
    <2>4. \A q \in Process : call'[q] = IF q = p THEN c ELSE call[q]
      BY <2>2, BecomesIs DEF KeysInv
    <2>5. ASSUME ~mixed'.screen
          PROVE  ShownAfter' /\ \A q \in Process \ {p} : ~Inside(call'[q])
      <3>1. /\ \A q \in Process \ {p} : ~Inside(call[q])
            /\ row # Height /\ OnPaper(output, screen, row, column)
        BY <1>1, <2>5, Meeting DEF Shown, Meets
      <3>2. row \in Rows /\ column \in Columns /\ screen \in [Cell -> Glyph]
        BY <3>1, <1>2, ShownIs
      <3>3. CASE x \in {"\n", "\r"}
        <4>1. x \in Erasing /\ x # "clear" /\ x # "back" /\ x # "bell"
          BY <3>3 DEF Erasing
        <4>2. OnPaper(output', screen, IF x = "\n" THEN row + 1 ELSE row, 0)
          BY <4>1, <3>1, <3>2, <3>3, <1>1, <1>2, ErasedOn
        <4>3. RowAfter(row', column') = row' /\ ColumnAfter(column') = 0
          BY <2>1, <3>3, ScreenAssumption DEF RowAfter, ColumnAfter
        <4> QED BY <4>2, <4>3, <3>1, <3>3, <2>1, <2>4 DEF ShownAfter
      <3>4. CASE x \notin {"\n", "\r"}
        BY <3>1, <3>4, <1>4, <2>1, <2>4, <2>5 DEF ShownAfter
      <3> QED BY <3>3, <3>4
    <2>6. ScreenInv'
      <3>1. ~mixed'.screen =>
               /\ \A q, r \in Process : Inside(call'[q]) /\ Inside(call'[r]) => q = r
               /\ Busy(call'[p])
               /\ \A q \in Process : /\ call'[q].at = "advance" => ShownAfter'
                                     /\ call'[q].at \notin {"edit", "scroll"}
        BY <1>3, <2>2, <2>4, <2>5 DEF Inside, Busy
      <3> QED BY <3>1, <1>6 DEF ScreenInv
    <2> QED BY <2>3, <2>6 DEF OutputInv
  <1> QED BY <1>5, <1>6

\* Who is at the screen is there alone until two meet.
LEMMA Alone ==
    ASSUME OutputInv, NEW p \in Process, Busy(call[p]), ~mixed.screen
    PROVE  /\ \A q \in Process \ {p} : ~Inside(call[q])
           /\ call[p].at = "advance" => ShownAfter
           /\ call[p].at = "scroll" => Shown
  <1>1. Inside(call[p])
    BY DEF Inside, Busy
  <1> QED BY <1>1 DEF OutputInv, ScreenInv

LEMMA AdvanceOutputs ==
    ASSUME KeysInv, OutputInv, NEW p \in Process, Advance(p)
    PROVE  OutputInv'
  <1> DEFINE d == [call[p] EXCEPT !.at = "scroll"]
  <1>1. /\ call[p].at = "advance" /\ panic # OutsideScreen
        /\ column' = ColumnAfter(column) /\ row' = RowAfter(row, column)
        /\ call' = [call EXCEPT ![p] = d]
        /\ UNCHANGED <<screen, serial, output, mixed, panic>>
    BY DEF Advance, At, Running, NoPanic, OutsideScreen, Goes, ColumnAfter, RowAfter
  <1>2. call[p] \in CallRecords /\ call[p].sends # << >>
    BY <1>1, CallFields DEF Calls
  <1>3. d.at = "scroll" /\ d.sends = call[p].sends
    BY <1>2 DEF CallRecords
  <1> HIDE DEF d
  <1>4. Becomes(p, d) /\ Busy(call[p]) /\ Busy(d) /\ Remaining(d) = Remaining(call[p])
    BY <1>1, <1>2, <1>3 DEF Becomes, Sender, Busy, Remaining
  <1>5. OutputTypes' /\ SendsInv' /\ SerialInv'
    BY <1>1, <1>4, SameSends DEF OutputInv, OutputTypes
  <1>6. \A q \in Process : call'[q] = IF q = p THEN d ELSE call[q]
    BY <1>4, BecomesIs DEF KeysInv
  <1>7. ASSUME ~mixed.screen
        PROVE  Shown' /\ \A q \in Process \ {p} : ~Inside(call'[q])
    <2>1. ShownAfter /\ \A q \in Process \ {p} : ~Inside(call[q])
      BY <1>1, <1>4, <1>7, Alone
    <2> QED BY <2>1, <1>1, <1>6 DEF Shown, ShownAfter
  <1>8. ScreenInv'
    <2>1. ~mixed'.screen =>
             /\ \A q, r \in Process : Inside(call'[q]) /\ Inside(call'[r]) => q = r
             /\ Busy(call'[p]) /\ Shown'
             /\ \A q \in Process : call'[q].at \notin {"edit", "advance"}
      BY <1>1, <1>3, <1>4, <1>6, <1>7 DEF Inside, Busy
    <2> QED BY <2>1, <1>1 DEF ScreenInv
  <1> QED BY <1>5, <1>8 DEF OutputInv

\* A window that scrolls shows the paper a row further on.
LEMMA ScrolledOn ==
    ASSUME NEW out \in Seq(Mark), NEW s, NEW c, OnPaper(out, s, Height, c)
    PROVE  OnPaper(out, [i \in Cell |-> IF i + Width \in Cell THEN s[i + Width] ELSE Blank],
                   Height - 1, c)
  <1> DEFINE v == [i \in Cell |-> IF i + Width \in Cell THEN s[i + Width] ELSE Blank]
  <1>1. ASSUME NEW rows \in Nat, rows >= Len(out) + Height
        PROVE  Shows(PaperOf(out, rows), v, Height - 1, c, rows, Len(out))
    <2>1. Len(out) \in Nat /\ "?" \in Mark
      BY DEF Mark
    <2>2. PaperOf(out, rows) \in Sheets(rows)
      BY <2>1, PaperGrows
    <2>3. Shows(PaperOf(out, rows), s, Height, c, rows, Len(out))
      BY <1>1 DEF OnPaper
    <2> QED BY <2>1, <2>2, <2>3, <1>1, ScrollShows
  <1> QED BY <1>1 DEF OnPaper

LEMMA ScrollOutputs ==
    ASSUME KeysInv, OutputInv, NEW p \in Process, Scroll(p)
    PROVE  OutputInv'
  <1>1. /\ call[p].at = "scroll" /\ panic # OutsideScreen /\ Sent(p)
        /\ row' = IF row = Height THEN row - 1 ELSE row
        /\ screen' = IF row = Height THEN Scrolled ELSE screen
        /\ UNCHANGED <<column, serial, output, mixed, panic>>
    BY DEF Scroll, At, Running, NoPanic, OutsideScreen
  <1>2. PICK d : /\ Becomes(p, d) /\ ~Busy(d) /\ ~Inside(d)
                 /\ Remaining(d) = Tail(call[p].sends)
    BY <1>1, SentIs
  <1>3. Busy(call[p]) /\ Remaining(d) = Remaining(call[p])
    BY <1>1, <1>2 DEF Busy, Remaining
  <1>4. OutputTypes' /\ SendsInv' /\ SerialInv'
    BY <1>1, <1>2, <1>3, SameSends DEF OutputInv, OutputTypes
  <1>5. \A q \in Process : call'[q] = IF q = p THEN d ELSE call[q]
    BY <1>2, BecomesIs DEF KeysInv
  <1>6. ASSUME ~mixed.screen
        PROVE  /\ row' # Height /\ Shown'
               /\ \A q \in Process : ~Inside(call'[q])
    <2>1. Shown /\ \A q \in Process \ {p} : ~Inside(call[q])
      BY <1>1, <1>3, <1>6, Alone
    <2>2. OnPaper(output, screen, row, column) /\ output \in Seq(Mark) /\ Height \in Nat
      BY <2>1, ScreenAssumption DEF Shown, OutputInv, OutputTypes
    <2>3. CASE row = Height
      <3>1. row' = Height - 1 /\ screen' = Scrolled
        BY <2>3, <1>1
      <3>2. OnPaper(output, Scrolled, Height - 1, column)
        BY <2>2, <2>3, ScrolledOn DEF Scrolled
      <3>3. Height - 1 # Height
        BY <2>2
      <3> QED BY <3>1, <3>2, <3>3, <2>1, <1>1, <1>2, <1>5 DEF Shown
    <2>4. CASE row # Height
      BY <2>1, <2>4, <1>1, <1>2, <1>5 DEF Shown
    <2> QED BY <2>3, <2>4
  <1>7. ScreenInv'
    <2>1. ~mixed'.screen =>
             \A q \in Process : call'[q].at \notin {"edit", "advance", "scroll"}
      BY <1>1, <1>6 DEF Inside
    <2> QED BY <2>1, <1>1, <1>6 DEF ScreenInv, Inside
  <1> QED BY <1>4, <1>7 DEF OutputInv

LEMMA OverwriteOutputs ==
    ASSUME KeysInv, OutputInv, NEW p \in Process, OverwriteMessage(p)
    PROVE  OutputInv'
  <1>1. /\ OutputTypes /\ SendsInv /\ ScreenInv /\ SerialInv
        /\ mixed' = [mixed EXCEPT !.outputs = TRUE]
        /\ UNCHANGED <<screen, row, column, serial, output, panic>>
        /\ panic # OutsideScreen
        /\ call[p].at = "text"
    BY DEF OutputInv, OverwriteMessage, PieceNext, At, Running, NoPanic, OutsideScreen, vga
  <1>2. /\ mixed' \in [screen : BOOLEAN, outputs : BOOLEAN]
        /\ mixed'.outputs /\ mixed'.screen = mixed.screen
    BY <1>1 DEF OutputTypes
  <1>3. /\ call'[p].at \in {"text", "send"}
        /\ call'[p].sends # << >> <=> call'[p].at = "send"
        /\ \A q \in Process \ {p} :
              \/ call'[q] = call[q]
              \/ /\ Printing(call[q])
                 /\ call[q].at \in {"advance", "scroll"} => call'[q].at = call[q].at
                 /\ call'[q].at = IF call'[q].sends = << >> THEN "text" ELSE call[q].at
    BY OverwriteIs
  <1>4. ASSUME NEW q \in Process
        PROVE  /\ Sender(call'[q]) <=> call'[q].sends # << >>
               /\ call'[q].at = "edit" => call'[q] = call[q]
               /\ Inside(call'[q]) <=> Inside(call[q])
               /\ call'[q].at = "advance" <=> call[q].at = "advance"
               /\ call'[q].at = "scroll" <=> call[q].at = "scroll"
    <2>1. CASE q = p
      BY <2>1, <1>1, <1>3 DEF Sender, Inside
    <2>2. CASE q # p /\ call'[q] = call[q]
      BY <2>2, <1>1 DEF SendsInv
    <2>3. CASE /\ q # p /\ Printing(call[q])
               /\ call[q].at \in {"advance", "scroll"} => call'[q].at = call[q].at
               /\ call'[q].at = IF call'[q].sends = << >> THEN "text" ELSE call[q].at
      BY <2>3 DEF Printing, Sender, Inside
    <2> QED BY <2>1, <2>2, <2>3, <1>3
  <1>5. OutputTypes'
    BY <1>1, <1>2 DEF OutputTypes
  <1>6. SendsInv'
    BY <1>1, <1>2, <1>4 DEF SendsInv
  <1>7. SerialInv'
    BY <1>1, <1>2 DEF SerialInv
  <1>8. ScreenInv'
    <2>1. (Shown' <=> Shown) /\ (ShownAfter' <=> ShownAfter)
      BY <1>1 DEF Shown, ShownAfter
    <2>2. \A q \in Process : Busy(call'[q]) <=> Busy(call[q])
      BY <1>4 DEF Busy
    <2> QED BY <1>1, <1>2, <1>4, <2>1, <2>2 DEF ScreenInv
  <1> QED BY <1>5, <1>6, <1>7, <1>8 DEF OutputInv

LEMMA NextOutputs == KeysInv /\ OutputInv /\ [Next]_vars => OutputInv'
  <1> SUFFICES ASSUME KeysInv, OutputInv, [Next]_vars PROVE OutputInv'
    OBVIOUS
  <1>1. ASSUME UNCHANGED <<outputs, call, panic>>
        PROVE  OutputInv'
    BY <1>1, QuietOutputs DEF outputs, vga, Quiet
  <1>2. ASSUME NEW key \in Keys, Press(key) \/ Release(key)
        PROVE  OutputInv'
    BY <1>1, <1>2 DEF Press, Release
  <1>3. CASE Released
    BY <1>1, <1>3 DEF Released
  <1>4. ASSUME NEW p \in Process, NEW noblock \in BOOLEAN, NEW n \in ReadSizes,
               Read(p, n, noblock)
        PROVE  OutputInv'
    BY <1>4, CallsAreQuiet, QuietOutputs
  <1>5. ASSUME NEW p \in Process, NEW noblock \in BOOLEAN, NEW text \in Texts,
               Write(p, text, noblock)
        PROVE  OutputInv'
    BY <1>5, WritesAreQuiet, QuietOutputs
  <1>6. ASSUME NEW p \in Process, NEW timeout \in Timeouts, Poll(p, timeout)
        PROVE  OutputInv'
    BY <1>6, CallsAreQuiet, QuietOutputs
  <1>7. ASSUME NEW p \in Process, NEW device, NEW operation, Device(p, device, operation)
        PROVE  OutputInv'
    BY <1>7, CallsAreQuiet, QuietOutputs
  <1>8. ASSUME NEW p \in Process, Step(p)
        PROVE  OutputInv'
    <2>1. CASE ReadWait(p) \/ ReadLoad(p) \/ ReadStore(p) \/ PollRound(p)
      BY <2>1, CallsAreQuiet, QuietOutputs
    <2>2. CASE WritePiece(p)
      BY <2>2, WritesAreQuiet, QuietOutputs
    <2>3. CASE Edit(p) \/ EditEnd(p) \/ Put(p) \/ Advance(p) \/ Scroll(p)
      BY <2>3, EditOutputs, EditEndOutputs, PutOutputs, AdvanceOutputs, ScrollOutputs
    <2>4. CASE OverwriteMessage(p) \/ SendSerial(p)
      BY <2>4, OverwriteOutputs, SerialOutputs
    <2> QED BY <1>8, <2>1, <2>2, <2>3, <2>4 DEF Step
  <1>9. CASE Halted \/ UNCHANGED vars
    BY <1>1, <1>9 DEF Halted, vars
  <1> QED BY <1>2, <1>3, <1>4, <1>5, <1>6, <1>7, <1>8, <1>9 DEF Next

LEMMA OutputsDoAgree == KeysInv /\ OutputInv => OutputsAgree
  <1> SUFFICES ASSUME KeysInv, OutputInv PROVE OutputsAgree
    OBVIOUS
  <1>1. OutputTypes /\ SendsInv /\ ScreenInv /\ SerialInv
    BY DEF OutputInv
  <1>2. ASSUME ~mixed.screen, \A p \in Process : call[p].at \notin {"advance", "scroll"}
        PROVE  LET paper == Paper
                   top == IF paper.row < Height THEN 0 ELSE paper.row - Height + 1 IN
               /\ row = paper.row - top
               /\ column = paper.column
               /\ screen = [i \in Cell |-> paper.cells[<<top + i \div Width, i % Width>>]]
    <2> DEFINE n == Len(output)
               rows == n + Height
               t == PaperOf(output, rows)
    <2>1. n \in Nat /\ rows \in Nat /\ rows >= n + Height
          /\ output \in Seq(Mark) /\ "?" \in Mark
      BY <1>1, ScreenAssumption DEF OutputTypes, Mark
    <2>2. row # Height /\ Shown
      BY <1>1, <1>2 DEF ScreenInv, Busy
    <2>3. Shows(t, screen, row, column, rows, n)
      BY <2>1, <2>2 DEF Shown, OnPaper
    <2>4. t \in Sheets(rows)
      BY <2>1, PaperGrows
    <2>5. Paper = t
      BY PaperIs
    <2> HIDE DEF n, rows, t
    <2> QED BY <2>1, <2>2, <2>3, <2>4, <2>5, WindowAgrees
  <1>3. panic = OutsideScreen => mixed.screen
    BY <1>1 DEF ScreenInv
  <1>4. ASSUME ~mixed.outputs, \A p \in Process : call[p].sends = << >>
        PROVE  serial = SentOf(output)
    <2>1. panic # OutsideScreen
      BY <1>1, <1>4 DEF SerialInv
    <2>2. \A p \in Process : ~Begun(call[p])
      <3> SUFFICES ASSUME NEW p \in Process, Begun(call[p]) PROVE FALSE
        OBVIOUS
      <3>1. Remaining(call[p]) = << >>
        BY <1>1, <1>4 DEF SendsInv, Sender, Busy, Remaining
      <3>2. Whole(<< >>)
        BY DEF Whole
      <3> QED BY <3>1, <3>2, OneDue DEF Begun
    <2> QED BY <2>1, <2>2, <1>1, <1>4 DEF SerialInv
  <1>5. SentOf(output) =
           LET sent[i \in 0 .. Len(output)] ==
                  IF i = 0 THEN << >>
                  ELSE IF output[i] = "clear" THEN sent[i - 1]
                  ELSE sent[i - 1] \o Serially(output[i])
           IN sent[Len(output)]
    BY DEF SentOf
  <1>6. ~mixed.outputs /\ (\A p \in Process : call[p].sends = << >>) =>
           LET sent[i \in 0 .. Len(output)] ==
                  IF i = 0 THEN << >>
                  ELSE IF output[i] = "clear" THEN sent[i - 1]
                  ELSE sent[i - 1] \o Serially(output[i])
           IN serial = sent[Len(output)]
    BY <1>4, <1>5
  <1> QED BY <1>2, <1>3, <1>6 DEF OutputsAgree

-----------------------------------------------------------------------------
(* Theorems *)

LEMMA KeysInvHolds == Spec => []KeysInv
  <1>1. Init => KeysInv
    BY InitKeys
  <1>2. KeysInv /\ [Next]_vars => KeysInv'
    BY NextKeys
  <1> QED BY <1>1, <1>2, PTL DEF Spec

\* Until the buffer is full, two readers meet or both shifts are down, it holds
\* the keys that were typed and not yet read, in order and with the right
\* capitals, and a reader has loaded the first of them.
THEOREM KeysStayInOrder == Spec => []KeysInOrder
  <1>1. KeysInv => KeysInOrder
    BY DEF KeysInv
  <1> QED BY <1>1, KeysInvHolds, PTL

\* Until two processes are inside a symbol, the screen shows between symbols the
\* last rows of the paper on which all that was sent is written, with the cursor
\* where the paper has it, and nothing is written outside it; and until two are
\* between the outputs, or in printk with its one buffer, the serial port was sent
\* the same.  For every size of the
\* screen and every sequence of texts written.
THEOREM OutputsStayAgreed == Spec => []OutputsAgree
  <1>1. Init => OutputInv
    BY InitOutputs
  <1>2. KeysInv /\ OutputInv /\ [Next]_vars => OutputInv'
    BY NextOutputs
  <1>3. KeysInv /\ OutputInv => OutputsAgree
    BY OutputsDoAgree
  <1> QED BY <1>1, <1>2, <1>3, KeysInvHolds, PTL DEF Spec
=============================================================================
