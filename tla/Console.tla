------------------------------- MODULE Console -------------------------------
(***************************************************************************)
(* The console of the Knee kernel: the keyboard's interrupt handler and     *)
(* buffer (keyboard.cpp, circular_buffer.h), the files that programs read   *)
(* and write it through (pseudo_fs.cpp), poll (posix.cpp), and the outputs  *)
(* behind them (tty_system.cpp, tty_vga.cpp, tty_serial.cpp).               *)
(*                                                                         *)
(* The handler is one step, since interrupts are off in it.  Calls are      *)
(* preemptible: the interrupt and other processes come between their steps. *)
(* hlt is a basic asm statement, which GCC takes to change memory, so that  *)
(* the reader's loop loads the indices again.                               *)
(***************************************************************************)
EXTENDS Integers, Sequences, FiniteSets

CONSTANTS
    Process,
    Size,       \* keyboard_circular_buffer
    Width,      \* vga_width
    Height,     \* vga_height
    Keys,       \* the keys there are
    Texts,      \* what programs write
    ReadSizes,  \* how much they read
    Timeouts,   \* and how long they poll
    Budgets     \* bounds on the keys, the symbols written and the other calls of a run

ASSUME SizeAssumption == Size \in Nat /\ Size > 3
ASSUME ScreenAssumption == Width \in Nat \ {0} /\ Height \in Nat \ {0}
ASSUME SizesAssumption == ReadSizes \subseteq Nat \ {0} /\ Timeouts \subseteq Int
ASSUME KeysAssumption ==
    Keys \subseteq {"arrow", "backspace", "l_shift", "r_shift", "enter", "escape",
                    "windows", "letter"}
ASSUME TextsAssumption ==
    Texts \subseteq Seq({"a", "\n", "\r", "bell", "back", "clear", "nul", "unknown escape",
                        "broken sequence", "style", "colour", "cut"})
ASSUME BudgetsAssumption == Budgets \subseteq [scans : Nat, symbols : Nat, calls : Nat]

VARIABLES
    buffer, in_index, out_index,  \* keyboard_buffer
    release, shifted,             \* what the handler remembers
    keyboard,     \* the device: the keys held down, and the rest of a release
    typed,        \* for the properties: the keys typed and not yet read
    disordered,   \* the buffer was full, two readers met or both shifts were down
    screen, row, column,          \* tty_vga
    serial,       \* what was sent to the port
    output,       \* for the properties: what was sent to the screen
    mixed,        \* a process wrote while another was inside a symbol, or between outputs
    call,         \* the call each process is in
    left,         \* of the budget
    panic         \* what stopped the kernel

ring == <<buffer, in_index, out_index>>
keys == <<release, shifted, keyboard, typed, disordered>>
vga == <<screen, row, column>>
outputs == <<vga, serial, output, mixed>>
vars == <<ring, keys, outputs, call, left, panic>>

NoPanic == "none"
NoBlock == "noblock on stdin"
UnknownSgr == "Unknown sgr"
DevicePanic == "write to mem"
OutsideScreen == "memory outside the screen"

NoKey == "none"
Blank == " "
Cell == 0 .. Width * Height - 1

\* The call, where it is, and its locals: the characters still to be read, the
\* key loaded, the rounds left of poll; the text still to be written and the
\* outputs that its current piece still goes to.
Idle == [at |-> "user", left |-> 0, key |-> NoKey, timeout |-> 0, text |-> << >>, sends |-> << >>]

Init ==
    /\ buffer = [i \in 0 .. Size - 1 |-> "nul"]
    /\ in_index = 0
    /\ out_index = 0
    /\ release = FALSE
    /\ shifted = FALSE
    /\ keyboard = [held |-> {}, rest |-> NoKey]
    /\ typed = << >>
    /\ disordered = FALSE
    /\ screen = [i \in Cell |-> Blank]
    /\ row = 0
    /\ column = 0
    /\ serial = << >>
    /\ output = << >>
    /\ mixed = [screen |-> FALSE, outputs |-> FALSE]
    /\ call = [p \in Process |-> Idle]
    /\ left \in Budgets
    /\ panic = NoPanic

Running == panic = NoPanic
At(p, place) == Running /\ call[p].at = place
Goes(p, place) == call' = [call EXCEPT ![p].at = place]
Return(p) == call' = [call EXCEPT ![p] = Idle]

Stop(message) ==
    /\ panic' = message
    /\ UNCHANGED <<ring, keys, outputs, call, left>>

-----------------------------------------------------------------------------
(* The keyboard *)

Shifts == {"l_shift", "r_shift"}

\* The characters of a key.  Codes behind the end of the table, as that of the
\* Windows key, are looked up in whatever is there.
Characters(key, shift) ==
    CASE key = "arrow" -> {<<"esc", "[", "A">>}
      [] key = "backspace" -> {<<"back">>}
      [] key \in Shifts -> {<< >>}
      [] key = "enter" -> {<<"\n">>}
      [] key = "escape" -> {<<"nul">>}
      [] key = "windows" -> {<<"nul">>, <<"a">>}
      [] key = "letter" -> {<<IF shift THEN "A" ELSE "a">>}

Pending == (in_index - out_index + Size) % Size

Advanced(index, n) == (index + n) % Size

\* Both forms of circular_buffer::write.
Written(characters) ==
    [i \in 0 .. Size - 1 |->
        IF \E k \in DOMAIN characters : (in_index + k - 1) % Size = i
        THEN characters[CHOOSE k \in DOMAIN characters : (in_index + k - 1) % Size = i]
        ELSE buffer[i]]

\* Mutant: no code announces a release.
ReleaseNext(code) == FALSE

\* A code that announces a release, and the one after it.
ReleaseAfter(code) == code = "release"

ShiftedAfter(code) ==
    IF code \in Shifts THEN ~release ELSE shifted

\* keyboard_interrupt.
Interrupt(code, characters) ==
    LET writes == code # "release" /\ ~release IN
    /\ release' = ReleaseAfter(code)
    /\ shifted' = ShiftedAfter(code)
    /\ buffer' = IF writes THEN Written(characters) ELSE buffer
    /\ in_index' = IF writes THEN Advanced(in_index, Len(characters)) ELSE in_index

\* A key goes down, or repeats.
Press(key) ==
    LET held == keyboard.held \cup ({key} \cap Shifts) IN
    /\ Running
    /\ left.scans > 0 /\ keyboard.rest = NoKey
    /\ \E characters \in Characters(key, shifted) :
          /\ Interrupt(key, characters)
          /\ \E meant \in Characters(key, keyboard.held # {}) :
                /\ Len(meant) = Len(characters)
                /\ key = "windows" => meant = characters
                /\ typed' = typed \o meant
          /\ disordered' = (disordered \/ Pending + Len(characters) >= Size \/ held = Shifts)
    /\ keyboard' = [keyboard EXCEPT !.held = held]
    /\ left' = [left EXCEPT !.scans = @ - 1]
    /\ UNCHANGED <<out_index, outputs, call, panic>>

\* A key goes up, which takes two codes and so two interrupts.
Release(key) ==
    /\ Running
    /\ left.scans > 0 /\ keyboard.rest = NoKey
    /\ key \in Shifts => key \in keyboard.held
    /\ Interrupt("release", << >>)
    /\ keyboard' = [keyboard EXCEPT !.rest = key]
    /\ left' = [left EXCEPT !.scans = @ - 1]
    /\ UNCHANGED <<out_index, typed, disordered, outputs, call, panic>>

Released ==
    LET key == keyboard.rest IN
    /\ Running
    /\ key # NoKey
    /\ \E characters \in Characters(key, shifted) :
          /\ Interrupt(key, characters)
          /\ UNCHANGED <<typed, disordered>>
    /\ keyboard' = [held |-> keyboard.held \ {key}, rest |-> NoKey]
    /\ UNCHANGED <<out_index, outputs, call, left, panic>>

-----------------------------------------------------------------------------
(* stdin *)

Read(p, n, noblock) ==
    /\ At(p, "user")
    /\ left.calls > 0
    /\ \/ /\ noblock
          /\ Stop(NoBlock)
       \/ /\ ~noblock
          /\ call' = [call EXCEPT ![p].at = "wait", ![p].left = n]
          /\ left' = [left EXCEPT !.calls = @ - 1]
          /\ UNCHANGED <<ring, keys, outputs, panic>>

\* Mutant: the indices are compared as if they never started again.
ArrivedBehind == in_index > out_index

Arrived == in_index # out_index

\* circular_buffer::read halts until there is a key,
ReadWait(p) ==
    /\ At(p, "wait")
    /\ Arrived
    /\ Goes(p, "load")
    /\ disordered' = (disordered \/ \E q \in Process : call[q].at \in {"load", "store"})
    /\ UNCHANGED <<ring, release, shifted, keyboard, typed, outputs, left, panic>>

\* loads it,
ReadLoad(p) ==
    /\ At(p, "load")
    /\ call' = [call EXCEPT ![p].at = "store", ![p].key = buffer[out_index]]
    /\ UNCHANGED <<ring, keys, outputs, left, panic>>

\* and moves the index.  stdin_file::read goes on to the end of the line.
ReadStore(p) ==
    LET c == call[p] IN
    /\ At(p, "store")
    /\ out_index' = Advanced(out_index, 1)
    /\ typed' = IF typed = << >> THEN typed ELSE Tail(typed)
    /\ \/ /\ c.key = "\n" \/ c.left = 1
          /\ Return(p)
       \/ /\ c.key # "\n" /\ c.left > 1
          /\ call' = [call EXCEPT ![p] = [Idle EXCEPT !.at = "wait", !.left = c.left - 1]]
    /\ UNCHANGED <<buffer, in_index, release, shifted, keyboard, disordered, outputs, left, panic>>

\* Poll for a key.  Nothing else that the console has can be read.
Poll(p, timeout) ==
    /\ At(p, "user")
    /\ left.calls > 0
    /\ call' = [call EXCEPT ![p].at = "poll", ![p].timeout = timeout]
    /\ left' = [left EXCEPT !.calls = @ - 1]
    /\ UNCHANGED <<ring, keys, outputs, panic>>

\* Counted down before it is compared: 0 waits for ever, as -1 does.
Expires(timeout) == timeout # -1 /\ timeout - 1 = 0

PollRound(p) ==
    LET timeout == call[p].timeout IN
    /\ At(p, "poll")
    /\ IF Arrived \/ Expires(timeout) THEN Return(p)
       ELSE call' = [call EXCEPT ![p].timeout = IF @ = -1 THEN -1 ELSE @ - 1]
    /\ UNCHANGED <<ring, keys, outputs, left, panic>>

\* The devices in /dev, of which only /dev/zero can be read.
Device(p, device, operation) ==
    /\ At(p, "user")
    /\ left.calls > 0
    /\ <<device, operation>> # <<"zero", "read">>
    /\ Stop(DevicePanic)

-----------------------------------------------------------------------------
(* stdout *)

To(device, symbol) == [to |-> device, symbol |-> symbol]

\* The symbols that reach the outputs as they are, one output after the other.
Plain == {"a", "\n", "\r", "bell"}

\* What printk shows in place of what it does not know goes to one output as a
\* whole and then to the other.  So do the messages of other calls that processes
\* make: such a call is here a text of one piece.
Unknown == {"nul", "unknown escape", "broken sequence"}
Message == <<"?", "?">>

\* The outputs that a piece of the text goes to.  The serial port clears nothing,
\* and neither moves for a colour.
Sends(piece) ==
    CASE piece \in Plain \cup {"back"} -> <<To("vga", piece), To("serial", piece)>>
      [] piece = "clear" -> <<To("vga", piece)>>
      [] piece \in Unknown ->
            [i \in 1 .. Len(Message) |-> To("vga", Message[i])] \o
            [i \in 1 .. Len(Message) |-> To("serial", Message[i])]
      [] OTHER -> << >>

\* A sequence without its number, or cut off, ends the stream of the text.
EndsText(piece) == piece \in {"broken sequence", "cut"}

\* The panic of sgr comes after the message of printk, left out here.
Write(p, text, noblock) ==
    /\ At(p, "user")
    /\ left.symbols >= Len(text)
    /\ \/ /\ noblock
          /\ Stop(NoBlock)
       \/ /\ ~noblock
          /\ call' = [call EXCEPT ![p].at = "text", ![p].text = text]
          /\ left' = [left EXCEPT !.symbols = @ - Len(text)]
          /\ UNCHANGED <<ring, keys, outputs, panic>>

\* The call with its next piece on its way to the outputs.
Begins(c) ==
    [c EXCEPT !.text = IF EndsText(Head(c.text)) THEN << >> ELSE Tail(c.text),
              !.sends = Sends(Head(c.text)),
              !.at = IF Sends(Head(c.text)) = << >> THEN "text" ELSE "send"]

\* In the middle of a message of printk.
Printing(c) == c.at \in {"send", "advance", "scroll"} /\ Head(c.sends).symbol = "?"

PieceNext(p) == At(p, "text") /\ call[p].text # << >> /\ Head(call[p].text) # "style"

\* p calls printk while another process is in it.
Overwrites(p) == Printing(Begins(call[p])) /\ \E q \in Process \ {p} : Printing(call[q])

\* The loop of stdout_file::write.
WritePiece(p) ==
    LET text == call[p].text IN
    \/ /\ At(p, "text")
       /\ text = << >>
       /\ Return(p)
       /\ UNCHANGED <<ring, keys, outputs, left, panic>>
    \/ /\ At(p, "text")
       /\ text # << >> /\ Head(text) = "style"
       /\ Stop(UnknownSgr)
    \/ /\ PieceNext(p)
       /\ ~Overwrites(p)
       /\ call' = [call EXCEPT ![p] = Begins(call[p])]
       /\ UNCHANGED <<ring, keys, outputs, left, panic>>

\* Symbols of no message in particular, to one output and then to the other.
Noise ==
    {[i \in 1 .. n[1] |-> To("vga", "?")] \o [i \in 1 .. n[2] |-> To("serial", "?")] :
        n \in (0 .. Len(Message)) \X (0 .. Len(Message))}

\* A call whose message has become noise, behind the symbol that it is inside.
Garbled(c, noise) ==
    LET sends == IF c.at \in {"advance", "scroll"} THEN <<Head(c.sends)>> \o noise ELSE noise IN
    [c EXCEPT !.sends = sends, !.at = IF sends = << >> THEN "text" ELSE c.at]

\* The buffer of printk is static.  A second message is written over the first,
\* the processes that are sending it go on with what they find there, and one
\* that is still writing its own may write over the second in turn.
OverwriteMessage(p) ==
    LET begun == [call EXCEPT ![p] = Begins(call[p])]
        printing == {q \in Process : Printing(begun[q])} IN
    /\ PieceNext(p)
    /\ Overwrites(p)
    /\ \E noise \in [printing -> Noise] :
          /\ \A q \in printing :
                Head(begun[q].sends).to = "serial" =>
                    \A i \in DOMAIN noise[q] : noise[q][i].to = "serial"
          /\ call' = [q \in Process |->
                IF q \in printing THEN Garbled(begun[q], noise[q]) ELSE begun[q]]
    /\ mixed' = [mixed EXCEPT !.outputs = TRUE]
    /\ UNCHANGED <<ring, keys, vga, serial, output, left, panic>>

\* The call after its process has sent the first symbol.
Sent(p) ==
    LET rest == Tail(call[p].sends) IN
    call' = [call EXCEPT ![p].sends = rest, ![p].at = IF rest = << >> THEN "text" ELSE "send"]

Sending(p, device) == At(p, "send") /\ Head(call[p].sends).to = device

\* tty_serial::write_char, once the transmitter is empty.
Serially(symbol) ==
    CASE symbol = "\n" -> <<"\r", "\n">>
      [] symbol = "bell" -> << >>
      [] OTHER -> <<symbol>>

SendSerial(p) ==
    /\ Sending(p, "serial")
    /\ serial' = serial \o Serially(Head(call[p].sends).symbol)
    /\ Sent(p)
    /\ UNCHANGED <<ring, keys, vga, output, mixed, left, panic>>

\* Another process is inside a symbol.
Crowded(p) == \E q \in Process \ {p} : call[q].at \in {"edit", "advance", "scroll"}

Meets(p) ==
    /\ output' = Append(output, Head(call[p].sends).symbol)
    /\ mixed' = [screen |-> mixed.screen \/ Crowded(p),
                 outputs |-> mixed.outputs \/
                    \E q \in Process \ {p} : call[q].sends # << >>]

\* tty_vga::backspace and clear_till_end look at the column,
Edit(p) ==
    LET symbol == Head(call[p].sends).symbol IN
    /\ Sending(p, "vga")
    /\ \/ /\ symbol = "clear" \/ (symbol = "back" /\ column # 0)
          /\ Goes(p, "edit")
          /\ mixed' = [mixed EXCEPT !.screen = @ \/ Crowded(p)]
          /\ output' = output
       \/ /\ symbol = "bell" \/ (symbol = "back" /\ column = 0)
          /\ Meets(p)
          /\ Sent(p)
    /\ UNCHANGED <<ring, keys, vga, serial, left, panic>>

\* and move it back, whatever it is by then, or blank what is behind it.
EditEnd(p) ==
    LET symbol == Head(call[p].sends).symbol IN
    /\ At(p, "edit")
    /\ Meets(p)
    /\ column' = IF symbol = "back" THEN column - 1 ELSE column
    /\ screen' = IF symbol = "clear" /\ column >= 0
                 THEN [i \in Cell |->
                        IF i \in row * Width + column .. row * Width + Width - 1
                        THEN Blank ELSE screen[i]]
                 ELSE screen
    /\ Sent(p)
    /\ UNCHANGED <<ring, keys, row, serial, left, panic>>

\* tty_vga::write_char: the symbol,
Put(p) ==
    LET symbol == Head(call[p].sends).symbol
        place == row * Width + column IN
    /\ Sending(p, "vga")
    /\ symbol \notin {"back", "clear", "bell"}
    /\ Meets(p)
    /\ \/ /\ symbol \notin {"\n", "\r"} /\ place \notin Cell
          /\ panic' = OutsideScreen
          /\ UNCHANGED <<ring, keys, vga, serial, call, left>>
       \/ /\ symbol \notin {"\n", "\r"} => place \in Cell
          /\ screen' = IF symbol \in {"\n", "\r"} THEN screen
                       ELSE [screen EXCEPT ![place] = symbol]
          /\ column' = IF symbol \in {"\n", "\r"} THEN -1 ELSE column
          /\ row' = IF symbol = "\n" THEN row + 1 ELSE row
          /\ Goes(p, "advance")
          /\ UNCHANGED <<ring, keys, serial, left, panic>>

\* the column,
Advance(p) ==
    LET full == column + 1 = Width IN
    /\ At(p, "advance")
    /\ column' = IF full THEN 0 ELSE column + 1
    /\ row' = IF full THEN row + 1 ELSE row
    /\ Goes(p, "scroll")
    /\ UNCHANGED <<ring, keys, screen, serial, output, mixed, left, panic>>

\* Mutant: the last row keeps its text.
ScrolledOver ==
    [i \in Cell |-> IF i + Width \in Cell THEN screen[i + Width] ELSE screen[i]]

\* scroll_line_up.
Scrolled ==
    [i \in Cell |-> IF i + Width \in Cell THEN screen[i + Width] ELSE Blank]

\* and the row.
Scroll(p) ==
    LET below == row = Height IN
    /\ At(p, "scroll")
    /\ row' = IF below THEN row - 1 ELSE row
    /\ screen' = IF below THEN Scrolled ELSE screen
    /\ Sent(p)
    /\ UNCHANGED <<ring, keys, column, serial, output, mixed, left, panic>>

-----------------------------------------------------------------------------

\* panic() clears interrupts and halts.
Halted == ~Running /\ UNCHANGED vars

\* A step inside a call.
Step(p) ==
    \/ ReadWait(p) \/ ReadLoad(p) \/ ReadStore(p) \/ PollRound(p)
    \/ WritePiece(p) \/ OverwriteMessage(p) \/ SendSerial(p)
    \/ Edit(p) \/ EditEnd(p) \/ Put(p) \/ Advance(p) \/ Scroll(p)

Next ==
    \/ Halted
    \/ \E key \in Keys : Press(key) \/ Release(key)
    \/ Released
    \/ \E p \in Process :
          \/ \E noblock \in BOOLEAN :
                \/ \E n \in ReadSizes : Read(p, n, noblock)
                \/ \E text \in Texts : Write(p, text, noblock)
          \/ \E timeout \in Timeouts : Poll(p, timeout)
          \/ \E device \in {"mem", "zero", "tty", "ptmx"},
                operation \in {"read", "write", "available_read"} : Device(p, device, operation)
          \/ Step(p)

\* The second code of a release follows the first, and the scheduler gives every
\* process its turns (EveryoneRuns of Processes).
Fairness ==
    /\ WF_vars(Released)
    /\ \A p \in Process : WF_vars(Step(p))

Spec == Init /\ [][Next]_vars /\ Fairness

-----------------------------------------------------------------------------
(* Safety *)

Waiting == [i \in 1 .. Pending |-> buffer[(out_index + i - 1) % Size]]

\* The buffer holds the keys that were typed and not yet read, in order and with
\* capitals while a shift was down, and a reader has loaded the first of them:
\* through any sequence of keys pressed and released while another process
\* polls or waits.  Only a full buffer, which looks empty, a second
\* reader between the steps of the first, or both shifts held at once, of which
\* the first to go up ends the capitals, can break it.
KeysInOrder ==
    ~disordered =>
        /\ Waiting = typed
        /\ \A p \in Process : call[p].at = "store" => call[p].key = Head(typed)

\* The paper that the screen is a window of: rows without end, on which each
\* symbol sent to it is put at the cursor.
Paper ==
    LET blank == [place \in (0 .. Len(output) + Height) \X (0 .. Width - 1) |-> Blank]
        Newline(s) == [s EXCEPT !.row = @ + 1, !.column = 0]
        Symbol(s, symbol) ==
            CASE symbol = "\n" -> Newline(s)
              [] symbol = "\r" -> [s EXCEPT !.column = 0]
              [] symbol = "back" -> [s EXCEPT !.column = IF @ = 0 THEN 0 ELSE @ - 1]
              [] symbol = "bell" -> s
              [] symbol = "clear" ->
                    [s EXCEPT !.cells = [place \in DOMAIN @ |->
                        IF place[1] = s.row /\ place[2] >= s.column THEN Blank ELSE @[place]]]
              [] OTHER ->
                    LET t == [s EXCEPT !.cells[<<s.row, s.column>>] = symbol] IN
                    IF s.column = Width - 1 THEN Newline(t) ELSE [t EXCEPT !.column = @ + 1]
        after[i \in 0 .. Len(output)] ==
            IF i = 0 THEN [row |-> 0, column |-> 0, cells |-> blank]
            ELSE Symbol(after[i - 1], output[i])
    IN after[Len(output)]

\* Between symbols the screen shows the last rows of the paper, with the cursor
\* where the paper has it, whatever was written, wrapped, scrolled or erased;
\* nothing is written outside it; and the serial port was sent the same.  A
\* process that writes while another is inside a symbol, or between the outputs,
\* can break it, and so can two messages of printk at once.
OutputsAgree ==
    /\ ~mixed.screen /\ (\A p \in Process : call[p].at \notin {"advance", "scroll"}) =>
          LET paper == Paper
              top == IF paper.row < Height THEN 0 ELSE paper.row - Height + 1 IN
          /\ row = paper.row - top
          /\ column = paper.column
          /\ screen = [i \in Cell |-> paper.cells[<<top + i \div Width, i % Width>>]]
    /\ panic = OutsideScreen => mixed.screen
    /\ ~mixed.outputs /\ (\A p \in Process : call[p].sends = << >>) =>
          LET sent[i \in 0 .. Len(output)] ==
                IF i = 0 THEN << >>
                ELSE IF output[i] = "clear" THEN sent[i - 1]
                ELSE sent[i - 1] \o Serially(output[i])
          IN serial = sent[Len(output)]

-----------------------------------------------------------------------------
(* Liveness *)

\* A reader does not wait while there are keys, wherever in the buffer they are;
\* and a poll with a positive timeout ends.
CallsReturn ==
    \A p \in Process :
        /\ call[p].at = "wait" /\ Pending > 0
               ~> (call[p].at # "wait" \/ Pending = 0 \/ ~Running)
        /\ call[p].at = "poll" /\ call[p].timeout > 0 ~> (call[p].at # "poll" \/ ~Running)
=============================================================================
