------------------------------ MODULE Directories ------------------------------
(***************************************************************************)
(* The tree of directories of the Knee kernel and the calls that name its   *)
(* entries (filesystem.cpp, ram_fs.cpp, posix.cpp), the archive that fills  *)
(* it at boot (cpio.cpp), and the directory streams of programs             *)
(* (libsys/syscalls.cpp).                                                   *)
(*                                                                         *)
(* The calls are preemptible.  To look up a path is one step here, and to   *)
(* make or remove the entry is another.  The model ends where two processes *)
(* make an entry of one name at the same time, or one changes a list while  *)
(* another is inside it ("raced"), and where a socket that has a name is    *)
(* bound a second time ("rebound").                                         *)
(***************************************************************************)
EXTENDS Integers, Sequences, FiniteSets

LOCAL INSTANCE SequencesExt

CONSTANTS
    Process,
    Name,        \* names of entries, which are not "." and ".."
    Dotted,      \* the names that start with a dot
    Long,        \* the names that do not fit the buffer of readdir
    Archives,    \* the archives that boot may extract
    Paths,       \* the paths programs open, make and unlink
    Places,      \* those they change to and list
    Targets,     \* those they make links to
    MaxEntries,  \* bound on the entries ever made, the root included
    MaxStreams,  \* and on the directory streams open at a time
    MaxFollows   \* how many links in a row overflow the stack

\* A path is where it starts ("/", "./", "../" or nothing) and its names.
From == {"root", "here", "up", "none"}
Path == [from : From, parts : Seq(Name)]
Slash(parts) == [from |-> "root", parts |-> parts]
Plain(parts) == [from |-> "none", parts |-> parts]

Record == [kind : {"file", "directory", "link"}, parts : Seq(Name), link : Path]

\* The names that init_filesystem gives.
KernelNames == {"stdin", "stdout", "dev", "mem", "zero", "tty", "ptmx"}

ASSUME NamesAssumption == Dotted \cup Long \cup KernelNames \subseteq Name
ASSUME PathsAssumption ==
    /\ Paths \cup Places \cup Targets \subseteq Path
    /\ \A path \in Paths \cup Targets : path.parts # << >>
ASSUME ArchivesAssumption ==
    \A archive \in Archives :
        /\ archive \in Seq(Record)
        /\ \A i \in DOMAIN archive :
              /\ archive[i].parts # << >>
              /\ archive[i].kind = "link" => archive[i].link.parts # << >>
        /\ \A i, j \in DOMAIN archive : archive[i].parts = archive[j].parts => i = j
ASSUME EntriesAssumption == MaxEntries \in Nat \ {0} /\ MaxStreams \in Nat /\ MaxFollows \in Nat

VARIABLES
    entries,    \* what was ever made: its kind, name, parent and link
    lists,      \* ram_directory::_entries of each entry
    cwd,        \* process::current_directory
    stream,     \* the DIR each process has: see Closed
    call,       \* the call each process is in: see Idle
    archive,    \* the archive, and how many of its records are extracted
    misplaced,  \* mkdir, link or bind has looked at one place and made at another
    raced,      \* two calls have met
    rebound,    \* a socket was bound a second time
    panic       \* what stopped the kernel

tree == <<entries, lists>>
vars == <<tree, cwd, stream, call, archive, misplaced, raced, rebound, panic>>

NoEntry == 0
Root == 1
Dev == 4
Empty == Plain(<< >>)

NoPanic == "none"
UnknownPattern == "Unknown path pattern"
CreationFailed == "File creation failed"
CannotOpen == "Can't open file for unknown reason"
AlreadyExists == "Already exists"
NoParent == "Parent isn't exists"
IsADirectory == "Pathname is a directory"
DeleteFailed == "Failed for delete file"
WriteRefused == "write to a device"
NullEntry == "null pointer"
NullStream == "null pointer in get_directory_entry"
StackOverflow == "stack overflow"

\* The locals of a call: the operation and where it is; the path it looks up and
\* how many links it has followed; the directory and the name it has found, what
\* it is about to make there, or the socket it is about to name, whether the name was
\* there then and whether the call has looked somewhere else.
Idle == [op |-> "none", at |-> "user", path |-> Empty, follows |-> 0, creat |-> FALSE,
         dir |-> NoEntry, name |-> "", kind |-> "none", link |-> Empty,
         sock |-> NoEntry, there |-> FALSE, elsewhere |-> FALSE]

\* A DIR: the path, the index and the count.  For the properties: the directory
\* that was opened and its entries then, the entries read, and whether the
\* program has changed its directory, or an entry was removed, since.
Closed == [open |-> FALSE, path |-> Empty, ind |-> 0, count |-> 0,
           dir |-> NoEntry, list |-> << >>, read |-> << >>, disturbed |-> FALSE]

Disturbed(d) == [d EXCEPT !.disturbed = TRUE, !.dir = NoEntry, !.list = << >>, !.read = << >>]

Node(kind, name, parent) == [kind |-> kind, name |-> name, parent |-> parent, link |-> Empty]

\* What init_filesystem makes: the root, what it has, and what /dev has.
Kernel ==
    <<Node("directory", "/", NoEntry),
      Node("device", "stdin", Root), Node("device", "stdout", Root), Node("directory", "dev", Root),
      Node("device", "mem", Dev), Node("device", "zero", Dev),
      Node("device", "tty", Dev), Node("device", "ptmx", Dev)>>

Init ==
    /\ entries = Kernel
    /\ lists = << <<2, 3, Dev>>, << >>, << >>, <<5, 6, 7, 8>>, << >>, << >>, << >>, << >> >>
    /\ cwd = [p \in Process |-> Root]
    /\ stream = [p \in Process |-> Closed]
    /\ call = [p \in Process |-> Idle]
    /\ \E records \in Archives : archive = [records |-> records, done |-> 0]
    /\ misplaced = FALSE
    /\ raced = FALSE
    /\ rebound = FALSE
    /\ panic = NoPanic

Running == panic = NoPanic /\ ~raced /\ ~rebound
Booting == archive.done <= Len(archive.records)
At(p, place) == Running /\ ~Booting /\ call[p].at = place
User(p) == At(p, "user")
Return(p) == call' = [call EXCEPT ![p] = Idle]

Stop(message) ==
    /\ panic' = message
    /\ UNCHANGED <<tree, cwd, stream, call, archive, misplaced, raced, rebound>>

-----------------------------------------------------------------------------
(* Paths *)

IsDirectory(e) == e # NoEntry /\ entries[e].kind = "directory"
IsLink(e) == entries[e].kind = "link"

\* vfs_entry::resolve: the first entry of a directory with the name.
Resolve(e, name) ==
    LET named == {i \in DOMAIN lists[e] : entries[lists[e][i]].name = name} IN
    IF named = {} THEN NoEntry
    ELSE lists[e][CHOOSE i \in named : \A j \in named : i <= j]

\* Where path_to_entry starts; the root is its own parent here.
Start(from, dir) ==
    CASE from = "root" -> Root
      [] from = "up" /\ entries[dir].parent # NoEntry -> entries[dir].parent
      [] OTHER -> dir

\* path_to_entry.  Links on the way are not followed.
PathToEntry(path, dir) ==
    LET walk[i \in 0 .. Len(path.parts)] ==
            IF i = 0 THEN Start(path.from, dir)
            ELSE IF walk[i - 1] = NoEntry THEN NoEntry
            ELSE Resolve(walk[i - 1], path.parts[i])
    IN walk[Len(path.parts)]

\* A path that starts with a hidden name starts with a dot that is no directory.
Unknown(path) ==
    path.from = "none" /\ path.parts # << >> /\ Head(path.parts) \in Dotted

\* Mutant: a path without a directory is one of the root.
ParentInRoot(path) ==
    IF path.from = "none" /\ Len(path.parts) = 1 THEN Slash(<< >>)
    ELSE [path EXCEPT !.parts = Front(@)]

\* resolve_parent cuts the path at the last slash: what is left of "/a" is empty.
ParentOf(path) ==
    IF Len(path.parts) > 1 \/ path.from # "root"
    THEN [path EXCEPT !.parts = Front(@)]
    ELSE Empty

\* What a process that is not in the root has in its own directory.
Elsewhere(p, path) == path.from = "root" /\ Len(path.parts) = 1 /\ cwd[p] # Root

\* The directory and then the entry that open and unlink take.
ParentEntry(p, path) == PathToEntry(ParentOf(path), cwd[p])

Target(p, path) ==
    IF ParentEntry(p, path) = NoEntry THEN NoEntry
    ELSE Resolve(ParentEntry(p, path), Last(path.parts))

\* Mutant: an entry of the root has a second slash, and a name that is empty.
NamesFromSlash(e) ==
    LET names[i \in DOMAIN entries] ==
            IF entries[i].parent = NoEntry THEN <<"">> ELSE Append(names[entries[i].parent], entries[i].name)
    IN names[e]

NamesFrom(e) ==
    LET names[i \in DOMAIN entries] ==
            IF entries[i].parent = NoEntry THEN << >> ELSE Append(names[entries[i].parent], entries[i].name)
    IN names[e]

\* get_path.  The parent of a socket is unknown.
GetPath(e) ==
    IF entries[e].kind = "socket" THEN Plain(<<entries[e].name>>) ELSE Slash(NamesFrom(e))

\* What the link e leads to.
Followed(e) == PathToEntry(entries[e].link, entries[e].parent)

-----------------------------------------------------------------------------
(* Making entries *)

\* Mutant: the newest entry comes first.
Listed(list, e) == <<e>> \o list

\* ram_directory::create_file and its like, and add_entry.
Pushed(list, e) == Append(list, e)

Add(dir, name, kind, link) ==
    LET e == Len(entries) + 1 IN
    /\ e <= MaxEntries
    /\ entries' = Append(entries, [kind |-> kind, name |-> name, link |-> link,
                                   parent |-> IF kind = "socket" THEN NoEntry ELSE dir])
    /\ lists' = Append([lists EXCEPT ![dir] = Pushed(@, e)], << >>)

\* A call has found where to make an entry.
Making(p, path, kind, link, sock, elsewhere) ==
    call' = [call EXCEPT ![p] = [Idle EXCEPT
        !.op = "make", !.at = "make", !.dir = ParentEntry(p, path),
        !.name = Last(path.parts), !.kind = kind, !.link = link, !.sock = sock,
        !.there = Target(p, path) # NoEntry, !.elsewhere = elsewhere]]

\* Mutant: nobody looks whether the name exists.
NeverExists(p, path) == FALSE

Exists(p, path) == PathToEntry(path, cwd[p]) # NoEntry

\* The assertions of mkdir, link and bind.
MakeFault(p, path) ==
    IF Unknown(path) THEN UnknownPattern
    ELSE IF Exists(p, path) THEN AlreadyExists
    ELSE IF ParentEntry(p, path) = NoEntry THEN NoParent
    ELSE NoPanic

\* Below a file and a link nothing is made; a socket that has a name gets the other.
Make(p, path, kind, link, sock) ==
    /\ User(p)
    /\ \/ /\ MakeFault(p, path) # NoPanic
          /\ Stop(MakeFault(p, path))
       \/ /\ MakeFault(p, path) = NoPanic
          /\ IsDirectory(ParentEntry(p, path)) \/ sock # NoEntry
          /\ Making(p, path, kind, link, sock, Elsewhere(p, path))
          /\ UNCHANGED <<tree, cwd, stream, archive, misplaced, raced, rebound, panic>>

Mkdir(p, path) == Make(p, path, "directory", Empty, NoEntry)
Link(p, path, target) == Make(p, path, "link", target, NoEntry)

\* bind takes any socket, a new one or one that was bound before.
Bind(p, path, sock) ==
    /\ sock # NoEntry => entries[sock].kind = "socket"
    /\ Make(p, path, "socket", Empty, sock)

\* A socket that has a name gets another, wherever it is, and is put in a list again.
Rebind(dir, name, sock) ==
    /\ entries' = [entries EXCEPT ![sock].name = name]
    /\ lists' = IF IsDirectory(dir) THEN [lists EXCEPT ![dir] = Pushed(@, sock)] ELSE lists

\* The entry is made without another look at the directory.
Create(p) ==
    LET c == call[p] IN
    /\ At(p, "make")
    /\ \/ c.sock = NoEntry /\ Add(c.dir, c.name, c.kind, c.link)
       \/ c.sock # NoEntry /\ Rebind(c.dir, c.name, c.sock)
    /\ rebound' = (c.sock # NoEntry)
    /\ misplaced' = (misplaced \/ c.elsewhere)
    /\ raced' = (~c.there /\ Resolve(c.dir, c.name) # NoEntry)
    /\ Return(p)
    /\ UNCHANGED <<cwd, stream, archive, panic>>

\* The lists have no lock, and to change one takes several writes: q is inside the
\* list that p changes, because it changes it too, or because it looks up a path,
\* and that can be any.  Or both bind, and it is the same socket.
Meet(p, q) ==
    /\ At(p, "make") \/ At(p, "remove")
    /\ q # p
    /\ \/ call[q].at \in {"make", "remove"} /\ call[q].dir = call[p].dir
       \/ call[q].kind = "socket" /\ call[p].kind = "socket"
       \/ call[q].at \in {"user", "follow"}
    /\ raced' = TRUE
    /\ UNCHANGED <<tree, cwd, stream, call, archive, misplaced, rebound, panic>>

-----------------------------------------------------------------------------
(* open, stat, readlink and unlink *)

LinkFault(e, follows) ==
    IF Unknown(entries[e].link) THEN UnknownPattern
    ELSE IF Followed(e) = NoEntry THEN NullEntry
    ELSE IF follows = MaxFollows THEN StackOverflow ELSE NoPanic

\* A call that has found entry e: what it does with a link, which it follows by
\* its path; with a directory, and with anything else, where Files has the rest
\* of open.
Find(p, op, e, creat, follows) ==
    LET next == Followed(e) IN
    \/ /\ IsLink(e)
       /\ LinkFault(e, follows) # NoPanic
       /\ Stop(LinkFault(e, follows))
    \/ /\ IsLink(e)
       /\ LinkFault(e, follows) = NoPanic
       /\ call' = [call EXCEPT ![p] = [Idle EXCEPT
              !.op = op, !.at = "follow", !.path = GetPath(next),
              !.creat = creat, !.follows = follows + 1]]
       /\ UNCHANGED <<tree, cwd, stream, archive, misplaced, raced, rebound, panic>>
    \/ /\ IsDirectory(e) /\ op = "open"
       /\ Stop(CannotOpen)
    \/ /\ ~IsLink(e) /\ (IsDirectory(e) => op = "stat")
       /\ Return(p)
       /\ UNCHANGED <<tree, cwd, stream, archive, misplaced, raced, rebound, panic>>

\* The assertions of open, up to the entry.
OpenFault(p, path, creat) ==
    IF Unknown(ParentOf(path)) THEN UnknownPattern
    ELSE IF /\ creat /\ ParentEntry(p, path) # NoEntry /\ Target(p, path) = NoEntry
            /\ ~IsDirectory(ParentEntry(p, path)) THEN CreationFailed
    ELSE NoPanic

\* One round of open, which calls itself for a link.
OpenRound(p, path, creat, follows) ==
    \/ /\ OpenFault(p, path, creat) # NoPanic
       /\ Stop(OpenFault(p, path, creat))
    \/ /\ OpenFault(p, path, creat) = NoPanic
       /\ \/ /\ Target(p, path) # NoEntry
             /\ Find(p, "open", Target(p, path), creat, follows)
          \/ /\ Target(p, path) = NoEntry
             /\ IF creat /\ ParentEntry(p, path) # NoEntry
                THEN Making(p, path, "file", Empty, NoEntry, FALSE) ELSE Return(p)
             /\ UNCHANGED <<tree, cwd, stream, archive, misplaced, raced, rebound, panic>>

StatRound(p, path, follows) ==
    LET e == PathToEntry(path, cwd[p]) IN
    \/ /\ Unknown(path)
       /\ Stop(UnknownPattern)
    \/ /\ ~Unknown(path)
       /\ \/ /\ e # NoEntry
             /\ Find(p, "stat", e, FALSE, follows)
          \/ /\ e = NoEntry
             /\ Return(p)
             /\ UNCHANGED <<tree, cwd, stream, archive, misplaced, raced, rebound, panic>>

Open(p, path, creat) == User(p) /\ OpenRound(p, path, creat, 0)
Stat(p, path) == User(p) /\ StatRound(p, path, 0)

Follow(p) ==
    LET c == call[p] IN
    /\ At(p, "follow")
    /\ \/ c.op = "open" /\ OpenRound(p, c.path, c.creat, c.follows)
       \/ c.op = "stat" /\ StatRound(p, c.path, c.follows)

\* readlink needs what the link leads to.
Readlink(p, path) ==
    LET e == PathToEntry(path, cwd[p]) IN
    /\ User(p) /\ ~Unknown(path)
    /\ e # NoEntry /\ IsLink(e) /\ LinkFault(e, 0) \in {UnknownPattern, NullEntry}
    /\ Stop(LinkFault(e, 0))

UnlinkFault(p, path) ==
    IF Unknown(ParentOf(path)) THEN UnknownPattern
    ELSE IF ParentEntry(p, path) = NoEntry THEN NoParent
    ELSE IF Target(p, path) # NoEntry /\ IsDirectory(Target(p, path)) THEN IsADirectory
    ELSE NoPanic

\* unlink looks for the name and removes the entry in a second look.
Unlink(p, path) ==
    /\ User(p)
    /\ \/ /\ UnlinkFault(p, path) # NoPanic
          /\ Stop(UnlinkFault(p, path))
       \/ /\ UnlinkFault(p, path) = NoPanic
          /\ Target(p, path) # NoEntry
          /\ call' = [call EXCEPT ![p] = [Idle EXCEPT !.op = "unlink", !.at = "remove",
                        !.dir = ParentEntry(p, path), !.name = Last(path.parts)]]
          /\ UNCHANGED <<tree, cwd, stream, archive, misplaced, raced, rebound, panic>>

\* std::list::remove: an entry is in a list once.
Without(list, e) == RemoveAt(list, CHOOSE i \in DOMAIN list : list[i] = e)

\* ram_directory::remove_file: the entry itself stays.
RemoveFile(p) ==
    LET dir == call[p].dir
        gone == Resolve(dir, call[p].name) IN
    /\ At(p, "remove")
    /\ \/ /\ gone = NoEntry \/ IsDirectory(gone)
          /\ Stop(DeleteFailed)
       \/ /\ gone # NoEntry /\ ~IsDirectory(gone)
          /\ lists' = [lists EXCEPT ![dir] = Without(@, gone)]
          /\ stream' = [q \in Process |->
                IF stream[q].open /\ stream[q].dir = dir THEN Disturbed(stream[q]) ELSE stream[q]]
          /\ Return(p)
          /\ UNCHANGED <<entries, cwd, archive, misplaced, raced, rebound, panic>>

-----------------------------------------------------------------------------
(* Working directories and directory streams *)

\* chdir takes whatever the path leads to, a file as well.
Chdir(p, path) ==
    /\ User(p)
    /\ \/ /\ Unknown(path)
          /\ Stop(UnknownPattern)
       \/ /\ ~Unknown(path)
          /\ PathToEntry(path, cwd[p]) # NoEntry
          /\ cwd' = [cwd EXCEPT ![p] = PathToEntry(path, cwd[p])]
          /\ stream' = [stream EXCEPT ![p] =
                IF @.open /\ @.path.from # "root" THEN Disturbed(@) ELSE @]
          /\ UNCHANGED <<tree, call, archive, misplaced, raced, rebound, panic>>

Streams == {p \in Process : stream[p].open}

\* opendir counts the entries.
Opendir(p, path) ==
    LET e == PathToEntry(path, cwd[p]) IN
    /\ User(p)
    /\ ~stream[p].open /\ Cardinality(Streams) < MaxStreams
    /\ \/ /\ Unknown(path)
          /\ Stop(UnknownPattern)
       \/ /\ ~Unknown(path)
          /\ e # NoEntry /\ IsDirectory(e)
          /\ stream' = [stream EXCEPT ![p] = [Closed EXCEPT
                !.open = TRUE, !.path = path, !.count = Len(lists[e]),
                !.dir = e, !.list = lists[e]]]
          /\ UNCHANGED <<tree, cwd, call, archive, misplaced, raced, rebound, panic>>

\* The name of the entry fits the buffer of readdir.
NameFits(e) == entries[e].name \notin Long

\* readdir looks the path up again and takes the entry of its index.  Without
\* such an entry, or with one whose name is too long, the program spins.
Readdir(p) ==
    LET d == stream[p]
        e == PathToEntry(d.path, cwd[p]) IN
    /\ User(p)
    /\ d.open /\ d.ind # d.count
    /\ \/ /\ e = NoEntry
          /\ Stop(NullStream)
       \/ /\ e # NoEntry
          /\ IF d.ind < Len(lists[e]) /\ NameFits(lists[e][d.ind + 1])
             THEN /\ stream' = [stream EXCEPT ![p].ind = @ + 1,
                        ![p].read = IF d.disturbed THEN @ ELSE Append(@, lists[e][d.ind + 1])]
                  /\ UNCHANGED call
             ELSE /\ call' = [call EXCEPT ![p].at = "spin"]
                  /\ UNCHANGED stream
          /\ UNCHANGED <<tree, cwd, archive, misplaced, raced, rebound, panic>>

Closedir(p) ==
    /\ User(p)
    /\ stream[p].open
    /\ stream' = [stream EXCEPT ![p] = Closed]
    /\ UNCHANGED <<tree, cwd, call, archive, misplaced, raced, rebound, panic>>

-----------------------------------------------------------------------------
(* Boot *)

\* extract_file opens a file below "/", and makes a directory or a link below
\* the working directory of the first process.
PathOf(record) ==
    IF record.kind = "file" THEN Slash(record.parts) ELSE Plain(record.parts)

\* Mutant: a directory below another is made in the root.
DirOfFlat(record) ==
    PathToEntry(IF record.kind = "directory" THEN Empty ELSE ParentOf(PathOf(record)), Root)

DirOf(record) == PathToEntry(ParentOf(PathOf(record)), Root)

\* The entry of the record's name that is there already.
Existing(record) == Resolve(DirOf(record), Last(record.parts))

ExtractFault(record) ==
    IF record.kind = "file" THEN
        IF DirOf(record) = NoEntry THEN NullEntry
        ELSE IF ~IsDirectory(DirOf(record)) THEN CreationFailed
        ELSE IF IsDirectory(Existing(record)) THEN CannotOpen ELSE NoPanic
    ELSE IF Unknown(PathOf(record)) THEN UnknownPattern
    ELSE IF PathToEntry(PathOf(record), Root) # NoEntry THEN AlreadyExists
    ELSE IF DirOf(record) = NoEntry THEN NoParent ELSE NoPanic

\* cpio_extractor::extract, one record after the other, before any program runs.  A
\* file that is there is opened and written to; what is in /dev refuses that, unless
\* the record is empty.
Extract ==
    LET record == archive.records[archive.done + 1] IN
    /\ Running
    /\ archive.done < Len(archive.records)
    /\ \/ /\ ExtractFault(record) # NoPanic
          /\ Stop(ExtractFault(record))
       \/ /\ ExtractFault(record) = NoPanic
          /\ DirOf(record) = Dev /\ Existing(record) # NoEntry
          /\ Stop(WriteRefused)
       \/ /\ ExtractFault(record) = NoPanic
          /\ IF IsDirectory(DirOf(record)) /\ Existing(record) = NoEntry
             THEN Add(DirOf(record), Last(record.parts), record.kind, record.link)
             ELSE UNCHANGED tree
          /\ archive' = [archive EXCEPT !.done = @ + 1]
          /\ UNCHANGED <<cwd, stream, call, misplaced, raced, rebound, panic>>

\* After the trailer the kernel starts its first program.
Load ==
    /\ Running
    /\ archive.done = Len(archive.records)
    /\ archive' = [archive EXCEPT !.done = @ + 1]
    /\ UNCHANGED <<tree, cwd, stream, call, misplaced, raced, rebound, panic>>

-----------------------------------------------------------------------------

\* panic() clears interrupts and halts.
Halted == ~Running /\ UNCHANGED vars

Next ==
    \/ Halted
    \/ Extract \/ Load
    \/ \E p \in Process :
          \/ \E path \in Paths :
                \/ Mkdir(p, path)
                \/ \E sock \in {NoEntry} \cup DOMAIN entries : Bind(p, path, sock)
                \/ \E target \in Targets : Link(p, path, target)
                \/ \E creat \in BOOLEAN : Open(p, path, creat)
                \/ Stat(p, path) \/ Readlink(p, path) \/ Unlink(p, path)
          \/ Create(p) \/ Follow(p) \/ RemoveFile(p)
          \/ \E q \in Process : Meet(p, q)
          \/ \E path \in Places : Chdir(p, path) \/ Opendir(p, path)
          \/ Readdir(p) \/ Closedir(p)

Spec == Init /\ [][Next]_vars

-----------------------------------------------------------------------------
(* Safety *)

\* A name stands for one entry of its directory, as the panic "Already exists"
\* of mkdir, link and bind wants it: two of a name come from two processes that
\* make it at the same time, or from a process outside the root that makes "/a",
\* for which these calls look into the root and then make it where they are, or
\* from one that binds a socket again.
NamesUnique ==
    ~raced /\ ~misplaced /\ ~rebound =>
        \A d \in DOMAIN lists : \A i, j \in DOMAIN lists[d] :
            entries[lists[d][i]].name = entries[lists[d][j]].name => i = j

Reachable == UNION {{lists[d][i] : i \in DOMAIN lists[d]} : d \in DOMAIN lists}

\* The path that getcwd and readlink return for an entry leads back to it, from
\* every working directory and at any depth, as long as names are unique.
PathsRoundTrip ==
    ~raced /\ ~misplaced /\ ~rebound =>
        \A e \in Reachable \cup {Root} : \A p \in Process :
            entries[e].kind # "socket" => PathToEntry(GetPath(e), cwd[p]) = e

\* open and unlink, which look up the directory of a path and in it the last
\* name, get to the entry that stat and mkdir get to with the whole path: in
\* every tree and from every directory, though not for "/a" outside the root.
LookupsAgree ==
    \A dir \in {cwd[p] : p \in Process} :
        LET p == CHOOSE q \in Process : cwd[q] = dir IN
        \A path \in {[from |-> from, parts |-> path.parts] : from \in From, path \in Paths}
                    \cup {GetPath(e) : e \in Reachable} :
            ~Elsewhere(p, path) /\ ~Unknown(path)
                => Target(p, path) = PathToEntry(path, cwd[p])

\* A program that lists a directory gets each of the entries it had at opendir
\* once and in order, though every readdir starts from the path again and others
\* make entries meanwhile; it does not stop the kernel, and spins only at a name
\* that is too long.  Only an unlink in that directory, its own chdir when the path
\* is relative, and a socket that gets a second name, can break it.
ListingComplete ==
    ~rebound =>
        /\ \A p \in Process :
              stream[p].open /\ ~stream[p].disturbed
                  => /\ stream[p].read = SubSeq(stream[p].list, 1, stream[p].ind)
                     /\ stream[p].count = Len(stream[p].list)
                     /\ call[p].at = "spin" =>
                            /\ stream[p].ind < stream[p].count
                            /\ ~NameFits(stream[p].list[stream[p].ind + 1])
        /\ panic = NullStream => \E p \in Process : stream[p].disturbed

\* At the end of boot every record of the archive is at its path, with its kind
\* and its link, although files are made below "/" and the others where the
\* first process is; but for a file where the kernel has a device, which is
\* written to that.
ArchiveExtracted ==
    Booting /\ panic = NoPanic =>
        \A i \in 1 .. archive.done :
            LET record == archive.records[i]
                e == PathToEntry(Slash(record.parts), Root) IN
            /\ e # NoEntry
            /\ \/ entries[e].kind = record.kind /\ entries[e].link = record.link
               \/ entries[e].kind = "device" /\ record.kind = "file"
=============================================================================
