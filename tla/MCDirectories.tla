---------------------------- MODULE MCDirectories ----------------------------
(***************************************************************************)
(* Directories for TLC: programs name an entry "a", and look in ".a".     *)
(***************************************************************************)
EXTENDS Directories, TLC

Symmetry == Permutations(Process)

DirectoryAt(parts) == [kind |-> "directory", parts |-> parts, link |-> Empty]
FileAt(parts) == [kind |-> "file", parts |-> parts, link |-> Empty]
LinkAt(parts) ==
    [kind |-> "link", parts |-> parts, link |-> [from |-> "here", parts |-> <<".a", "a">>]]

\* One with files where the kernel has devices; one of two directories and a link that
\* leads nowhere; one with a name that readdir cannot give; one with a record that comes
\* before its directory; one with a hidden name at the top; and two that name /dev.
SomeArchives ==
    {<<DirectoryAt(<<"a">>), FileAt(<<"stdin">>), FileAt(<<"dev", "mem">>)>>,
     <<DirectoryAt(<<"a">>), DirectoryAt(<<"a", ".a">>), LinkAt(<<"a", "a">>)>>,
     <<DirectoryAt(<<"a">>), FileAt(<<"a", "long">>)>>,
     <<LinkAt(<<"a", "a">>), DirectoryAt(<<"a">>)>>,
     <<LinkAt(<<".a">>)>>,
     <<DirectoryAt(<<"dev">>)>>, <<FileAt(<<"dev">>)>>}

SomePaths == {Plain(<<"a">>), Slash(<<"a">>), Plain(<<".a", "a">>)}
SomePlaces == {Plain(<<"a">>), Slash(<< >>)}
SomeTargets == {Plain(<<"a">>)}
=============================================================================
