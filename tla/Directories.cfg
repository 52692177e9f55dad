SPECIFICATION Spec
CONSTANTS
    Process = {p1, p2}
    Name = {"a", ".a", "long", "stdin", "stdout", "dev", "mem", "zero", "tty", "ptmx"}
    Dotted = {".a"}
    Long = {"long"}
    Archives <- SomeArchives
    Paths <- SomePaths
    Places <- SomePlaces
    Targets <- SomeTargets
    MaxEntries = 11
    MaxStreams = 1
    MaxFollows = 2
INVARIANTS
    NamesUnique
    PathsRoundTrip
    
    ListingComplete
    ArchiveExtracted
SYMMETRY Symmetry
CHECK_DEADLOCK FALSE
