-------------------------------- MODULE Iso9660 --------------------------------
(* Files on the boot disc, src/src/kernel/fs: mounting, path lookup and reading
   by byte ranges, over drive_read, which takes the number of 512-byte sectors
   in 8 bits and may fail.

   A byte of the disc is named by its position, so that what a read delivers
   tells where it came from.  A directory is what the loop over its bytes sees:
   an entry of some length at an offset, or a zero.  The kernel heap is assumed
   to have room, directories to be shorter than a full count of sectors, and discs
   than 4 GiB, so that positions on them fit a word. *)
EXTENDS Drive, Splitting, FiniteSetsExt

CONSTANTS
    Discs,    \* what the drive may hold, see below
    Unit,     \* bytes in a sector of the drive: 0x200
    Chars,    \* the characters of paths, with "/" among them
    Paths,    \* the paths programs pass
    Sizes,    \* the sizes programs read
    Offsets   \* and where they start

(* disc.descriptor   the volume descriptor: magic, type, version, sector_size
   disc.path_table   the name lengths of its entries
   disc.root         the root directory, a file
   disc.entry        for the extent of a directory, its entries by offset;
                     an entry has a length, a name and the file it stands for *)

Slash   == "/"
Nul     == "nul"
Unnamed == "no name"

NoName == <<Unnamed>>  \* no Rock Ridge name: readDirEntry leaves a null pointer
Stale  == -1           \* a byte of a buffer that the drive has not filled

FilesOf(d) ==
    {d.root} \cup UNION {{d.entry[e][i].file : i \in DOMAIN d.entry[e]} : e \in DOMAIN d.entry}

\* Iso9660Fs::isValid and mount: type and version are looked at only where a
\* letter of the magic word differs.
Accepted(vd) == vd.magic \/ (vd.type = 1 /\ vd.version = 1)

\* The entries of a directory lie one behind the other within it, and a directory
\* shares its name with nothing else there.
WellFormed(dir, size) ==
    \A i \in DOMAIN dir :
       /\ i \in Nat /\ dir[i].length \in Nat \ {0} /\ i < size
       /\ \A j \in DOMAIN dir :
             /\ i < j => i + dir[i].length <= j
             /\ dir[i].file.is_dir /\ dir[i].name # NoName /\ dir[j].name = dir[i].name => j = i

\* ISO 9660 makes the size of a sector a multiple of 512.
ASSUME DiscAssumption ==
    /\ Unit \in Nat \ {0} /\ Sizes \subseteq Nat /\ Offsets \subseteq Nat
    /\ Nul \notin Chars /\ Unnamed \notin Chars /\ Paths \subseteq Seq(Chars)
    /\ \A d \in Discs : Accepted(d.descriptor) =>
          /\ d.descriptor.sector_size \in Nat /\ d.descriptor.sector_size % Unit = 0
          /\ \A f \in FilesOf(d) :
                /\ f \in [valid : {TRUE}, is_dir : BOOLEAN, lba : Nat, size : Nat]
                /\ f.is_dir => /\ f.lba \in DOMAIN d.entry /\ f.size <= (Byte - 1) * Unit
                               /\ WellFormed(d.entry[f.lba], f.size)

VARIABLES
    disc,   \* the disc in the drive
    fs,     \* how far the file system is: "boot", "mounted", "failed" or "hung"
    file,   \* what the last getFile answered
    asked,  \* its path
    failed, \* the drive refused something during that lookup (history)
    answer  \* the last read: what was asked and the bytes delivered

fsVars == <<disc, fs, file, asked, failed, answer>>

Invalid == [valid |-> FALSE]
NoRead  == [size |-> 0, offset |-> 0, data |-> <<>>, ok |-> FALSE]

CeilDiv(a, b) == a \div b + (IF a % b # 0 THEN 1 ELSE 0)

\* lbaTo512
LbaTo512(lba) == (lba * disc.descriptor.sector_size) \div Unit

\* What drive_read puts into a buffer for n sectors.
Buffer(lba, n) ==
    [i \in 0 .. n * Unit - 1 |-> IF i < Count(n) * Unit THEN lba * Unit + i ELSE Stale]

-------------------------------------------------------------------------------
(* Mounting *)

\* readPathTable never gets past an entry without a name.
PathTableEnds == \A i \in DOMAIN disc.path_table : disc.path_table[i] # 0

\* Filesystem::mount: three reads of the drive, each of which may fail.
mount ==
    /\ fs = "boot"
    /\ \/ fs' = "failed"
       \/ Accepted(disc.descriptor) /\ PathTableEnds /\ fs' = "mounted"
       \/ Accepted(disc.descriptor) /\ ~PathTableEnds /\ fs' = "hung"
    /\ UNCHANGED <<disc, file, asked, failed, answer>>

-------------------------------------------------------------------------------
(* Looking up *)

\* parsePath's first loop ends every name with a zero; other slashes stay.
Cut(path) ==
    [i \in DOMAIN path |->
       IF path[i] = Slash /\ i > 1 /\ path[i - 1] # Slash THEN Nul ELSE path[i]]

InName(c) == c # Slash /\ c # Nul

\* Its second loop: where the names start.
Starts(s) == {i \in DOMAIN s : InName(s[i]) /\ (i = 1 \/ ~InName(s[i - 1]))}

\* The C string at i.
NameAt(s, i) ==
    LET ends == {k \in i .. Len(s) : s[k] = Nul} \cup {Len(s) + 1}
    IN  SubSeq(s, i, Min(ends) - 1)

parsePath(path) ==
    LET s == Cut(path)
    IN  [k \in 1 .. Cardinality(Starts(s)) |-> NameAt(s, Nth(Starts(s), k))]

\* Variant of NextEntry: a zero skips a sector instead of a byte.
NextEntrySkips(dir, i) == IF i \in DOMAIN dir THEN i + dir[i].length ELSE i + Unit

\* getDirEntries: the next offset it looks at.
NextEntry(dir, i) == IF i \in DOMAIN dir THEN i + dir[i].length ELSE i + 1

\* The offsets of its loop, which takes at most a step for each byte.
Stops(f) ==
    LET at[n \in 0 .. f.size] ==
          IF n = 0 THEN 0 ELSE NextEntry(disc.entry[f.lba], at[n - 1])
    IN  at

\* Where it finds the entries of a directory, in the order of offsets.
getDirEntries(f) ==
    {i \in DOMAIN disc.entry[f.lba] : i < f.size /\ \E n \in 0 .. f.size : Stops(f)[n] = i}

\* getChild: the first entry of that name.
getChild(f, name) ==
    LET same == {i \in getDirEntries(f) : disc.entry[f.lba][i].name = name}
    IN  IF same = {} THEN Invalid ELSE disc.entry[f.lba][Min(same)].file

\* One name of _getFile's loop.  Nothing checks that a file on the way is a
\* directory: the bytes of a program then pass for entries, with any outcome.
Enter(f, name) ==
    IF ~f.valid THEN {Invalid}
    ELSE IF f.is_dir THEN {getChild(f, name)} ELSE FilesOf(disc) \cup {Invalid}

_getFile(names) ==
    LET at[n \in 0 .. Len(names)] ==
          IF n = 0 THEN {disc.root} ELSE UNION {Enter(f, names[n]) : f \in at[n - 1]}
    IN  at[Len(names)]

getFile(path) ==
    /\ fs = "mounted"
    /\ asked' = path
    /\ \/ failed' = FALSE
          /\ file' \in _getFile(parsePath(path))
       \/ failed' = TRUE /\ parsePath(path) # <<>> /\ file' = Invalid
    /\ answer' = NoRead
    /\ UNCHANGED <<disc, fs>>

-------------------------------------------------------------------------------
(* Reading *)

\* Variant of FirstSector: the offset is rounded up.
FirstSectorUp(offset) == LbaTo512(file.lba) + CeilDiv(offset, Unit)

FirstSector(offset) == LbaTo512(file.lba) + (offset \div Unit)

read(size, offset) ==
    /\ fs = "mounted" /\ file.valid
    /\ IF file.is_dir \/ offset >= file.size
       THEN answer' = [size |-> size, offset |-> offset, data |-> <<>>, ok |-> TRUE]
       ELSE LET n      == Min({size, file.size - offset})
                count  == CeilDiv(offset + n, Unit) - (offset \div Unit)
                buffer == Buffer(FirstSector(offset), count)
            IN  \/ answer' = [size |-> size, offset |-> offset, ok |-> TRUE,
                              data |-> [k \in 1 .. n |-> buffer[(offset % Unit) + k - 1]]]
                \/ answer' = [size |-> size, offset |-> offset, ok |-> FALSE, data |-> <<>>]
    /\ UNCHANGED <<disc, fs, file, asked, failed>>

-------------------------------------------------------------------------------

FsInit ==
    /\ disc \in Discs
    /\ fs = "boot"
    /\ file = Invalid /\ asked = <<>> /\ failed = FALSE
    /\ answer = NoRead

FsNext ==
    \/ mount
    \/ \E path \in Paths : getFile(path)
    \/ \E size \in Sizes, offset \in Offsets : read(size, offset)

FsSpec == FsInit /\ [][FsNext]_fsVars

-------------------------------------------------------------------------------
(* Properties *)

\* The byte of the disc where byte i of the file is.
Position(f, i) == f.lba * disc.descriptor.sector_size + i

\* A read delivers the bytes of the file from the offset on, as many as asked
\* for or as there are, and never a byte of its neighbours; but for reads that
\* span a full count of sectors, which come back with stale bytes.
ReadIsSlice ==
    answer.ok =>
       \/ answer.data = <<>> /\ (file.is_dir \/ answer.offset >= file.size \/ answer.size = 0)
       \/ /\ Len(answer.data) = Min({answer.size, file.size - answer.offset})
          /\ \/ \A k \in DOMAIN answer.data :
                   answer.data[k] = Position(file, answer.offset + k - 1)
             \/ (answer.offset % Unit) + Len(answer.data) > (Byte - 1) * Unit

\* The names of a path: what stands between slashes.
Names(path) == Runs(path, Slash)

\* A file of that name in a directory, whatever the offset of its entry.
Child(d, name) ==
    {disc.entry[d.lba][i].file : i \in {o \in DOMAIN disc.entry[d.lba] :
                                           disc.entry[d.lba][o].name = name}}

\* The files that the first n names lead to, through directories.
Reached(names) ==
    LET at[n \in 0 .. Len(names)] ==
          IF n = 0 THEN {disc.root}
          ELSE UNION {Child(d, names[n]) : d \in {f \in at[n - 1] : f.is_dir}}
    IN  at

ThroughFile(names) ==
    \E n \in 0 .. Len(names) - 1 : \E f \in Reached(names)[n] : ~f.is_dir

\* A lookup finds the file that the directories lead to, wherever slashes are
\* doubled, missing or trailing, and padding splits a directory; it answers
\* invalid when there is none or the drive has failed.
LookupResolves ==
    LET names == Names(asked)
        found == Reached(names)[Len(names)]
    IN  asked # <<>> /\ ~ThroughFile(names) =>
           IF file.valid THEN file \in found ELSE failed \/ found = {}
===============================================================================
