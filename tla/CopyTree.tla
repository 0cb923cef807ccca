------------------------------ MODULE CopyTree ------------------------------
(***************************************************************************)
(* What copy mode makes of the tree of an image: scan_tree(), the choice   *)
(* of the filesystem and the size check, copy_tree() onto FAT32 and        *)
(* copy_tree_native() onto NTFS, and the extraction of the EFI loader from *)
(* the image's El Torito boot image (libbuf/src/copy/mod.rs, ntfs.rs).     *)
(*                                                                         *)
(* The tree is the sequence of its entries in the order read_dir() lists   *)
(* them.  A symbolic link has two meanings: what the operating system      *)
(* opens (seen), and what it names inside the image (inside).  Lengths are *)
(* in the words of Fat32.                                                  *)
(***************************************************************************)
EXTENDS Fat32, ElTorito

SX == INSTANCE SequencesExt

CONSTANTS
    Names,        \* names of files and directories
    Fold,         \* the name with the case taken away
    NameSlots,    \* directory entries a name takes on FAT
    BadNames,     \* names that FAT and Windows do not take
    LoaderDirs,   \* the path EFI/BOOT, folded
    LoaderNames,  \* the names BOOT*.EFI, folded
    Jobs          \* the images and the targets

Paths == Seq(Names)

\* What a path leads to.
Thing == [is : {"nothing", "file", "dir"}, len : Nat]

Entry == [path : Paths, kind : {"dir", "file", "link", "untyped"}, seen : Thing, inside : Thing]

Job == [os      : {"linux", "windows", "macos"},
        sector  : SectorSizes,
        size    : Nat,                      \* of the target
        tree    : Seq(Entry),
        record  : BOOLEAN,                  \* there is a boot record
        catalog : Catalog,
        \* the files of the boot image in the order of its directories, if it
        \* is a FAT filesystem
        image   : [fat : BOOLEAN, files : Seq([path : Paths, len : Nat])]]

\* What lies above a path, without the root.
Prefixes(p) == {SubSeq(p, 1, i) : i \in 1 .. Len(p) - 1}

\* Entries are below directories, and a directory lists a name once.
IsTree(t) ==
    /\ \A i, j \in DOMAIN t : t[i].path = t[j].path => i = j
    /\ \A i \in DOMAIN t : /\ t[i].path # <<>>
                           /\ \A q \in Prefixes(t[i].path) :
                                 \E j \in DOMAIN t : t[j].path = q /\ t[j].kind = "dir"

IsImage(files) == \A i \in DOMAIN files : files[i].path # <<>>

FoldNames == \A n \in Names : Fold[n] \in Names /\ Fold[Fold[n]] = Fold[n]
ASSUME NamesAssumption == Fold \in [Names -> Names] /\ FoldNames
\* Folding a name makes it no longer.
ASSUME SlotsOfNamesAssumption == /\ NameSlots \in [Names -> Nat \ {0}]
                                 /\ \A n \in Names : NameSlots[Fold[n]] <= NameSlots[n]
ASSUME JobsAssumption == /\ Jobs \subseteq Job
                         /\ \A j \in Jobs : IsTree(j.tree) /\ IsImage(j.image.files)

VARIABLES
    pc,       \* step of the run
    job,      \* the image and the target
    fs,       \* the filesystem made, if any
    stack,    \* directories still to be listed
    listing,  \* places of the entries of the current directory still to be copied
    disk,     \* what is on the new filesystem, by path
    skipped,  \* entries skipped with a warning
    boot,     \* a boot loader is taken to be there
    entry,    \* what the search of the catalog came to
    rest,     \* files of the boot image still to be extracted
    found,    \* a boot loader was among the extracted files
    result,   \* how the run ended
    why       \* what refused it or failed

walk   == <<stack, listing>>
search == <<entry, rest, found>>
end    == <<result, why>>
vars   == <<pc, job, fs, walk, disk, skipped, boot, search, end>>

-----------------------------------------------------------------------------
(* The target. *)

Total      == job.size \div job.sector
Volume     == Parts(Total, job.sector, FALSE)[1]
PartWords  == Volume * job.sector
Cluster    == Fat32Cluster(PartWords, job.sector)
NtfsWords  == Parts(Total, job.sector, TRUE)[1] * job.sector

\* FAT, and NTFS as Windows treats it, do not tell names apart by their case.
Key(p) == IF fs = "ntfs" /\ job.os # "windows" THEN p ELSE [i \in DOMAIN p |-> Fold[p[i]]]

Refuses(p) == (fs = "fat" \/ job.os = "windows") /\ \E i \in DOMAIN p : p[i] \in BadNames

\* A node of the new filesystem: where its content is from, and its length.
Dir               == [is |-> "dir", of |-> "nothing", at |-> <<>>, len |-> 0]
File(of, p, n)    == [is |-> "file", of |-> of, at |-> p, len |-> n]
EmptyFile         == File("nothing", <<>>, 0)

Parent(p)     == SX!Front(p)
Clash(k, is)  == k \in DOMAIN disk /\ disk[k].is # is

\* The disk d with a node at k.
Put(d, k, node) == [q \in DOMAIN d \cup {k} |-> IF q = k THEN node ELSE d[q]]

\* What is in the directory k of the disk d.
Children(d, k) == {q \in DOMAIN d \ {<<>>} : Parent(q) = k}

\* Clusters in use, once the disk looks like d.
DirWords(d, k) ==
    SlotWords * ((IF k = <<>> THEN 1 ELSE 2)
        + SumFunction([q \in Children(d, k) |-> NameSlots[SX!Last(q)]]))
NodeClusters(d, k) == IF d[k].is = "file" THEN SectorsFor(d[k].len, Cluster)
                                          ELSE SectorsFor(DirWords(d, k), Cluster)
Used(d) == SumFunction([k \in DOMAIN d |-> NodeClusters(d, k)])

Overflows(d) == fs = "fat" /\ Used(d) > Clusters(Volume, job.sector, Cluster)

-----------------------------------------------------------------------------
(* The tree. *)

FoldPath(p) == [i \in DOMAIN p |-> Fold[p[i]]]

\* is_efi_boot_loader(): EFI/BOOT/BOOT*.EFI, in any case.
IsLoader(p) == Len(p) = 3 /\ Parent(FoldPath(p)) = LoaderDirs /\ Fold[p[3]] \in LoaderNames

Entries == SX!ToSet(job.tree)
Listed(d) == {i \in DOMAIN job.tree : Parent(job.tree[i].path) = d}

\* The entry whose turn it is.
Current == job.tree[Min(listing)]

Dirs    == {e \in Entries : e.kind = "dir"}
NonDirs == {e \in Entries : e.kind \in {"file", "link"}}

\* What copying an entry opens: what the system sees, or else what the link
\* names inside the image, where Windows opens no directory.
Source(e) == IF e.seen.is # "nothing" THEN e.seen
             ELSE IF job.os = "windows" /\ e.inside.is = "dir" THEN e.seen ELSE e.inside

IsLinkedDir(e) == e.kind = "link" /\ e.seen.is = "dir"
IsSkipped(e)   == e.kind # "dir" /\ (IsLinkedDir(e) \/ Source(e).is = "nothing")

\* Mutant of AllocWords: files are not rounded up to clusters.
AllocWordsUnrounded(c) == Cardinality(Dirs) * c + SumFunction([e \in NonDirs |-> e.seen.len])

\* scan_tree(): lengths are those the system sees.
AllocWords(c) == Cardinality(Dirs) * c
                   + SumFunction([e \in NonDirs |-> RoundUpTo(e.seen.len, c)])
MaxFile       == Max({0} \cup {e.seen.len : e \in NonDirs})
HasEfiBoot    == \E e \in NonDirs : IsLoader(e.path)

Needed(ntfs) ==
    AllocWords(Cluster) + Cardinality(Dirs \cup NonDirs) * EntryWords(ntfs)
        + IF ntfs THEN NtfsOverhead ELSE FatOverhead(PartWords, job.sector, Cluster)

-----------------------------------------------------------------------------
(* A run. *)

Init ==
    /\ pc = "scan" /\ job \in Jobs
    /\ fs = "none" /\ stack = <<>> /\ listing = {} /\ disk = << >>
    /\ skipped = 0 /\ boot = FALSE
    /\ entry = NoEntry /\ rest = <<>> /\ found = FALSE
    /\ result = "none" /\ why = "none"

Return(r, cause) == pc' = "ended" /\ result' = r /\ why' = cause

Goto(step) == pc' = step /\ UNCHANGED end

\* What keeps the image from the target, on the filesystem its largest file
\* needs.
Objection(ntfs) ==
    IF TooSmall(Total, job.sector, FALSE) THEN "small"
    ELSE IF ~ntfs THEN IF Needed(FALSE) > PartWords THEN "fit" ELSE "none"
    ELSE IF job.os = "macos" THEN "no ntfs"
    ELSE IF TooSmall(Total, job.sector, TRUE) THEN "small"
    ELSE IF Needed(TRUE) > NtfsWords THEN "fit"
    ELSE IF job.sector # NtfsSector THEN "sector" ELSE "none"

\* scan_tree(), oversized_file_fallback() and ensure_fits().
Scan ==
    /\ pc = "scan"
    /\ LET ntfs == MaxFile > Fat32MaxFile IN
         /\ fs' = IF ntfs THEN "ntfs" ELSE "fat"
         /\ IF Objection(ntfs) = "none" THEN Goto("format") ELSE Return("refused", Objection(ntfs))
    /\ boot' = HasEfiBoot
    /\ UNCHANGED <<job, walk, disk, skipped, search>>

\* fatfs refuses a volume with too few clusters for FAT32.
Format ==
    /\ pc = "format"
    /\ IF fs = "fat" /\ Clusters(Volume, job.sector, Cluster) < LeastClusters
       THEN Return("failed", "format") /\ UNCHANGED <<disk, stack>>
       ELSE /\ disk' = [k \in {<<>>} |-> Dir]
            /\ stack' = <<<<>>>>
            /\ Goto("copy")
    /\ UNCHANGED <<job, fs, listing, skipped, boot, search>>

\* The next directory, the one found last.
NextDir ==
    /\ pc = "copy" /\ listing = {} /\ stack # <<>>
    /\ listing' = Listed(SX!Last(stack))
    /\ stack' = SX!Front(stack)
    /\ UNCHANGED <<pc, job, fs, disk, skipped, boot, search, end>>

\* What stands in the way of a node of this kind at path p, after which the
\* disk would look like d.
Obstacle(p, is, d) ==
    IF Refuses(p) THEN "name" ELSE IF Clash(Key(p), is) THEN "clash"
    ELSE IF Overflows(d) THEN "full" ELSE "none"

\* The entry is done with, or ends the run.
Step(cause) == IF cause = "none" THEN UNCHANGED <<pc, end>> ELSE Return("failed", cause)

\* An entry whose type cannot be read is passed over in silence.
PassOver ==
    /\ pc = "copy" /\ listing # {} /\ Current.kind = "untyped"
    /\ listing' = listing \ {Min(listing)}
    /\ UNCHANGED <<pc, job, fs, stack, disk, skipped, boot, search, end>>

MakeDir ==
    /\ pc = "copy" /\ listing # {} /\ Current.kind = "dir"
    /\ LET p  == Current.path
           d  == Put(disk, Key(p), Dir)
           no == Obstacle(p, "dir", d)
       IN  /\ disk' = IF no = "none" THEN d ELSE disk
           /\ stack' = Append(stack, p)
           /\ Step(no)
    /\ listing' = listing \ {Min(listing)}
    /\ UNCHANGED <<job, fs, skipped, boot, search>>

SkipLinkedDir ==
    /\ pc = "copy" /\ listing # {} /\ IsLinkedDir(Current)
    /\ skipped' = skipped + 1
    /\ listing' = listing \ {Min(listing)}
    /\ UNCHANGED <<pc, job, fs, stack, disk, boot, search, end>>

\* n words of the entry at p over a file that is not truncated: what is longer
\* shows behind it.
Laid(old, p, n) == IF n >= old.len THEN File("tree", p, n)
                   ELSE IF n = 0 THEN old ELSE File("mixed", <<>>, old.len)

\* create_file() opens a file that is there as it is; on NTFS File::create()
\* empties it.
Before(k) == IF fs = "fat" /\ k \in DOMAIN disk THEN disk[k] ELSE EmptyFile

\* On FAT the file is made before its source is opened.
SkipDangling ==
    /\ pc = "copy" /\ listing # {}
    /\ Current.kind \in {"file", "link"} /\ ~IsLinkedDir(Current)
    /\ Source(Current).is = "nothing"
    /\ LET p  == Current.path
           d  == IF fs = "fat" THEN Put(disk, Key(p), Before(Key(p))) ELSE disk
           no == IF fs = "fat" THEN Obstacle(p, "file", d) ELSE "none"
       IN  /\ disk' = IF no = "none" THEN d ELSE disk
           /\ skipped' = skipped + 1
           /\ Step(no)
    /\ listing' = listing \ {Min(listing)}
    /\ UNCHANGED <<job, fs, stack, boot, search>>

\* Mutant of CopyFile: a file that fails is left out.
CopyFileOrGoOn ==
    /\ pc = "copy" /\ listing # {}
    /\ Current.kind \in {"file", "link"} /\ ~IsLinkedDir(Current)
    /\ Source(Current).is # "nothing"
    /\ LET p   == Current.path
           src == Source(Current)
           d   == Put(disk, Key(p), Laid(Before(Key(p)), p, src.len))
       IN  disk' = IF Obstacle(p, "file", d) = "none" /\ src.is = "file" THEN d ELSE disk
    /\ listing' = listing \ {Min(listing)}
    /\ UNCHANGED <<pc, job, fs, stack, skipped, boot, search, end>>

\* A directory can be opened, but not read.
CopyFile ==
    /\ pc = "copy" /\ listing # {}
    /\ Current.kind \in {"file", "link"} /\ ~IsLinkedDir(Current)
    /\ Source(Current).is # "nothing"
    /\ LET p   == Current.path
           src == Source(Current)
           d   == Put(disk, Key(p), Laid(Before(Key(p)), p, src.len))
           no  == IF Obstacle(p, "file", d) = "none" /\ src.is = "dir"
                  THEN "isdir" ELSE Obstacle(p, "file", d)
       IN  /\ disk' = IF no = "none" THEN d ELSE disk
           /\ Step(no)
    /\ listing' = listing \ {Min(listing)}
    /\ UNCHANGED <<job, fs, stack, skipped, boot, search>>

\* A call on the target or the mount fails.
CopyFails ==
    /\ pc \in {"format", "copy"}
    /\ Return("failed", "io")
    /\ UNCHANGED <<job, fs, walk, disk, skipped, boot, search>>

CopyDone ==
    /\ pc = "copy" /\ listing = {} /\ stack = <<>>
    /\ IF boot THEN Return("ok", "none") ELSE Goto("search")
    /\ UNCHANGED <<job, fs, walk, disk, skipped, boot, search>>

-----------------------------------------------------------------------------
(* The loader inside the image. *)

\* eltorito_efi_image(): a catalog whose entry lies behind its sector is the
\* one that ends the program.  The image is opened as a FAT filesystem; a
\* failure only costs a warning.
Search ==
    /\ pc = "search"
    /\ entry' = IF job.record THEN EfiEntry(job.catalog) ELSE NoEntry
    /\ IF entry' = Beyond THEN Return("panicked", "entry") /\ UNCHANGED rest
       ELSE IF entry' = NoEntry \/ ~job.image.fat THEN Return("ok", "none") /\ UNCHANGED rest
       ELSE rest' = job.image.files /\ Goto("extract")
    /\ UNCHANGED <<job, fs, walk, disk, skipped, boot, found>>

\* The directories above p are made as needed.
WithParents(p) == [k \in DOMAIN disk \cup {Key(q) : q \in Prefixes(p)} |->
                     IF k \in DOMAIN disk THEN disk[k] ELSE Dir]

\* Mutant of CanHold: a file may be in the way of a directory.
CanHoldByName(p) == ~Refuses(p) /\ ~Clash(Key(p), "file")

\* Nothing is in the way of p.
CanHold(p) == /\ ~Refuses(p) /\ ~Clash(Key(p), "file")
              /\ \A q \in Prefixes(p) : ~Clash(Key(q), "dir")

Extracted(p, node) == Put(WithParents(p), Key(p), node)

\* One file: the directories above it, then the file, emptied and written.
Extract ==
    /\ pc = "extract" /\ rest # <<>>
    /\ LET p == Head(rest).path IN
         /\ CanHold(p)
         /\ disk' = Extracted(p, File("image", p, Head(rest).len))
         /\ ~Overflows(disk')
         /\ found' = (found \/ IsLoader(p))
    /\ rest' = Tail(rest)
    /\ UNCHANGED <<pc, job, fs, walk, skipped, boot, entry, end>>

\* Whatever fails may leave a file in pieces, and no loader that counts.
ExtractFails ==
    /\ pc = "extract" /\ rest # <<>>
    /\ LET p == Head(rest).path IN
         disk' \in IF CanHold(p) THEN {disk, WithParents(p), Extracted(p, File("mixed", <<>>, 0))}
                   ELSE {disk}
    /\ Return("ok", "none")
    /\ UNCHANGED <<job, fs, walk, skipped, boot, search>>

\* Mutant of ExtractDone: an image that could be extracted is a loader.
ExtractDoneAnyImage ==
    /\ pc = "extract" /\ rest = <<>>
    /\ boot' = TRUE
    /\ Return("ok", "none")
    /\ UNCHANGED <<job, fs, walk, disk, skipped, search>>

ExtractDone ==
    /\ pc = "extract" /\ rest = <<>>
    /\ boot' = found
    /\ Return("ok", "none")
    /\ UNCHANGED <<job, fs, walk, disk, skipped, search>>

Next ==
    \/ Scan \/ Format \/ NextDir \/ PassOver \/ MakeDir \/ SkipLinkedDir \/ SkipDangling
    \/ CopyFile \/ CopyFails \/ CopyDone \/ Search \/ Extract \/ ExtractFails \/ ExtractDone

Spec == Init /\ [][Next]_vars

-----------------------------------------------------------------------------
(* Correctness *)

TypeOK ==
    /\ pc \in {"scan", "format", "copy", "search", "extract", "ended"}
    /\ job \in Job
    /\ fs \in {"none", "fat", "ntfs"}
    /\ \A i \in DOMAIN stack : stack[i] = <<>> \/ \E e \in Dirs : e.path = stack[i]
    /\ listing \subseteq DOMAIN job.tree
    /\ \A k \in DOMAIN disk :
          /\ k \in Paths
          /\ disk[k].is \in {"dir", "file"} /\ disk[k].len \in Nat
          \* every node is reachable from the root
          /\ k # <<>> => Parent(k) \in DOMAIN disk /\ disk[Parent(k)].is = "dir"
    /\ skipped \in 0 .. Len(job.tree)
    /\ boot \in BOOLEAN /\ found \in BOOLEAN
    /\ entry \in NoEntry .. Beyond
    /\ result \in {"none", "ok", "refused", "failed", "panicked"}
    /\ why \in {"none", "small", "fit", "no ntfs", "sector", "format", "name", "clash",
                "full", "isdir", "io", "entry"}

\* What the size estimate covers: sectors of 512 bytes, links that mean to the
\* system what they mean in the image, names of at most 39 characters.
Estimated ==
    /\ job.sector = NtfsSector
    /\ \A e \in Entries : /\ e.seen.is = "nothing" => e.inside.is = "nothing"
                          /\ NameSlots[SX!Last(e.path)] <= 4

\* An image that was admitted is never found not to fit: not when the volume is
\* formatted, and not when half of it is copied.
AdmittedNeverFills == Estimated => why \notin {"format", "full"}

\* Two sources for one name on the target.
Collides(e) == \/ \E o \in Entries \ {e} : Key(o.path) = Key(e.path)
               \/ \E i \in DOMAIN job.image.files : Key(job.image.files[i].path) = Key(e.path)

\* Success means that every file of the image is on the target with its own
\* content and length and every directory is there, that what was skipped was
\* counted, and that nothing else was skipped; names that only their case tells
\* apart, and files the boot image brings along again, are the exception.
SuccessIsWhole ==
    result = "ok" =>
        /\ skipped = Cardinality({e \in NonDirs : IsSkipped(e)})
        /\ \A e \in Dirs : Key(e.path) \in DOMAIN disk
        /\ \A e \in NonDirs :
              \/ IsSkipped(e)
              \/ Collides(e)
              \/ /\ Key(e.path) \in DOMAIN disk
                 /\ disk[Key(e.path)] = File("tree", e.path, Source(e).len)

\* When no warning is given, neither of a missing loader nor of a skipped file,
\* a boot loader is on the target, in one piece.
SilenceMeansBootable ==
    result = "ok" /\ boot /\ skipped = 0 =>
        \/ \E k \in DOMAIN disk : /\ IsLoader(k)
                                  /\ disk[k].is = "file"
                                  /\ disk[k].of \in {"tree", "image"}
        \/ \E e \in NonDirs : IsLoader(e.path) /\ Collides(e)

\* The walk through the catalog ends where UEFI looks: at the first entry of
\* the first section for EFI, of those that can be reached, or at none.  It
\* leaves the sector, and panics, only for a section for EFI whose header is the
\* last slot, when there is nothing to boot.
CatalogWalkIsRight ==
    entry # NoEntry \/ pc = "extract" \/ (result = "ok" /\ ~boot) =>
        LET boots == IF job.record THEN BootEntry(job.catalog) ELSE NoEntry
        IN  IF entry = Beyond
            THEN boots = NoEntry /\ Slots - 1 \in EfiSections(job.catalog)
            ELSE entry = boots

\* What the comment in copy_tree() says: symlinked directories are skipped.
LinkedDirsSkipped == why # "isdir"
=============================================================================
