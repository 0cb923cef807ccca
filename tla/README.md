# bufusb: models, checks and proofs

bufusb flashes an image onto a USB drive, byte for byte (dd mode) or by laying a
partition table and a filesystem on the drive and copying the files of an ISO
into it (copy mode). What it overwrites is gone, so its correctness is about what
lands where, what is left alone, when it may say that it succeeded, and what the
rest of the machine (the kernel, udev, a desktop, another process) does in
between. This directory holds TLA+ models of that, the TLC configurations that
check them on small instances, and TLAPS proofs for every value of the constants.

Paths below are relative to the repository. "mod.rs" is
libbuf/src/copy/mod.rs, "ntfs.rs" is libbuf/src/copy/ntfs.rs; writer.rs,
validate.rs, fakecheck.rs, mode.rs and privilege.rs are in libbuf/src, main.rs
is in buf-cli/src. `PROJECT.json` maps every definition to the lines it stands
for.

## Inventory

| Component | State it keeps | Operations | What makes it correct | Modules |
|---|---|---|---|---|
| Command line, elevation (main.rs, privilege.rs) | options, rights, prompts answered, exit status | parse, relaunch under doas/sudo/run0/pkexec or by UAC, settle a mode, ask, flash | what is written is what was asked for and agreed to, through every relaunch; the exit status of the process that flashes is true, and handed up as far as a process waits | FrontEnd |
| Mode detection (mode.rs) | none | `sniff`, `auto`, `mode_risky` | an image is written in a mode it is not made for only if the user named the mode, and took the risk where the other mode would do | FrontEnd |
| dd mode (validate.rs, writer.rs) | position in source and target, `bytes_written`, the drive's cache | `validate`, `write` (read a block, pad it, write it), sync | every byte in its place, nothing outside the range, success only for a durable image | Alignment, DdWriter |
| Counterfeit check (fakecheck.rs) | markers written, markers that came back | `check`, `probe`, `positions`, `fill` | stays in the range, never refuses a good range, refuses a limbo drive | Alignment, FakeCheck |
| Sector cache (mod.rs) | map of cached sectors, position | `read`, `write`, `flush`, `seek`, drop | a flat device, whatever fails; bounded | SectorBytes, BlockDevice, SectorCache |
| Layout, GPT, partition window (mod.rs, ntfs.rs) | sectors of the target, position in the window | layout arithmetic, `write_gpt`, `Partition` read/write/seek | both tables stay readable whatever is written in the partitions | CopyLayout, GptDisk |
| Copy pipeline (mod.rs, ntfs.rs, main.rs) | mounts held, files copied, skipped and passed over, retry counters | `run` (both), `format_and_copy`, `reread_partitions`, `wait_for_node`, `NtfsMount`, `MountGuard`, the Windows format script | no trace without consent, no stale partition formatted, no incomplete success | CopyRun |
| Target preparation (mod.rs) | what /proc/mounts said; on Windows the volumes locked | `prepare_target` of three systems, `is_partition_of`, `PrepGuard` | nothing it can see of the target stays mounted, nothing else is unmounted | PrepareTarget |
| Tree scan, tree copy, El Torito (mod.rs, ntfs.rs) | a stack of directories, the new filesystem, counters | `scan_tree`, `ensure_fits`, `copy_tree`, `copy_tree_native`, `resolve_symlink`, `eltorito_efi_rba`, `walk_fat` | what was admitted fits; success means a whole copy; no loader is missing in silence | Fat32, ElTorito, CopyTree |
| Drive list (list.rs) | none | enumerate and print | formatting and I/O only | not modelled |
| Logging, progress (logger.rs, lib.rs) | log file, progress bar | | no effect on a drive | not modelled |

How they interact: main.rs settles the mode and calls `validate` and `write`, or
`copy::run`. Both call `prepare_target` and, if asked to, `fakecheck::check` before
the first byte of their own. `copy::run` mounts the image, scans it, and either
goes on itself (FAT32) or hands over to ntfs.rs (a file over 4 GiB). `write_gpt`
and fatfs write through a `SectorCache`, fatfs through a `Partition` window on
top of it. ntfs.rs leaves formatting and mounting to mkfs.ntfs and the kernel,
which see the target through the kernel's own copy of the partition table.

The program is single-threaded and its parts call each other. What is hard is
not threads but everything around: calls that fail midway, a source file that
changes, a kernel that still believes in the old table, a desktop that mounts what
it sees, drives that lie, caches that are lost, and arithmetic on sectors. The
`hazards` of `PROJECT.json` list them at their lines, with the properties that
would catch each.

## Modules

### SectorBytes, BlockDevice, SectorCache

`SectorCache` has one action for each call of the type: the owner holds it by
`&mut`, so calls do not interleave, but any device call inside one may be refused.
A helper (`load`, `overwrite`, `flush_dirty`) is a set of outcomes
`[result, disk, map]`; a flush that is refused leaves some of the lowest dirty
sectors written, as the ascending runs of `flush_dirty` do. `BlockDevice` is what
the layers above are promised, a flat array where a failed call changes nothing a
read can see, and `ImplementsDevice` is the refinement: `store <- Visible(disk, map)`,
`backing <- disk`. A byte position is the pair of its sector and its offset.

### Alignment, DdWriter

`DdWriter` walks through `validate` and `write` with one action between any two points
where something else may happen. Byte *i* of the source is written *i* on the
target, so that "in its place" can be said at all; padding and fake-check markers
have contents of their own. `Resize` is another process that truncates or extends the
source (writer.rs:143 reckons with one); a source is `frozen` if there is none.
The fake check appears as the set of blocks it may overwrite; what it finds is
FakeCheck's subject. There are two sector sizes: the writer pads to `sector`, which
is the logical one on unix and the physical one on Windows (writer.rs:334), while the device
takes whole logical ones.

### FakeCheck

`check`, `probe` and the drive below it: genuine, limbo (forgets what lies past its
real size) or wraparound (lays it over its beginning), the fakes of the tests in
fakecheck.rs. The fill of a marker depends on its address, so a byte of a marker is
the address it was sent to. Calls on a `flaky` drive may fail. The cache of a drive
is not modelled; fakecheck.rs names it as out of its reach.

### CopyLayout, GptDisk

`CopyLayout` is the arithmetic of both layouts as operators of the sector size and the
number of sectors. `GptDisk` writes the table as `write_gpt` does, one `gpt_write_at`
an action, each of which may stop midway, then lets fatfs write through the
`Partition` window, byte position by byte position, or the kernel write anywhere in
partition 1. The content of a sector is what matters of it: a header keeps its
references (its own sector, the other one, the array, the usable range), CRCs and
GUIDs are left out. The device is the flat one of `BlockDevice`.

### Fat32, ElTorito, CopyTree

`CopyTree` is what becomes of an image's files: the scan, the choice of the
filesystem, the size check, then the copy one directory entry an action, onto FAT32 or
onto NTFS, and the extraction of the EFI loader from the boot image. The tree is the
sequence of its entries in the order of `read_dir`; `stack` and `listing` are where the loop of `copy_tree` is in it. A link has two meanings, `seen`
(what the operating system opens, which `scan_tree` goes by) and `inside` (what
`resolve_symlink` makes of it): where they differ is where the scan and the copy may
disagree. A file of the new filesystem is the entry its content came from, and a
length; names go through `Key`, which takes the case away where the filesystem does. What the
trees of `Jobs` must be is what a mounted image gives (`IsTree`): a directory lists a name once, and what
is listed lies below directories.

`Fat32` has the estimate of mod.rs (cluster size, tables, directory entries) next to
what fatfs 0.3 really allocates, so that "it fits" is arithmetic on real sizes. All
lengths are words of eight bytes: the largest sizes stay within TLC's integers,
and a FAT32 entry is half a word.
`ElTorito` has the walk of `eltorito_efi_rba` over the slots of a catalog, and
the entry that UEFI boots, defined by sets, to compare it with. A walk that leaves the sector
is the entry `Beyond`, on which `CopyTree` ends in a panic; `BootEntry` never is it.

### CopyRun

Copy mode as a whole, on Linux, Windows and macOS: a dry run, then the flash of the same image onto
the same target by a user who may decline. One action for each call of the two `run()`s
and of `format_and_copy`, in their order, each of which may fail. The state
relates what the program did (`table`, `formatted`, `copied`, `skipped`, `passed`, `stable`, the
mounts `iso` and `part`) to what the machine believes (`kernel`, the table the kernel
knows; `live`, a partition that a desktop has mounted). Outside the program: `Automount`,
`Eject`, `Reprobe` (udev) and `WriteBack` (a filesystem left mounted writes its
metadata), enabled at any moment. `grip` is how well `prepare_target` did: "full" when it took every
filesystem off the target, "loose" when it went on without having seen them all: /proc/mounts cannot be
read (mod.rs:1461), a filesystem is on the whole disk (mod.rs:1488), on macOS the target is no device
(mod.rs:1502), on Windows its name has no drive number (mod.rs:1521), a volume cannot be asked for its
drive (mod.rs:1536) or refuses to be dismounted (mod.rs:1694). Whatever was mounted may then stay so. On Windows the volumes that `prepare_target` locked keep
the desktop out until the guard is dropped (`Locked`). `RereadFails` is `BLKRRPART` refused, retried while attempts are left;
`WithoutReread` is Windows going on without (ntfs.rs has the script that formats ask for one);
`WaitForNode` is the wait for the partition's device node, `FormatVolume` the script that formats on
Windows. macOS has no NTFS branch: a large file ends the run before anything is
written. The job (`Job`) says what kind of image
and target it is; DdWriter, FakeCheck, GptDisk, PrepareTarget and CopyTree say what one action of
this module does in detail.

### PrepareTarget

`prepare_target` of the three systems. A device name is a sequence of
tokens, as fine as `is_partition_of` can tell: `<<"sd", "b", "1">>`. `partition_node` of ntfs.rs
builds the names of partitions and serves as the independent definition of what a
partition of a disk is. `mounts` counts mounts of each device, `todo` the lines of
/proc/mounts still to be worked off, or the volumes still to be asked which drive they are on, `late`
what others mounted since. A /proc/mounts that cannot be read counts as empty (mod.rs:1461). On
Windows `held` are volumes that others have open, which makes a lock fail; it is tried
`LockTries` times, a volume that stays busy ends the run and drops the locks taken so far. On
macOS one call of diskutil does it all, or fails.

### FrontEnd

From the command line to a flash, with the relaunch: a process without rights
builds a new command line option by option, and the new process starts all over
again. On unix the old one waits and exits as the new one did; the new one may be
killed. On Windows the old one is gone with status 0 once the window of the new one is
open, and somebody may close that window; `told` is the status of the first process. An image is the boot
marker and the identifiers of its volume descriptors.

## Runs

TLC finishes each in about a minute. "Mutants" in the modules (`MakeRoomLate`,
`ScanAndPrepare`...) are what a plausible bug would make of a definition; replacing
one by the other makes TLC report the property named in `PROJECT.json`, so that
every property is known to depend on the code.

| Run | Bounds | States | Shows |
|---|---|---|---|
| sector_cache | 3 sectors of 2 bytes, 2 values of a byte, cap 2 | 139 968 | type, bound, clean = device, and the refinement of BlockDevice |
| dd_writer | sector 2, logical sectors of 1 and 2, blocks to 3, lengths 0..5 | 990 438 | placement, confinement, durability, size check, nothing written twice, termination |
| fake_check | blocks of 2, 3 gaps, drives up to 11 bytes | 429 072 | range, no false alarm, no false pass, the estimate, wraparound |
| fake_check_estimate | the same | violation | the interval in the message is wrong for wraparound drives |
| gpt_disk | sectors of 1 and 2 bytes, targets of 0..20 bytes | 14 706 | layouts fit, tables readable, signatures gone, loader whole |
| copy_tree | five families of images and drives, see below | 274 956 | what is admitted fits, success is a whole copy, no silent loss of the loader, the catalog walk and its one panic |
| copy_tree_links | the same | violation | a linked directory is opened as a file |
| copy_run | 3 systems, 2 files, 2 attempts of each loop | 1 198 944 | consent, stale partitions, complete success, termination |
| copy_dry_run | the same | violation | a dry run lets pass what the flash refuses |
| prepare_target | 3 systems, 3 disks with 2 partitions each, 2 mounts of a device, 2 events by others, 2 tries of a lock | 3 513 144 | only late mounts remain, disks named by letters rob nobody |
| prepare_others | the same with a fourth disk | violation | loop10 is unmounted for loop1 |
| front_end | unix and Windows, 10 kinds of image, 2 relaunches | 452 544 | what was asked, risk only where named and agreed to, exit status |

Why the bounds are enough. *sector_cache*: three sectors over a cap of two make every third sector touched evict; two bytes make
whole and partial writes differ. *dd_writer*: blocks below, at and above a sector,
final blocks with and without padding, and targets one byte too small all occur,
two blocks with a third, short one fit in five bytes, and a padded block can run past
a drive of whole logical sectors. *fake_check*: markers that
coincide, touch and lie apart, ranges of fewer than two blocks and real sizes at every byte occur.
*gpt_disk*: the primary table fills its space to the last sector in one sector size
and leaves room in the other; arrays and loader are not whole sectors; targets
go from none to more than the floor. *copy_tree*: real sizes, in five families.
Drives filled to the last cluster the estimate allows, one word and some clusters
beyond (`Edges`: at the floor, on both sides of the cluster sizes of 260 MiB and 8 GiB, with long and short
names, many directories and few, files at 4 GiB - 1 and one word more); drives with sectors of 4096 bytes; every pair of entries of any kind whose names
are the same but for the case (`Pairs`); loaders in the tree, in the boot image, as
links and as directories (`LoaderJobs`); every catalog of six slots with up to four headers (`CatalogJobs`).
*copy_run*: a loop of two attempts has a first
one that fails and a last one; two files give any two of copied, skipped,
passed over and outstanding. *prepare_target*: a name that begins another one, with letters and with
digits, partitions of one and two digits, double mounts, a lock that fails once and one that fails for good. *front_end*: the scan
limit of descriptors is met from both sides; a second relaunch happens only
below an escalator that gives no rights. `MaxDepth`, `MaxNoise`, `MaxMounts`, `MaxMounted`, `MaxLen`,
`MaxSize` and `MaxBytes` are the only bounds that are not in the code.

Fairness. `DdWriter!FairSpec` and `CopyRun!FairSpec` assume weak fairness of the program's next
step as a whole (in CopyRun without the desktop, udev and the user): every system call and every tool the
program runs returns, and the code goes on. Nothing is assumed about which way a
call returns, so `Terminates` does not rest on a retry that works. Every other run
checks safety only and needs none. Deadlock is not checked where the program ends.

## What the violations show

Each is a disagreement between the code and what the repository says of it; `PROJECT.json` quotes both.

- **The estimate of the fake check** (fakecheck.rs:82). On a wraparound drive the lowest bad
  marker is one a later marker overwrote; it says nothing about the real size.
- **The dry run** (ntfs.rs:107). The sector size of the target is checked behind the dry run's return,
  the unmounting and the fake check: the flash refuses when the target was taken from whatever had it
  mounted and, with the fake check on, when the markers have overwritten its table. In the trace the
  fake check is off, and only the former was done.
- **Names that end in a digit** (mod.rs:1486). The p between disk and partition is optional for
  every disk, so devices whose names go on with digits pass for partitions.
- **Links to directories** (mod.rs:469). Both copies skip a directory behind a link only if the
  host resolves the link. One that only resolves inside the image, an absolute one, is opened as
  a file; its first read fails, and with it the copy, when the drive is overwritten already.

Two more disagreements with docs.md have no run of their own, since the property that a run checks anyway
states by case what the code does:

- docs.md:198-200 says that a mode the image is not made for is warned of. `mode_risky` (mode.rs:121) lets an image that neither mode is
  made for pass without a word: `--mode dd` writes it, and all it takes is the ordinary confirmation.
  `NeverRiskyUnasked` says so: such an image is written only in dd mode, and only when the user named that mode;
  every other image in the wrong mode also needs the user's agreement to the risk, or `--force`.
- docs.md:351 lists 0 as success. On Windows the first process exits with 0 once the elevated window is open (privilege.rs:203), whatever
  becomes of the flash. `ExitTellsTheEnd` says that the process which flashes exits with 0 only when
  that is earned (`Earned`), and what the first one exits with: the same, except on Windows after a launch, when it is 0.

Also met on the way; no sentence of the repository contradicts these in so many words:

- `prepare_target` succeeds, with a warning at most, and the flash goes on, when it cannot see what is mounted: /proc/mounts that cannot be
  read (mod.rs:1461), a volume of Windows that cannot be asked (mod.rs:1536) and the others listed under
  CopyRun. What stays mounted may write over the flash, which then still ends in success. The last part of `SuccessIsComplete` names
  this case (`grip = "loose"`) and a desktop that mounts by itself as the only two;
- an entry whose type cannot be read is passed over by the scan and the copy and not counted as skipped
  (mod.rs:438, ntfs.rs:211): `SuccessIsComplete` and `SuccessIsWhole` say that nothing else goes missing
  without a report;
- a filesystem made on the whole disk, without partitions, is not unmounted (mod.rs:1488);
- a source that grows between two reads leaves padding in the middle of the image: the loop pads any
  short block, not only the last (writer.rs:105), and `FrozenImageInPlace` is about frozen sources for that reason;
- on Windows the padding of the last block may reach past the end of a drive whose logical sectors are
  smaller than its physical ones; the flash then fails;
- sectors of 4096 bytes: a drive at the floor of 64 MiB has too few clusters for FAT32, and the
  format fails after the table was written (mod.rs:90);
- an El Torito header in the last slot of the catalog makes `eltorito_efi_rba` read beyond the sector and
  panic (mod.rs:530). `CatalogWalkIsRight` says that only such a catalog does, and that there
  is nothing to boot in it;
- two names that differ only in their case are one file on FAT, and the second is written over the
  first without emptying it (mod.rs:465);
- on Windows the NTFS branch goes on when the kernel was not made to re-read the table;
- `BUF_SUDO` naming a program that does not give root makes every process launch another;
- mkfs.ntfs is run with -F, so that a desktop which mounts the new partition at once does not stop it.

## Proofs

Every theorem is proved for all values of the constants that satisfy the
assumptions in the modules, which TLC evaluates in the runs: sector, block and cache sizes are positive, a
MiB holds the primary table (`AlignAssumption`), the largest drive holds a block, names of
disks and partition numbers are not empty, the tree of an image is one (`JobsAssumption`), folding a
name twice is folding it once (`NamesAssumption`) and makes it no longer (`SlotsOfNamesAssumption`), MiB, the floor and
the sector of NTFS have the values of the code where sizes are reckoned (`WordsAssumption` of Fat32), retry loops try at least once, finite sets are finite, a physical
sector is a whole number of logical ones (`LogicalSizeAssumption`), and no disk has the name of a partition of another one that is named by
letters (`DisksApart`).

**SectorCacheProofs.** `IInv` is the three invariants together: clean sectors must agree
with the device for an eviction to lose nothing, and the cap is kept only by
making room first. Each helper has a lemma on its outcomes (`FlushDirtySound`,
`MakeRoomSound`, `LoadSound`, `OverwriteSound`, `ModifySound`): what is visible is unchanged
unless it says otherwise. Each call then maps to a step of BlockDevice or a
stutter, which gives `Refinement`.

**DdWriterProofs.** The inductive invariant adds to the type what `validate` established
(`Params`), what the target holds at every address (`TargetInv`), and how the loop's
counters relate for a frozen source (`LoopInv`: the position is offset + bytes read,
a short block is the last). From it follow `Confined`, `InPlace`, `SuccessMeansDurableImage` and `AdmittedNeverOverruns`.
`WrittenOnce` holds for a source that changes as well: its invariant `Passed` says that what is on the target
lies behind the file position.
The arithmetic of rounding it needs comes first, as in the other two modules that divide.

**FakeCheckProofs.** `PositionsInRange` and `BlocksApart` are about the marker positions for any
range, number of markers and block size. The invariant says which markers are
in the store in which phase; a later marker may have destroyed an earlier one unless no
two share storage (`NoShare`), which is what `WraparoundNeedsCollision` turns on. `EstimateIsNarrow` needs that no
marker lies between the last good and the first bad one, and then that neighbours are not far apart
(`GapBound`): the least index whose marker is not below the bad one comes from the library's theorem on
minimal elements.

**GptDiskProofs.** `LayoutFits` is the arithmetic: a target that passes the size checks leaves the
partitions in the usable range. The invariant follows the table as it is written; `WindowInPartition` shows
that no position of the window leaves partition 1, so that no write reaches what was proved of the rest.

**CopyRunProofs.** The invariant says what each step may rely on: `Asked` (what writes runs for
real and with consent), `Addressed` (the node is that of the new table), `Written`, `MountedWhile`, `Sorted`
(copied files are readable, the rest is skipped or passed over), `Calm` (nothing is written before the target is prepared,
and with no desktop nothing is mounted once `prepare_target` took it all off) and `Complete`. `NeverFormatsStale` alone is not inductive: it needs that the
kernel re-read the table and that the table is not written again. On Windows the same
follows from the script, which formats what it has just re-read.

**PrepareTargetProofs.** `PartitionsRecognised` is about names alone: whatever `partition_node` builds,
`is_partition_of` recognises, by the theorems on sequences. `Covered` then counts: a mounted partition of the target is
still to be unmounted or came late, for every name and every number of mounts; on Windows a volume
of the target is still to be asked, locked, or came late. `LettersRobNone` adds that every
line still to be unmounted is one of the target, which for names that end in a letter is
`DisksApart`.

**FrontEndProofs.** The invariant has one part for each thing that must survive a
relaunch or lie behind a step: `Kept` (the options of every process are the user's, from `ArgvKeeps`), `Single` (one mode
at most), `Chosen` (the mode settled on is one of the candidates), `Brave` (a risky mode was
agreed to), `Capable` (copy mode extracts only what it can read), `Flashing` (no dry run, consent, the check that was asked for)
and `Honest` (a status of 0 is earned, and handed up by every process that waits; on Windows the first
one has told 0 once it launched another). "Behind a step" means that the process is there or that
something was written: what was written stays, but the process that waits knows nothing of it.

**CopyTreeProofs.** Two algorithms and a run. `WalkFindsBootEntry` is about the recursion of
`eltorito_efi_rba`, for every catalog: where it ends, and that it
leaves the sector only for an EFI header in the last slot. It takes that the recursion defines a function
at all (`WalkExists`, from the least slot where it would not), and that the slots it visits are those at which UEFI takes a section to begin. The walk through a
tree is about which entries are behind it (`Done`): everything but what lies in the listing, below an
entry of it, or below a directory on the stack. These parts of the tree never overlap (`Apart`), so that
one entry more is behind after each action (`HandleWalks`), none after the listing of a directory
(`NextDirWalks`), and all when both are empty (`WalkEnds`). The invariant says of what lies behind that its directories are made,
its files are whole and what was skipped is counted (`CopyOK`). For a file to be whole nothing else may have
been on the disk under its name, which needs that, while the tree is copied, the disk holds only what lies behind (`Known`); for the disk to be a tree, that
every directory which is listed or waits was made (`DiskOK`). `Bootable` puts both together: a loader `scan_tree` saw was
copied whole if nothing was skipped, and one that extraction counted is there (`LoaderOK`).

`NeverFills` compares two sums: what `scan_tree` reckons for the entries of the image, and the clusters in
use on the disk. While the tree is copied, an entry that is done with accounts for every node but the
root: it has the node's key and kind, and is no shorter (`MadeOf`). Names that collide and files
that are laid over others only make this an injection, not a bijection. So what the nodes need is bounded
by what the entries were reckoned to need (`NodesNeed`, by induction over the set of nodes): a file by its own rounded
length, a directory by one cluster and 128 bytes for each node in it (`DirectoryNeeds`), each of which lies in one
directory. The bound of `run` then leaves at least as many clusters as are used, and a volume above the floor has
enough of them to be FAT32, for each of the five cluster sizes (`ClusterSizes`, `RoomOnVolume`). The sums are those of the
community modules; that their recursion is a function and adds (`SumExists`, `SumAdds`, `SumFacts`) is
proved from well-foundedness, since no induction theorem of the library can be used here. `Estimated` keeps to what
the estimate reckons with: nothing is claimed of names of more than 39 characters, sectors of 4096 bytes or links
that dangle outside the image.

Only model-checked: liveness (`Terminates`, twice), since fairness and ENABLED are out of the prover's
reach. Every safety invariant and action property of a passing run is a theorem.

## What the models leave out

- A sector is written whole or not at all; a device that tears one is not modelled.
- Encodings: CRCs, GUIDs, UTF-16 names, labels, sizes with suffixes, the quoting of a Windows command
  line. What they could break is not what the properties are about.
- fatfs is the clusters it allocates (Fat32) and the bytes it writes in its window (GptDisk);
  mkfs.ntfs and the kernel's filesystems write in their partition, and that is all.
- Read errors of the mounted image: one failing action of CopyTree and of CopyRun, whatever the file.
- The cache of a drive under the fake check, which fakecheck.rs itself calls out of its reach.
- On Windows a process that is killed before it has opened the elevated window: nothing was launched then.

### Not modelled

- list.rs (`--list`): it asks lsblk, diskutil or SetupDi and prints a table. It keeps no state, and a
  flash uses nothing of it but the wording of messages.
- logger.rs and the progress bar: no effect on a drive, on the order of calls or on the exit status.

## What could follow

1. The `Partition` window over a `SectorCache`, composed, so that GptDisk's device is not only
   assumed but instantiated: SectorCacheProofs proves the flat device, GptDisk starts from it.
