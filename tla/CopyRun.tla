------------------------------ MODULE CopyRun ------------------------------
(***************************************************************************)
(* Copy mode from the command line to the last sync: write_copy() of       *)
(* buf-cli/src/main.rs, run() of libbuf/src/copy/mod.rs and, when a file   *)
(* is too large for FAT32, run() and format_and_copy() of                  *)
(* libbuf/src/copy/ntfs.rs, on Linux, on Windows and on macOS.             *)
(*                                                                         *)
(* A user tries --dry-run first and then flashes, with nothing changed in  *)
(* between.  Every call may fail; a desktop may mount what the kernel sees *)
(* on the target and let it go again, and somebody else, udev on Linux,    *)
(* may make the kernel look once more, at any moment.                      *)
(***************************************************************************)
EXTENDS Integers, FiniteSets

CONSTANTS
    Files,           \* files and links to files of the image
    RereadAttempts,  \* times BLKRRPART is tried
    NodeTries        \* times the partition node is looked for

ASSUME FilesAssumption == IsFiniteSet(Files)
ASSUME TriesAssumption == RereadAttempts \in Nat \ {0} /\ NodeTries \in Nat \ {0}

VARIABLES
    pc,        \* step of the program
    round,     \* "dry" or "real"
    job,       \* the image, the target and the options
    foretold,  \* how the dry run ended
    result,    \* how this run ended
    consent,   \* "yes" once the user passed --force or answered y
    tries,     \* attempts made by the retry loop that is running
    grip,      \* "full" once prepare_target() took every filesystem off the target,
               \* "loose" once it returned without having seen them all
    iso, part, \* the image's mount, and that of the new NTFS partition
    table,     \* partition table on the target; "old" as long as nothing is written
    kernel,    \* partition table as the kernel knows it
    live,      \* the table whose partition a desktop has mounted, if any
    formatted, \* the table whose first partition was formatted, if any
    damage,    \* whether a mounted filesystem wrote over what the program wrote
    copied,    \* files written to the new filesystem
    skipped,   \* files reported as unreadable
    passed,    \* files passed over in silence
    stable     \* files known to be beyond every cache

run    == <<pc, result, tries>>
mounts == <<iso, part>>
disk   == <<table, formatted, damage>>
files  == <<copied, skipped, passed, stable>>
plan   == <<round, job, foretold>>
vars   == <<plan, run, consent, grip, mounts, kernel, live, disk, files>>

Job == [os       : {"linux", "windows", "macos"},
        \* whether copy mode takes the image and the target, and they fit
        match    : {"unusable", "too small", "fits"},
        \* the filesystem the largest file needs
        fs       : {"fat32", "ntfs"},
        \* the logical sector of the target: of 512 bytes, or larger
        sector   : {"512", "larger"},
        \* the fake check: left out, or what the drive is
        check    : {"off", "genuine", "counterfeit"},
        \* where the EFI boot loader is
        boot     : {"tree", "elsewhere"},
        \* the files that can be opened; the others are dangling links
        readable : SUBSET Files,
        \* an old partition is mounted at first
        mounted  : {"none", "old"},
        \* a desktop that mounts by itself
        desktop  : {"quiet", "automounts"}]

Steps == {"start", "survey", "mount", "scan", "prepare", "fakecheck", "open", "gpt",
          "format", "loader", "reread", "node", "mkfs", "ntfsmount", "copy", "eltorito",
          "unmount", "sync", "release", "ended"}

Goto(step) == pc' = step /\ tries' = 0 /\ UNCHANGED result

\* The run returns: every guard in scope is dropped.
Return(r) == pc' = "release" /\ result' = r /\ tries' = 0

\* Nothing but the program counter changes.
Only == UNCHANGED <<plan, consent, grip, mounts, kernel, live, disk, files>>

Init ==
    /\ pc = "start" /\ round = "dry"
    /\ job \in Job
    /\ foretold = "none" /\ result = "none" /\ consent = "none" /\ grip = "none"
    /\ tries = 0
    /\ iso = "no" /\ part = "no"
    /\ table = "old" /\ kernel = "old"
    /\ live = job.mounted
    /\ formatted = "none" /\ damage = "none"
    /\ copied = {} /\ skipped = {} /\ passed = {} /\ stable = {}

-----------------------------------------------------------------------------
(* Up to the dry run's return: nothing on the target may change. *)

Start ==
    /\ pc = "start"
    /\ \/ /\ round = "dry"
          /\ Goto("survey")
          /\ UNCHANGED consent
       \/ /\ round = "real"
          /\ \/ consent' = "yes" /\ Goto("survey")
             \/ consent' = "no" /\ Return("declined")
    /\ UNCHANGED <<plan, grip, mounts, kernel, live, disk, files>>

\* The checks that need neither the tree nor a mount.
Survey ==
    /\ pc = "survey"
    /\ \/ IF job.match # "unusable" THEN Goto("mount") ELSE Return("refused")
       \/ Return("failed")   \* the target cannot be asked for its size
    /\ Only

Mount ==
    /\ pc = "mount"
    /\ \/ iso' = "mounted" /\ Goto("scan")
       \/ iso' = iso /\ Return("failed")
       \* a mounted image whose volume Windows does not name stays mounted
       \/ job.os = "windows" /\ iso' = "stuck" /\ Return("failed")
    /\ UNCHANGED <<plan, consent, grip, part, kernel, live, disk, files>>

\* The files do not fit, or need a filesystem that macOS cannot make.
Unfit == job.match # "fits" \/ (job.os = "macos" /\ job.fs = "ntfs")

\* Mutant of Scan: a dry run goes as far as preparing the target.
ScanAndPrepare ==
    /\ pc = "scan"
    /\ \/ IF Unfit THEN Return("refused") ELSE Goto("prepare")
       \/ Return("failed")
    /\ Only

\* scan_tree(), the choice of the filesystem, ensure_fits(), and the dry run's
\* return, which comes in the same place in both run()s.
Scan ==
    /\ pc = "scan"
    /\ \/ IF Unfit THEN Return("refused")
          ELSE IF round = "dry" THEN Return("ok") ELSE Goto("prepare")
       \/ Return("failed")
    /\ Only

-----------------------------------------------------------------------------
(* Taking the target over. *)

\* prepare_target(): a partition that cannot be unmounted, or a volume that
\* cannot be locked, ends the run.  It goes on with what it does not see still
\* mounted: all of it when /proc/mounts cannot be read or the name of the target
\* has no drive number, a filesystem on the whole disk, a volume that cannot be
\* asked for its drive or whose dismount is refused.
Prepare ==
    /\ pc = "prepare"
    /\ \/ grip' = "full" /\ live' = "none" /\ Goto("fakecheck")
       \/ grip' = "loose" /\ live' = live /\ Goto("fakecheck")
       \/ UNCHANGED <<grip, live>> /\ Return("failed")
    /\ UNCHANGED <<plan, consent, mounts, kernel, disk, files>>

\* The markers start at the first byte: the old table is gone, be the drive
\* genuine or not.
FakeCheck ==
    /\ pc = "fakecheck"
    /\ \/ /\ job.check = "off"
          /\ Goto("open")
          /\ UNCHANGED table
       \/ /\ job.check # "off"
          /\ table' = "partial"
          /\ IF job.check = "counterfeit" THEN Return("refused") ELSE Goto("open")
       \/ /\ job.check # "off"
          /\ Return("failed")   \* the target cannot be opened
          /\ UNCHANGED table
    /\ UNCHANGED <<plan, consent, grip, mounts, kernel, live, formatted, damage, files>>

\* The NTFS layout takes one sector size only.
Open ==
    /\ pc = "open"
    /\ \/ IF job.fs = "ntfs" /\ job.sector = "larger" THEN Return("refused") ELSE Goto("gpt")
       \/ Return("failed")
    /\ Only

\* write_gpt(), with the flush at its end.
Gpt ==
    /\ pc = "gpt"
    /\ \/ table' = "new" /\ Goto(IF job.fs = "ntfs" THEN "loader" ELSE "format")
       \/ table' = "partial" /\ Return("failed")
    /\ UNCHANGED <<plan, consent, grip, mounts, kernel, live, formatted, damage, files>>

\* fatfs formats the window over the new partition itself, whatever the kernel
\* thinks of the table.
Format ==
    /\ pc = "format"
    /\ \/ formatted' = "new" /\ Goto("copy")
       \/ formatted' = formatted /\ Return("failed")
    /\ UNCHANGED <<plan, consent, grip, mounts, kernel, live, table, damage, files>>

\* The loader partition, and the sync before the table is used.
PutLoader ==
    /\ pc = "loader"
    /\ Goto("reread") \/ Return("failed")
    /\ Only

-----------------------------------------------------------------------------
(* The kernel and the new table. *)

\* BLKRRPART: refused while a partition is in use, and while udev still holds
\* the disk.
Busy == job.os = "linux" /\ (live # "none" \/ part = "mounted")

\* What follows: the FAT32 run is over either way; the NTFS run may not go on
\* with a table that the kernel does not know, except on Windows.
AfterReread ==
    IF job.fs = "fat32" THEN Return("ok")
    ELSE Goto(IF job.os = "linux" THEN "node" ELSE "mkfs")

WithoutReread ==
    IF job.fs = "ntfs" /\ job.os = "linux" THEN Return("failed") ELSE AfterReread

\* Mutant of RereadFails: a table that was not re-read is only logged.
RereadGivesUp ==
    /\ pc = "reread" /\ job.os # "macos"
    /\ \/ /\ job.os = "linux" /\ tries + 1 < RereadAttempts
          /\ tries' = tries + 1
          /\ UNCHANGED <<pc, result>>
       \/ AfterReread
    /\ Only

\* Mutant of RereadFails: attempts are not counted.
RereadForever ==
    /\ pc = "reread" /\ job.os # "macos"
    /\ UNCHANGED run
    /\ Only

\* Mutant of RereadFails: one attempt more than there are.
RereadOnceMore ==
    /\ pc = "reread" /\ job.os # "macos"
    /\ \/ /\ job.os = "linux" /\ tries < RereadAttempts
          /\ tries' = tries + 1
          /\ UNCHANGED <<pc, result>>
       \/ WithoutReread
    /\ Only

\* On Linux EBUSY is tried again while attempts are left, any other error is
\* not; Windows is asked once.
RereadFails ==
    /\ pc = "reread" /\ job.os # "macos"
    /\ \/ /\ job.os = "linux" /\ tries + 1 < RereadAttempts
          /\ tries' = tries + 1
          /\ UNCHANGED <<pc, result>>
       \/ WithoutReread
    /\ Only

\* macOS is not asked.
RereadWorks ==
    /\ pc = "reread"
    /\ ~Busy
    /\ kernel' = IF job.os = "macos" THEN kernel ELSE table
    /\ AfterReread
    /\ UNCHANGED <<plan, consent, grip, mounts, live, disk, files>>

\* wait_for_node(): the node is there, or not yet.
WaitForNode ==
    /\ pc = "node"
    /\ \/ Goto("mkfs")
       \/ IF tries + 1 < NodeTries
          THEN tries' = tries + 1 /\ UNCHANGED <<pc, result>>
          ELSE Return("failed")
    /\ Only

\* mkfs.ntfs on the node: the first partition of the table the kernel knows.
Mkfs ==
    /\ pc = "mkfs" /\ job.os = "linux"
    /\ \/ formatted' = kernel /\ Goto("ntfsmount")
       \/ formatted' = formatted /\ Return("failed")
    /\ UNCHANGED <<plan, consent, grip, mounts, kernel, live, table, damage, files>>

\* The script of the Windows format_and_copy(): it has Windows read the table
\* before it formats the first partition, which takes it from whoever has it
\* mounted, and gives it a drive letter; whatever fails ends it.
FormatVolume ==
    /\ pc = "mkfs" /\ job.os = "windows"
    /\ \/ /\ kernel' = table /\ formatted' = table /\ live' = "none"
          /\ \/ part' = "mounted" /\ Goto("copy")
             \/ part' \in {part, "stuck"} /\ Return("failed")
       \/ /\ kernel' \in {kernel, table}
          /\ Return("failed")
          /\ UNCHANGED <<formatted, live, part>>
    /\ UNCHANGED <<plan, consent, grip, iso, table, damage, files>>

\* The ntfs3 driver, then ntfs-3g.
NtfsMount ==
    /\ pc = "ntfsmount"
    /\ \/ part' = "mounted" /\ Goto("copy")
       \/ part' = part /\ Return("failed")
    /\ UNCHANGED <<plan, consent, grip, iso, kernel, live, disk, files>>

-----------------------------------------------------------------------------
(* Copying. *)

\* One entry of copy_tree() or copy_tree_native(): one whose type cannot be
\* read is passed over, a link that leads nowhere is skipped.  A directory that
\* cannot be read or made, and a file that cannot be created, read or written,
\* ends the run.
CopyFile ==
    /\ pc = "copy"
    /\ \/ Return("failed") /\ UNCHANGED <<copied, skipped, passed>>
       \/ \E f \in Files \ (copied \cup skipped \cup passed) :
            /\ \/ passed' = passed \cup {f} /\ UNCHANGED <<copied, skipped>>
               \/ f \in job.readable /\ copied' = copied \cup {f} /\ UNCHANGED <<skipped, passed>>
               \/ f \notin job.readable /\ skipped' = skipped \cup {f} /\ UNCHANGED <<copied, passed>>
            /\ UNCHANGED run
    /\ UNCHANGED <<plan, consent, grip, mounts, kernel, live, disk, stable>>

\* Windows keeps the new NTFS volume mounted.
Settle == IF job.os = "windows" /\ job.fs = "ntfs" THEN "sync" ELSE "unmount"

CopyDone ==
    /\ pc = "copy"
    /\ copied \cup skipped \cup passed = Files
    /\ Goto(IF job.boot = "tree" THEN Settle ELSE "eltorito")
    /\ Only

\* Finds a boot loader, finds none, or fails with a warning; a catalog whose
\* walk leaves its sector is a panic, which drops the guards as a return does.
ElTorito ==
    /\ pc = "eltorito"
    /\ Goto(Settle) \/ Return("failed")
    /\ Only

\* fs.unmount() and io.flush(), or umount of the NTFS partition, which is not
\* tried again when it fails.
Unmount ==
    /\ pc = "unmount"
    /\ \/ part' = "no" /\ Goto("sync")
       \/ part' = (IF part = "mounted" THEN "stuck" ELSE part) /\ Return("failed")
    /\ UNCHANGED <<plan, consent, grip, iso, kernel, live, disk, files>>

\* Mutant of Sync: what the device refuses to sync is only logged.
SyncUnchecked ==
    /\ pc = "sync"
    /\ stable' \in {stable, copied}
    /\ IF job.fs = "ntfs" THEN Return("ok") ELSE Goto("reread")
    /\ UNCHANGED <<plan, consent, grip, mounts, kernel, live, disk, copied, skipped, passed>>

\* sync_data() of the target, sync_all() of the partition, or Write-VolumeCache.
Sync ==
    /\ pc = "sync"
    /\ \/ stable' = copied /\ IF job.fs = "ntfs" THEN Return("ok") ELSE Goto("reread")
       \/ stable' = stable /\ Return("failed")
    /\ UNCHANGED <<plan, consent, grip, mounts, kernel, live, disk, copied, skipped, passed>>

-----------------------------------------------------------------------------
(* The end of a run. *)

\* NtfsMount and MountGuard are dropped; a umount that fails goes unnoticed.
\* Nothing unmounts the NTFS volume on Windows.
Release ==
    /\ pc = "release"
    /\ part' \in IF part = "mounted" /\ job.os = "linux" THEN {"no", "stuck"} ELSE {part}
    /\ iso' \in IF iso = "mounted" THEN {"no", "stuck"} ELSE {iso}
    /\ pc' = "ended"
    /\ UNCHANGED <<plan, result, tries, consent, grip, kernel, live, disk, files>>

\* The user runs the same command without --dry-run.
Flash ==
    /\ pc = "ended" /\ round = "dry"
    /\ round' = "real" /\ foretold' = result
    /\ pc' = "start" /\ result' = "none" /\ tries' = 0
    /\ UNCHANGED <<job, consent, grip, mounts, kernel, live, disk, files>>

Program ==
    \/ Start \/ Survey \/ Mount \/ Scan \/ Prepare \/ FakeCheck \/ Open \/ Gpt \/ Format
    \/ PutLoader \/ RereadFails \/ RereadWorks \/ WaitForNode \/ Mkfs \/ FormatVolume
    \/ NtfsMount \/ CopyFile \/ CopyDone \/ ElTorito \/ Unmount \/ Sync \/ Release

\* On Windows the volumes of the old table that the program saw stay locked,
\* until it has synced what it writes itself.
Locked ==
    /\ job.os = "windows" /\ grip = "full"
    /\ \/ pc \in {"fakecheck", "open", "gpt", "format", "loader"}
       \/ pc \in {"copy", "eltorito", "unmount", "sync"} /\ job.fs = "fat32"

\* The desktop mounts a partition the kernel announces; a table that is half
\* written announces none.
Automount ==
    /\ job.desktop = "automounts"
    /\ live = "none" /\ part # "mounted" /\ kernel # "partial"
    /\ ~(Locked /\ kernel = "old")
    /\ live' = kernel
    /\ UNCHANGED <<plan, run, consent, grip, mounts, kernel, disk, files>>

\* The desktop lets go, in a noisy world or in a quiet one.
Eject ==
    /\ live # "none"
    /\ live' = "none"
    /\ UNCHANGED <<plan, run, consent, grip, mounts, kernel, disk, files>>

\* What is mounted writes its metadata back over what is there now.
WriteBack ==
    /\ live # "none" /\ table # "old"
    /\ damage' = "done"
    /\ UNCHANGED <<plan, run, consent, grip, mounts, kernel, live, table, formatted, files>>

\* udev has the kernel read the table again after somebody closed the disk, or
\* whoever looks at the disks of a Windows machine.
Reprobe ==
    /\ ~Busy /\ kernel # table
    /\ kernel' = table
    /\ UNCHANGED <<plan, run, consent, grip, mounts, live, disk, files>>

Next == Program \/ Flash \/ Automount \/ Eject \/ WriteBack \/ Reprobe

Spec == Init /\ [][Next]_vars

\* Every call the program makes returns.
FairSpec == Spec /\ WF_vars(Program)

-----------------------------------------------------------------------------
(* Correctness *)

TypeOK ==
    /\ pc \in Steps
    /\ round \in {"dry", "real"}
    /\ job \in Job
    /\ foretold \in {"none", "ok", "refused", "failed"}
    /\ result \in {"none", "ok", "refused", "failed", "declined"}
    /\ consent \in {"none", "yes", "no"}
    /\ grip \in {"none", "full", "loose"}
    /\ tries \in Nat /\ (tries < RereadAttempts \/ tries < NodeTries)
    /\ iso \in {"no", "mounted", "stuck"} /\ part \in {"no", "mounted", "stuck"}
    /\ table \in {"old", "partial", "new"} /\ kernel \in {"old", "partial", "new"}
    /\ live \in {"none", "old", "new"}
    /\ formatted \in {"none", "old", "partial", "new"}
    /\ damage \in {"none", "done"}
    /\ copied \subseteq Files /\ skipped \subseteq Files
    /\ passed \subseteq Files /\ stable \subseteq Files

\* Neither a dry run nor a run the user declined leaves a trace on the target.
ConsentBeforeWrite ==
    table # "old" \/ formatted # "none" \/ part # "no"
        => round = "real" /\ consent = "yes"

\* The filesystem is made where the new table has its first partition, whatever
\* a desktop mounts and whatever the kernel believes: mkfs.ntfs addresses the
\* partition by its node and would format the old table's extent.
NeverFormatsStale == formatted \in {"none", "new"}

\* Success means a new table, every readable file beyond all caches, every
\* other file reported, but for those whose type could not be read, the new
\* partition unmounted (but on Windows), and nothing written over by a mounted
\* filesystem, unless a desktop mounted it by itself or prepare_target() went on
\* without having seen it.
SuccessIsComplete ==
    result = "ok" /\ round = "real" =>
        /\ table = "new" /\ formatted = "new"
        /\ stable = job.readable \ passed
        /\ skipped = Files \ (job.readable \cup passed)
        /\ part # "no" => job.os = "windows" /\ part = "mounted"
        /\ damage = "done" => job.desktop = "automounts" \/ grip = "loose"

\* Every run ends, the retry loops included.
Terminates == \A r \in {"dry", "real"} : round = r ~> pc = "ended"

\* A dry run performs all validation checks: what it lets pass is not refused
\* by the run that follows, unless the drive is found to be counterfeit.
DryRunForetells ==
    foretold = "ok" /\ job.check # "counterfeit" => result # "refused"
=============================================================================
