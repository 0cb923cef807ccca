----------------------------- MODULE SectorCache -----------------------------
(***************************************************************************)
(* The write-back sector cache of libbuf/src/copy/mod.rs through which     *)
(* copy mode writes the GPT and the FAT32 filesystem: a map of cached      *)
(* sectors over the target device, flushed whole when it is full, when its *)
(* owner asks, and as a last resort when it is dropped.                    *)
(*                                                                         *)
(* A call of the cache is one action: its owner holds it by &mut and is    *)
(* the only thread that uses it.  The device below may refuse any read or  *)
(* write, also in the middle of a flush, and the owner may carry on after  *)
(* a failed call (the El Torito extraction only warns).                    *)
(***************************************************************************)
EXTENDS SectorBytes

CONSTANT Cap   \* cached sectors before a full flush: CACHE_BYTES / sector

ASSUME CapAssumption == Cap \in Nat \ {0}

VARIABLES
    disk,    \* the device below
    map,     \* the cached sectors: a function on their lbas
    pos,     \* position the layers above see
    reply,   \* outcome of the last call
    open     \* FALSE once the cache has been dropped

vars == <<disk, map, pos, reply, open>>

CachedSector == [data : Sector, dirty : BOOLEAN]
NoSectors    == [l \in {} |-> {}]
Dirty        == {l \in DOMAIN map : map[l].dirty}

\* A sector as read from the device, and as written by the layers above.
Clean(s)     == [data |-> s, dirty |-> FALSE]
Modified(s)  == [data |-> s, dirty |-> TRUE]

\* Map m with e under lba.
Insert(m, lba, e) ==
    [l \in DOMAIN m \cup {lba} |-> IF l = lba THEN e ELSE m[l]]

\* What a read of each sector returns: map m over device d.
Visible(d, m) == [l \in LBA |-> IF l \in DOMAIN m THEN m[l].data ELSE d[l]]

\* The device once the sectors of W have been written from the map.
Written(W) == [l \in LBA |-> IF l \in W THEN map[l].data ELSE disk[l]]

-----------------------------------------------------------------------------
(* What a helper of the cache can end in: a set of outcomes [result, disk, map]. *)

\* Dirty sectors go out in ascending order, contiguous ones in one write: a
\* write that fails leaves some of the lowest written.
Partial == {W \in SUBSET Dirty : W # Dirty /\ \A a \in W, b \in Dirty \ W : a < b}

\* Mutant of FlushDirty: the map is drained before the writes are known good.
FlushDirtyDraining ==
    {[result |-> "Ok", disk |-> Written(Dirty), map |-> NoSectors]}
      \cup {[result |-> "Err", disk |-> Written(W), map |-> NoSectors] : W \in Partial}

\* Only a flush that wrote everything empties the map, clean sectors included.
FlushDirty ==
    {[result |-> "Ok", disk |-> Written(Dirty), map |-> NoSectors]}
      \cup {[result |-> "Err", disk |-> Written(W), map |-> map] : W \in Partial}

\* Mutant of MakeRoom: the cap is noticed one sector late.
MakeRoomLate(lba) ==
    IF lba \notin DOMAIN map /\ Cardinality(DOMAIN map) > Cap
    THEN FlushDirty
    ELSE {[result |-> "Ok", disk |-> disk, map |-> map]}

\* A sector that is not cached needs room in the map first.
MakeRoom(lba) ==
    IF lba \notin DOMAIN map /\ Cardinality(DOMAIN map) >= Cap
    THEN FlushDirty
    ELSE {[result |-> "Ok", disk |-> disk, map |-> map]}

Load(lba) ==
    UNION { IF r.result = "Err" \/ lba \in DOMAIN r.map
            THEN {r}
            ELSE { [r EXCEPT !.map = Insert(r.map, lba, Clean(r.disk[lba]))],
                   [r EXCEPT !.result = "Err"] }   \* the device refuses the read
            : r \in MakeRoom(lba) }

Overwrite(lba, data) ==
    { IF r.result = "Ok" THEN [r EXCEPT !.map = Insert(r.map, lba, Modified(data))] ELSE r
      : r \in MakeRoom(lba) }

\* Mutant of Modify: the sector is patched and not marked dirty.
ModifyUnmarked(lba, inner, n, data) ==
    { IF r.result = "Ok"
      THEN [r EXCEPT !.map =
              Insert(r.map, lba, Clean(Patch(r.map[lba].data, inner, n, data)))]
      ELSE r
      : r \in Load(lba) }

\* Read-modify-write of n bytes within the cache.
Modify(lba, inner, n, data) ==
    { IF r.result = "Ok"
      THEN [r EXCEPT !.map =
              Insert(r.map, lba, Modified(Patch(r.map[lba].data, inner, n, data)))]
      ELSE r
      : r \in Load(lba) }

\* The call ends as r: it moves n bytes and answers, or fails and stays put.
Finish(r, n, answer) ==
    /\ disk' = r.disk
    /\ map' = r.map
    /\ IF r.result = "Ok" THEN pos' = Advance(pos, n) /\ reply' = answer
               ELSE pos' = pos /\ reply' = [call |-> "error"]
    /\ UNCHANGED open

-----------------------------------------------------------------------------
Init ==
    /\ disk  \in [LBA -> Sector]   \* whatever the drive held before
    /\ map   = NoSectors
    /\ pos   = StartPos
    /\ reply = [call |-> "none"]
    /\ open  = TRUE

\* The layers above never transfer past the device: Partition cuts them off.
Read(len) ==
    LET n == Moved(pos, len) IN
    /\ pos \in Position
    /\ \E r \in Load(pos.lba) :
          Finish(r, n, [call |-> "read",
                        got  |-> Slice(r.map[pos.lba].data, pos.inner, n)])

WholeSector(len) == pos.inner = 0 /\ len >= SectorSize

WriteWhole(len, data) ==
    /\ pos \in Position
    /\ WholeSector(len)
    /\ \E r \in Overwrite(pos.lba, data) :
          Finish(r, SectorSize, [call |-> "write", n |-> SectorSize])

WritePart(len, data) ==
    LET n == Moved(pos, len) IN
    /\ pos \in Position
    /\ ~WholeSector(len)
    /\ \E r \in Modify(pos.lba, pos.inner, n, data) :
          Finish(r, n, [call |-> "write", n |-> n])

Flush ==
    \E r \in FlushDirty : Finish(r, 0, [call |-> "flush"])

Seek ==
    /\ pos' \in Position \cup {EndPos}
    /\ reply' = [call |-> "seek"]
    /\ UNCHANGED <<disk, map, open>>

\* A seek from the end or to a negative position.
SeekRefused ==
    /\ reply' = [call |-> "error"]
    /\ UNCHANGED <<disk, map, pos, open>>

\* The map goes away with the cache, flushed or not.
Drop ==
    /\ \E r \in IF Dirty = {} THEN {[result |-> "Ok", disk |-> disk]} ELSE FlushDirty :
          /\ disk' = r.disk
          /\ reply' = [call |-> IF r.result = "Ok" THEN "drop" ELSE "lost"]
    /\ map' = NoSectors
    /\ open' = FALSE
    /\ UNCHANGED pos

Next ==
    /\ open
    /\ \/ \E len \in Lengths : Read(len)
       \/ \E len \in Lengths : \E data \in Data(len) : WriteWhole(len, data)
       \/ \E len \in Lengths : \E data \in Data(len) : WritePart(len, data)
       \/ Flush
       \/ Seek
       \/ SeekRefused
       \/ Drop

Spec == Init /\ [][Next]_vars

-----------------------------------------------------------------------------
(* Correctness *)

TypeOK ==
    /\ disk \in [LBA -> Sector]
    /\ DOMAIN map \subseteq LBA
    /\ \A l \in DOMAIN map : map[l] \in CachedSector
    /\ pos \in Position \cup {EndPos}
    /\ reply \in Replies
    /\ open \in BOOLEAN

\* The map never outgrows its cap, through evictions that fail as well as
\* through ones that succeed: load() and overwrite() make room before they
\* insert, and insert nothing when they could not.
CacheBounded == Cardinality(DOMAIN map) <= Cap

\* A clean cached sector is what the device holds, so that forgetting it loses
\* nothing: flush_dirty() clears clean and dirty sectors alike.
CleanMatchesDevice ==
    \A l \in DOMAIN map : ~map[l].dirty => map[l].data = disk[l]

Abstract == INSTANCE BlockDevice WITH store <- Visible(disk, map), backing <- disk

\* The cache is a flat device: reads see the last write, failures lose nothing,
\* a flush that succeeds leaves everything on the device, and only a drop that
\* says so (the warning of SectorCache::drop) gives up dirty sectors.
ImplementsDevice == Abstract!Spec
=============================================================================
