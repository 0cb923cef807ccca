-------------------------- MODULE SectorCacheProofs --------------------------
(***************************************************************************)
(* The sector cache is a flat device, for every number of sectors, sector  *)
(* size and cache capacity.                                                *)
(*                                                                         *)
(* The argument: every helper of the cache ends in a sound outcome, one    *)
(* that keeps what is visible through the cache, keeps clean sectors equal *)
(* to the device, and has only moved visible bytes down to it.  The calls  *)
(* then add at most their own bytes to such an outcome.                    *)
(***************************************************************************)
EXTENDS SectorCache, FiniteSetTheorems, TLAPS

IInv == TypeOK /\ CacheBounded /\ CleanMatchesDevice

\* A device d and a map m over it that the invariant allows.
Sound(d, m) ==
    /\ d \in [LBA -> Sector]
    /\ DOMAIN m \in SUBSET LBA
    /\ \A l \in DOMAIN m : m[l] \in CachedSector
    /\ Cardinality(DOMAIN m) <= Cap
    /\ \A l \in DOMAIN m : ~m[l].dirty => m[l].data = d[l]

\* Outcome r of a helper called in the current state.
SoundOutcome(r) == r.result \in {"Ok", "Err"} /\ Sound(r.disk, r.map)

\* The device of r differs from the current one by sectors written back.
OnlyWroteBack(r) ==
    \A l \in LBA : r.disk[l] \in {disk[l], Visible(disk, map)[l]}

KeepsView(r) == Visible(r.disk, r.map) = Visible(disk, map)

\* A set of lbas is finite, and one more lba is at most one more sector.
LEMMA SectorsFinite ==
    ASSUME NEW D \in SUBSET LBA, NEW l
    PROVE  /\ IsFiniteSet(D)
           /\ Cardinality(D) \in Nat
           /\ Cardinality(D \cup {l}) = IF l \in D THEN Cardinality(D)
                                                   ELSE Cardinality(D) + 1
<1>1. IsFiniteSet(LBA)
  BY FS_Interval, SectorsAssumption DEF LBA
<1>2. IsFiniteSet(D)
  BY <1>1, FS_Subset
<1>. QED
  BY <1>2, FS_CardinalityType, FS_AddElement

\* Inserting a sector there is room for, dirty or as the device holds it,
\* changes what is visible in that sector alone.
LEMMA InsertSound ==
    ASSUME NEW d, NEW m, Sound(d, m),
           NEW lba \in LBA, NEW e \in CachedSector,
           lba \notin DOMAIN m => Cardinality(DOMAIN m) < Cap,
           ~e.dirty => e.data = d[lba],
           NEW i, i = Insert(m, lba, e)
    PROVE  /\ Sound(d, i)
           /\ lba \in DOMAIN i
           /\ i[lba] = e
           /\ Visible(d, i) = [Visible(d, m) EXCEPT ![lba] = e.data]
<1>1. DOMAIN i = DOMAIN m \cup {lba}
  BY DEF Insert
<1>2. i[lba] = e
  BY DEF Insert
<1>3. \A l \in DOMAIN i : l # lba => l \in DOMAIN m /\ i[l] = m[l]
  BY DEF Insert
<1>4. \A l \in DOMAIN i : i[l] \in CachedSector
  BY <1>1, <1>2, <1>3 DEF CachedSector, Sound
<1>5. Cardinality(DOMAIN i) <= Cap
  <2>1. DOMAIN m \in SUBSET LBA /\ Cardinality(DOMAIN m) <= Cap
    BY DEF Sound
  <2>2. /\ Cardinality(DOMAIN m) \in Nat
        /\ Cardinality(DOMAIN i) = IF lba \in DOMAIN m THEN Cardinality(DOMAIN m)
                                                      ELSE Cardinality(DOMAIN m) + 1
    BY <1>1, <2>1, SectorsFinite
  <2>. QED
    BY <2>1, <2>2, CapAssumption
<1>6. ASSUME NEW l \in DOMAIN i, ~i[l].dirty PROVE i[l].data = d[l]
  <2>1. CASE l = lba
    BY <1>2, <1>6, <2>1
  <2>2. CASE l # lba
    BY <1>3, <1>6, <2>2 DEF Sound
  <2>. QED
    BY <2>1, <2>2
<1>7. Visible(d, i) = [Visible(d, m) EXCEPT ![lba] = e.data]
  <2>1. \A l \in LBA : Visible(d, i)[l] = IF l = lba THEN e.data ELSE Visible(d, m)[l]
    BY <1>1, <1>2, <1>3 DEF Visible
  <2>. QED
    BY <2>1 DEF Visible
<1>. QED
  BY <1>1, <1>2, <1>4, <1>5, <1>6, <1>7 DEF Sound

\* Writing any dirty sectors back leaves what is visible, and what they hold.
LEMMA WrittenSound ==
    ASSUME IInv, NEW W \in SUBSET Dirty
    PROVE  /\ Written(W) \in [LBA -> Sector]
           /\ W \subseteq LBA
           /\ \A l \in LBA : Written(W)[l] \in {disk[l], Visible(disk, map)[l]}
           /\ \A l \in DOMAIN map : ~map[l].dirty => map[l].data = Written(W)[l]
           /\ Visible(Written(W), map) = Visible(disk, map)
<1>1. W \subseteq DOMAIN map /\ W \subseteq LBA
  BY DEF Dirty, IInv, TypeOK
<1>2. \A l \in DOMAIN map : map[l].data \in Sector
  BY DEF IInv, TypeOK, CachedSector
<1>3. Written(W) \in [LBA -> Sector]
  BY <1>1, <1>2 DEF Written, IInv, TypeOK
<1>4. \A l \in LBA : Written(W)[l] \in {disk[l], Visible(disk, map)[l]}
  BY <1>1 DEF Written, Visible
<1>5. \A l \in DOMAIN map : ~map[l].dirty => map[l].data = Written(W)[l]
  BY <1>1 DEF Written, Dirty, IInv, TypeOK, CleanMatchesDevice
<1>6. Visible(Written(W), map) = Visible(disk, map)
  BY <1>1 DEF Written, Visible
<1>. QED
  BY <1>1, <1>3, <1>4, <1>5, <1>6

\* A flush keeps what is visible, whether or not the device took all of it.
LEMMA FlushDirtySound ==
    ASSUME IInv, NEW r \in FlushDirty
    PROVE  /\ SoundOutcome(r)
           /\ OnlyWroteBack(r)
           /\ KeepsView(r)
           /\ r.result = "Ok" => r.map = NoSectors /\ r.disk = Visible(disk, map)
<1>1. CASE r = [result |-> "Ok", disk |-> Written(Dirty), map |-> NoSectors]
  <2>1. DOMAIN NoSectors = {} /\ Cardinality({}) = 0
    BY FS_EmptySet DEF NoSectors
  <2>2. Written(Dirty) = Visible(disk, map)
    <3>1. \A l \in DOMAIN map : l \notin Dirty => map[l].data = disk[l]
      BY DEF Dirty, IInv, CleanMatchesDevice
    <3>. QED
      BY <3>1 DEF Written, Visible, Dirty
  <2>3. Visible(r.disk, r.map) = Visible(disk, map)
    BY <1>1, <2>1, <2>2 DEF Visible
  <2>4. SoundOutcome(r)
    BY <1>1, <2>1, WrittenSound, CapAssumption DEF SoundOutcome, Sound
  <2>5. OnlyWroteBack(r)
    BY <1>1, WrittenSound DEF OnlyWroteBack
  <2>. QED
    BY <1>1, <2>2, <2>3, <2>4, <2>5 DEF KeepsView
<1>2. ASSUME NEW W \in Partial,
             r = [result |-> "Err", disk |-> Written(W), map |-> map]
      PROVE  /\ SoundOutcome(r)
             /\ OnlyWroteBack(r)
             /\ KeepsView(r)
             /\ r.result = "Err"
  <2>1. W \in SUBSET Dirty
    BY DEF Partial
  <2>2. SoundOutcome(r)
    BY <1>2, <2>1, WrittenSound DEF SoundOutcome, Sound, IInv, TypeOK, CacheBounded
  <2>3. OnlyWroteBack(r)
    BY <1>2, <2>1, WrittenSound DEF OnlyWroteBack
  <2>4. KeepsView(r)
    BY <1>2, <2>1, WrittenSound DEF KeepsView
  <2>. QED
    BY <1>2, <2>2, <2>3, <2>4
<1>. QED
  BY <1>1, <1>2 DEF FlushDirty

\* Making room keeps what is visible, and there is room if it succeeds.
LEMMA MakeRoomSound ==
    ASSUME IInv, NEW lba \in LBA, NEW r \in MakeRoom(lba)
    PROVE  /\ SoundOutcome(r)
           /\ OnlyWroteBack(r)
           /\ KeepsView(r)
           /\ r.result = "Ok" /\ lba \notin DOMAIN r.map => Cardinality(DOMAIN r.map) < Cap
<1>1. Cardinality(DOMAIN map) \in Nat
  BY SectorsFinite DEF IInv, TypeOK
<1>2. CASE lba \notin DOMAIN map /\ Cardinality(DOMAIN map) >= Cap
  <2>1. r \in FlushDirty
    BY <1>2 DEF MakeRoom
  <2>2. DOMAIN NoSectors = {} /\ Cardinality({}) < Cap
    BY FS_EmptySet, CapAssumption DEF NoSectors
  <2>. QED
    BY <2>1, <2>2, FlushDirtySound
<1>3. CASE ~(lba \notin DOMAIN map /\ Cardinality(DOMAIN map) >= Cap)
  <2>1. r = [result |-> "Ok", disk |-> disk, map |-> map]
    BY <1>3 DEF MakeRoom
  <2>2. SoundOutcome(r)
    BY <2>1 DEF SoundOutcome, Sound, IInv, TypeOK, CacheBounded, CleanMatchesDevice
  <2>3. OnlyWroteBack(r)
    BY <2>1 DEF OnlyWroteBack
  <2>4. KeepsView(r)
    BY <2>1 DEF KeepsView
  <2>5. lba \notin DOMAIN r.map => Cardinality(DOMAIN r.map) < Cap
    BY <1>1, <1>3, <2>1, CapAssumption
  <2>. QED
    BY <2>2, <2>3, <2>4, <2>5
<1>. QED
  BY <1>2, <1>3

\* Loading a sector keeps what is visible, and holds the sector if it succeeds.
LEMMA LoadSound ==
    ASSUME IInv, NEW lba \in LBA, NEW r \in Load(lba)
    PROVE  /\ SoundOutcome(r)
           /\ OnlyWroteBack(r)
           /\ KeepsView(r)
           /\ r.result = "Ok" => /\ lba \in DOMAIN r.map
                                 /\ r.map[lba].data = Visible(disk, map)[lba]
<1>1. PICK q \in MakeRoom(lba) :
         r \in IF q.result = "Err" \/ lba \in DOMAIN q.map
              THEN {q}
              ELSE { [q EXCEPT !.map = Insert(q.map, lba, Clean(q.disk[lba]))],
                     [q EXCEPT !.result = "Err"] }
  BY DEF Load
<1>2. /\ SoundOutcome(q)
      /\ OnlyWroteBack(q)
      /\ KeepsView(q)
      /\ q.result = "Ok" /\ lba \notin DOMAIN q.map => Cardinality(DOMAIN q.map) < Cap
  BY MakeRoomSound
<1>3. q = [result |-> q.result, disk |-> q.disk, map |-> q.map]
  BY DEF MakeRoom, FlushDirty
<1>4. CASE r = q /\ (q.result = "Err" \/ lba \in DOMAIN q.map)
  BY <1>2, <1>4 DEF KeepsView, Visible
<1>5. CASE r = [q EXCEPT !.result = "Err"]
  <2>1. r.disk = q.disk /\ r.map = q.map /\ r.result = "Err"
    BY <1>3, <1>5
  <2>. QED
    BY <1>2, <2>1 DEF SoundOutcome, OnlyWroteBack, KeepsView
<1>6. CASE /\ q.result = "Ok"
           /\ lba \notin DOMAIN q.map
           /\ r = [q EXCEPT !.map = Insert(q.map, lba, Clean(q.disk[lba]))]
  <2>1. /\ r.disk = q.disk
        /\ r.map = Insert(q.map, lba, Clean(q.disk[lba]))
        /\ r.result = "Ok"
        /\ lba \notin DOMAIN q.map
        /\ Cardinality(DOMAIN q.map) < Cap
    BY <1>2, <1>3, <1>6
  <2>2. Sound(q.disk, q.map) /\ Visible(q.disk, q.map) = Visible(disk, map)
    BY <1>2 DEF SoundOutcome, KeepsView
  <2>3. /\ q.disk[lba] = Visible(q.disk, q.map)[lba]
        /\ q.disk[lba] \in Sector
    BY <2>1, <2>2 DEF Sound, Visible
  <2>4. /\ Sound(q.disk, r.map)
        /\ lba \in DOMAIN r.map
        /\ r.map[lba].data = q.disk[lba]
        /\ Visible(q.disk, r.map) = [Visible(q.disk, q.map) EXCEPT ![lba] = q.disk[lba]]
    <3>. DEFINE e == Clean(q.disk[lba])
    <3>1. e \in CachedSector /\ e.data = q.disk[lba] /\ r.map = Insert(q.map, lba, e)
      BY <2>1, <2>3 DEF Clean, CachedSector
    <3>. HIDE DEF e
    <3>. QED
      BY <2>1, <2>2, <3>1, InsertSound
  <2>5. Visible(q.disk, r.map) = Visible(q.disk, q.map)
    BY <2>3, <2>4 DEF Visible
  <2>6. SoundOutcome(r) /\ KeepsView(r)
    BY <2>1, <2>2, <2>4, <2>5 DEF SoundOutcome, KeepsView
  <2>7. OnlyWroteBack(r)
    BY <1>2, <2>1 DEF OnlyWroteBack
  <2>8. r.map[lba].data = Visible(disk, map)[lba]
    BY <2>2, <2>3, <2>4
  <2>. QED
    BY <2>4, <2>6, <2>7, <2>8
<1>7. \/ r = q /\ (q.result = "Err" \/ lba \in DOMAIN q.map)
      \/ r = [q EXCEPT !.result = "Err"]
      \/ /\ q.result = "Ok"
         /\ lba \notin DOMAIN q.map
         /\ r = [q EXCEPT !.map = Insert(q.map, lba, Clean(q.disk[lba]))]
  BY <1>1, <1>2 DEF SoundOutcome
<1>. QED
  BY <1>4, <1>5, <1>6, <1>7

\* Overwriting a sector leaves it visible with its new content.
LEMMA OverwriteSound ==
    ASSUME IInv, NEW lba \in LBA, NEW data \in Sector, NEW r \in Overwrite(lba, data)
    PROVE  /\ SoundOutcome(r)
           /\ OnlyWroteBack(r)
           /\ r.result = "Err" => KeepsView(r)
           /\ r.result = "Ok" =>
                 Visible(r.disk, r.map) = [Visible(disk, map) EXCEPT ![lba] = data]
<1>1. PICK q \in MakeRoom(lba) :
         r = IF q.result = "Ok"
             THEN [q EXCEPT !.map = Insert(q.map, lba, Modified(data))] ELSE q
  BY DEF Overwrite
<1>2. /\ SoundOutcome(q)
      /\ OnlyWroteBack(q)
      /\ KeepsView(q)
      /\ q.result = "Ok" /\ lba \notin DOMAIN q.map => Cardinality(DOMAIN q.map) < Cap
  BY MakeRoomSound
<1>3. q = [result |-> q.result, disk |-> q.disk, map |-> q.map]
  BY DEF MakeRoom, FlushDirty
<1>4. CASE q.result = "Ok"
  <2>. DEFINE e == Modified(data)
  <2>1. e \in CachedSector /\ e.data = data /\ e.dirty = TRUE
    BY DEF Modified, CachedSector
  <2>2. r.result = "Ok" /\ r.disk = q.disk /\ r.map = Insert(q.map, lba, e)
    BY <1>1, <1>3, <1>4
  <2>. HIDE DEF e
  <2>3. Sound(q.disk, q.map) /\ Visible(q.disk, q.map) = Visible(disk, map)
    BY <1>2 DEF SoundOutcome, KeepsView
  <2>4. /\ Sound(q.disk, r.map)
        /\ Visible(q.disk, r.map) = [Visible(q.disk, q.map) EXCEPT ![lba] = e.data]
    BY <1>2, <1>4, <2>1, <2>2, <2>3, InsertSound
  <2>5. OnlyWroteBack(r)
    BY <1>2, <2>2 DEF OnlyWroteBack
  <2>. QED
    BY <2>1, <2>2, <2>3, <2>4, <2>5 DEF SoundOutcome
<1>5. CASE q.result = "Err"
  BY <1>1, <1>2, <1>5
<1>. QED
  BY <1>2, <1>4, <1>5 DEF SoundOutcome

\* Modifying part of a sector leaves it visible with those bytes replaced.
LEMMA ModifySound ==
    ASSUME IInv, NEW lba \in LBA, NEW inner, NEW n, NEW data,
           \A s \in Sector : Patch(s, inner, n, data) \in Sector,
           NEW r \in Modify(lba, inner, n, data)
    PROVE  /\ SoundOutcome(r)
           /\ OnlyWroteBack(r)
           /\ r.result = "Err" => KeepsView(r)
           /\ r.result = "Ok" =>
                 Visible(r.disk, r.map) =
                   [Visible(disk, map) EXCEPT
                      ![lba] = Patch(Visible(disk, map)[lba], inner, n, data)]
<1>1. PICK q \in Load(lba) :
         r = IF q.result = "Ok"
             THEN [q EXCEPT !.map =
                     Insert(q.map, lba, Modified(Patch(q.map[lba].data, inner, n, data)))]
             ELSE q
  BY DEF Modify
<1>2. /\ SoundOutcome(q)
      /\ OnlyWroteBack(q)
      /\ KeepsView(q)
      /\ q.result = "Ok" => /\ lba \in DOMAIN q.map
                            /\ q.map[lba].data = Visible(disk, map)[lba]
  BY LoadSound
<1>3. q = [result |-> q.result, disk |-> q.disk, map |-> q.map]
  BY DEF Load, MakeRoom, FlushDirty
<1>4. CASE q.result = "Ok"
  <2>1. Sound(q.disk, q.map) /\ Visible(q.disk, q.map) = Visible(disk, map)
    BY <1>2 DEF SoundOutcome, KeepsView
  <2>2. /\ lba \in DOMAIN q.map
        /\ q.map[lba].data = Visible(disk, map)[lba]
        /\ Visible(disk, map)[lba] \in Sector
    BY <1>2, <1>4, <2>1 DEF Sound, CachedSector
  <2>. DEFINE s == Patch(Visible(disk, map)[lba], inner, n, data)
              e == Modified(s)
  <2>3. e \in CachedSector /\ e.data = s /\ e.dirty = TRUE
    BY <2>2 DEF Modified, CachedSector
  <2>4. r.result = "Ok" /\ r.disk = q.disk /\ r.map = Insert(q.map, lba, e)
    BY <1>1, <1>3, <1>4, <2>2
  <2>. HIDE DEF s, e
  <2>5. /\ Sound(q.disk, r.map)
        /\ Visible(q.disk, r.map) = [Visible(q.disk, q.map) EXCEPT ![lba] = e.data]
    BY <2>1, <2>2, <2>3, <2>4, InsertSound
  <2>6. OnlyWroteBack(r)
    BY <1>2, <2>4 DEF OnlyWroteBack
  <2>7. SoundOutcome(r)
    BY <2>4, <2>5 DEF SoundOutcome
  <2>8. Visible(r.disk, r.map) = [Visible(disk, map) EXCEPT ![lba] = s]
    BY <2>1, <2>3, <2>4, <2>5
  <2>. QED
    BY <2>4, <2>6, <2>7, <2>8 DEF s
<1>5. CASE q.result = "Err"
  BY <1>1, <1>2, <1>5
<1>. QED
  BY <1>2, <1>4, <1>5 DEF SoundOutcome

-----------------------------------------------------------------------------
(* Positions and bytes *)

LEMMA MovedBounds ==
    ASSUME NEW p \in Position, NEW len \in Lengths
    PROVE  /\ Moved(p, len) \in Lengths
           /\ Moved(p, len) <= len
           /\ p.inner + Moved(p, len) <= SectorSize
BY SectorSizeAssumption DEF Moved, Position, Lengths, Offset

LEMMA AdvanceType ==
    ASSUME NEW p \in Position, NEW n \in Lengths, p.inner + n <= SectorSize
    PROVE  Advance(p, n) \in Position \cup {EndPos}
BY SectorSizeAssumption, SectorsAssumption
   DEF Advance, Position, EndPos, LBA, Offset, Lengths

\* Patching n bytes of a sector yields a sector; a slice of it is n bytes.
LEMMA PatchType ==
    ASSUME NEW s \in Sector, NEW inner \in Offset, NEW n \in Lengths,
           inner + n <= SectorSize, NEW len \in Lengths, n <= len, NEW data \in Data(len)
    PROVE  /\ Patch(s, inner, n, data) \in Sector
           /\ Slice(s, inner, n) \in Data(n)
<1>1. ASSUME NEW i \in Offset, i \in inner .. inner + n - 1
      PROVE  data[i - inner] \in Byte
  BY <1>1, SectorSizeAssumption DEF Data, Lengths, Offset
<1>2. \A i \in 0 .. n - 1 : inner + i \in Offset
  BY SectorSizeAssumption DEF Lengths, Offset
<1>. QED
  BY <1>1, <1>2 DEF Patch, Slice, Sector, Data

-----------------------------------------------------------------------------
(* Every step of the cache keeps IInv and is a step of the flat device. *)

\* The instance speaks of the same sectors, positions and bytes.
LEMMA SameVocabulary ==
    /\ Abstract!LBA = LBA
    /\ Abstract!Lengths = Lengths
    /\ Abstract!Position = Position
    /\ Abstract!EndPos = EndPos
    /\ Abstract!StartPos = StartPos
    /\ Abstract!Sector = Sector
    /\ \A n : Abstract!Data(n) = Data(n)
    /\ \A p, n : Abstract!Moved(p, n) = Moved(p, n)
    /\ \A p, n : Abstract!Advance(p, n) = Advance(p, n)
    /\ \A s, j, n, d : Abstract!Patch(s, j, n, d) = Patch(s, j, n, d)
    /\ \A s, j, n : Abstract!Slice(s, j, n) = Slice(s, j, n)
BY DEF Abstract!LBA, LBA, Abstract!Lengths, Lengths, Abstract!Position, Position,
       Abstract!Offset, Offset, Abstract!EndPos, EndPos, Abstract!StartPos, StartPos,
       Abstract!Sector, Sector, Abstract!Data, Data, Abstract!Moved, Moved,
       Abstract!Advance, Advance, Abstract!Patch, Patch, Abstract!Slice, Slice

LEMMA WriteBackStep ==
    ASSUME NEW r, r.disk \in [LBA -> Sector], OnlyWroteBack(r), disk' = r.disk
    PROVE  Abstract!WriteBack
<1>. DEFINE W == {l \in LBA : disk'[l] = Visible(disk, map)[l]}
<1>1. disk' = [l \in LBA |-> IF l \in W THEN Visible(disk, map)[l] ELSE disk[l]]
  BY DEF OnlyWroteBack
<1>2. W \in SUBSET LBA
  OBVIOUS
<1>. HIDE DEF W
<1>. QED
  BY <1>1, <1>2, SameVocabulary DEF Abstract!WriteBack

\* A call that ended in a sound outcome restores the invariant.
LEMMA OutcomeInv ==
    ASSUME NEW r, SoundOutcome(r), disk' = r.disk, map' = r.map,
           pos' \in Position \cup {EndPos}, reply' \in Replies, open' \in BOOLEAN
    PROVE  IInv'
BY DEF SoundOutcome, Sound, IInv, TypeOK, CacheBounded, CleanMatchesDevice

LEMMA InitStep == Init => IInv /\ Abstract!Init
<1>. SUFFICES ASSUME Init PROVE IInv /\ Abstract!Init
  OBVIOUS
<1>1. DOMAIN NoSectors = {} /\ Cardinality({}) = 0
  BY FS_EmptySet DEF NoSectors
<1>2. StartPos \in Position
  BY SectorsAssumption, SectorSizeAssumption DEF StartPos, Position, LBA, Offset
<1>3. [call |-> "none"] \in Replies
  BY DEF Replies
<1>4. TypeOK
  BY <1>1, <1>2, <1>3 DEF Init, TypeOK
<1>5. CacheBounded /\ CleanMatchesDevice
  BY <1>1, CapAssumption DEF Init, CacheBounded, CleanMatchesDevice
<1>6. Visible(disk, map) = disk
  BY <1>1 DEF Visible, Init
<1>. QED
  BY <1>4, <1>5, <1>6, SameVocabulary DEF IInv, Init, Abstract!Init

LEMMA ReadStep ==
    ASSUME IInv, NEW len \in Lengths, Read(len)
    PROVE  IInv' /\ (Abstract!Read(len) \/ Abstract!Fail)
<1>. DEFINE n == Moved(pos, len)
<1>1. pos \in Position /\ pos.lba \in LBA /\ pos.inner \in Offset
  BY DEF Read, Position
<1>2. n \in Lengths /\ pos.inner + n <= SectorSize
  BY <1>1, MovedBounds
<1>3. PICK r \in Load(pos.lba) :
         Finish(r, n, [call |-> "read", got |-> Slice(r.map[pos.lba].data, pos.inner, n)])
  BY DEF Read
<1>4. /\ SoundOutcome(r)
      /\ OnlyWroteBack(r)
      /\ Visible(r.disk, r.map) = Visible(disk, map)
      /\ r.result = "Ok" => r.map[pos.lba].data = Visible(disk, map)[pos.lba]
  BY <1>1, LoadSound DEF KeepsView
<1>5. /\ disk' = r.disk
      /\ map' = r.map
      /\ open' = open
      /\ Visible(disk, map)' = Visible(disk, map)
  BY <1>3, <1>4 DEF Finish
<1>6. Abstract!WriteBack
  BY <1>4, <1>5, WriteBackStep DEF SoundOutcome, Sound
<1>7. CASE r.result = "Ok"
  <2>. DEFINE s == Visible(disk, map)[pos.lba]
  <2>1. /\ pos' = Advance(pos, n)
        /\ reply' = [call |-> "read", got |-> Slice(s, pos.inner, n)]
    BY <1>3, <1>4, <1>7 DEF Finish
  <2>2. s \in Sector
    BY <1>1 DEF Visible, IInv, TypeOK, CachedSector
  <2>3. Slice(s, pos.inner, n) \in Data(n)
    <3>1. \A i \in 0 .. n - 1 : pos.inner + i \in Offset
      BY <1>1, <1>2, SectorSizeAssumption DEF Lengths, Offset
    <3>. QED
      BY <2>2, <3>1 DEF Slice, Sector, Data
  <2>. HIDE DEF s, n
  <2>4. reply' \in Replies
    BY <1>2, <2>1, <2>3 DEF Replies
  <2>5. pos' \in Position \cup {EndPos}
    BY <1>1, <1>2, <2>1, AdvanceType
  <2>6. IInv'
    BY <1>4, <1>5, <2>4, <2>5, OutcomeInv DEF IInv, TypeOK
  <2>7. Abstract!Read(len)
    BY <1>1, <1>5, <1>6, <2>1, SameVocabulary DEF Abstract!Read, n, s
  <2>. QED
    BY <2>6, <2>7
<1>8. CASE r.result = "Err"
  <2>1. pos' = pos /\ reply' = [call |-> "error"]
    BY <1>3, <1>8 DEF Finish
  <2>2. reply' \in Replies
    BY <2>1 DEF Replies
  <2>3. IInv'
    BY <1>1, <1>4, <1>5, <2>1, <2>2, OutcomeInv DEF IInv, TypeOK
  <2>. QED
    BY <1>5, <1>6, <2>1, <2>3 DEF Abstract!Fail
<1>. QED
  BY <1>4, <1>7, <1>8 DEF SoundOutcome

LEMMA WriteWholeStep ==
    ASSUME IInv, NEW len \in Lengths, NEW data \in Data(len), WriteWhole(len, data)
    PROVE  IInv' /\ (Abstract!Write(len, data) \/ Abstract!Fail)
<1>1. /\ pos \in Position
      /\ pos.lba \in LBA
      /\ pos.inner = 0
      /\ len = SectorSize
  BY SectorSizeAssumption DEF WriteWhole, WholeSector, Position, Lengths
<1>2. data \in Sector
  BY <1>1 DEF Data, Sector, Offset
<1>3. PICK r \in Overwrite(pos.lba, data) :
         Finish(r, SectorSize, [call |-> "write", n |-> SectorSize])
  BY DEF WriteWhole
<1>4. /\ SoundOutcome(r)
      /\ OnlyWroteBack(r)
      /\ r.result = "Err" => Visible(r.disk, r.map) = Visible(disk, map)
      /\ r.result = "Ok" =>
            Visible(r.disk, r.map) = [Visible(disk, map) EXCEPT ![pos.lba] = data]
  BY <1>1, <1>2, OverwriteSound DEF KeepsView
<1>5. /\ disk' = r.disk
      /\ map' = r.map
      /\ open' = open
      /\ Visible(disk, map)' = Visible(r.disk, r.map)
  BY <1>3 DEF Finish
<1>6. Abstract!WriteBack
  BY <1>4, <1>5, WriteBackStep DEF SoundOutcome, Sound
<1>7. CASE r.result = "Ok"
  <2>1. /\ pos' = Advance(pos, SectorSize)
        /\ reply' = [call |-> "write", n |-> SectorSize]
    BY <1>3, <1>7 DEF Finish
  <2>2. SectorSize \in Lengths
    BY SectorSizeAssumption DEF Lengths
  <2>3. reply' \in Replies
    BY <2>1, <2>2 DEF Replies
  <2>4. pos' \in Position \cup {EndPos}
    BY <1>1, <2>1, <2>2, AdvanceType, SectorSizeAssumption
  <2>5. IInv'
    BY <1>4, <1>5, <2>3, <2>4, OutcomeInv DEF IInv, TypeOK
  <2>6. Moved(pos, len) = SectorSize
    BY <1>1, SectorSizeAssumption DEF Moved
  <2>7. Patch(Visible(disk, map)[pos.lba], 0, SectorSize, data) = data
    BY <1>2, SectorSizeAssumption DEF Patch, Sector, Offset
  <2>8. Abstract!Write(len, data)
    BY <1>1, <1>4, <1>5, <1>6, <1>7, <2>1, <2>6, <2>7, SameVocabulary DEF Abstract!Write
  <2>. QED
    BY <2>5, <2>8
<1>8. CASE r.result = "Err"
  <2>1. pos' = pos /\ reply' = [call |-> "error"]
    BY <1>3, <1>8 DEF Finish
  <2>2. reply' \in Replies
    BY <2>1 DEF Replies
  <2>3. IInv'
    BY <1>1, <1>4, <1>5, <2>1, <2>2, OutcomeInv DEF IInv, TypeOK
  <2>. QED
    BY <1>4, <1>5, <1>6, <1>8, <2>1, <2>3 DEF Abstract!Fail
<1>. QED
  BY <1>4, <1>7, <1>8 DEF SoundOutcome

LEMMA WritePartStep ==
    ASSUME IInv, NEW len \in Lengths, NEW data \in Data(len), WritePart(len, data)
    PROVE  IInv' /\ (Abstract!Write(len, data) \/ Abstract!Fail)
<1>. DEFINE n == Moved(pos, len)
<1>1. pos \in Position /\ pos.lba \in LBA /\ pos.inner \in Offset
  BY DEF WritePart, Position
<1>2. n \in Lengths /\ n <= len /\ pos.inner + n <= SectorSize
  BY <1>1, MovedBounds
<1>3. PICK r \in Modify(pos.lba, pos.inner, n, data) :
         Finish(r, n, [call |-> "write", n |-> n])
  BY DEF WritePart
<1>. HIDE DEF n
<1>4. \A s \in Sector : Patch(s, pos.inner, n, data) \in Sector
  BY <1>1, <1>2, PatchType
<1>5. /\ SoundOutcome(r)
      /\ OnlyWroteBack(r)
      /\ r.result = "Err" => Visible(r.disk, r.map) = Visible(disk, map)
      /\ r.result = "Ok" =>
            Visible(r.disk, r.map) =
              [Visible(disk, map) EXCEPT
                 ![pos.lba] = Patch(Visible(disk, map)[pos.lba], pos.inner, n, data)]
  BY <1>1, <1>4, ModifySound DEF KeepsView
<1>6. /\ disk' = r.disk
      /\ map' = r.map
      /\ open' = open
      /\ Visible(disk, map)' = Visible(r.disk, r.map)
  BY <1>3 DEF Finish
<1>7. Abstract!WriteBack
  BY <1>5, <1>6, WriteBackStep DEF SoundOutcome, Sound
<1>8. CASE r.result = "Ok"
  <2>1. pos' = Advance(pos, n) /\ reply' = [call |-> "write", n |-> n]
    BY <1>3, <1>8 DEF Finish
  <2>2. reply' \in Replies
    BY <1>2, <2>1 DEF Replies
  <2>3. pos' \in Position \cup {EndPos}
    BY <1>1, <1>2, <2>1, AdvanceType
  <2>4. IInv'
    BY <1>5, <1>6, <2>2, <2>3, OutcomeInv DEF IInv, TypeOK
  <2>5. Abstract!Write(len, data)
    BY <1>1, <1>5, <1>6, <1>7, <1>8, <2>1, SameVocabulary DEF Abstract!Write, n
  <2>. QED
    BY <2>4, <2>5
<1>9. CASE r.result = "Err"
  <2>1. pos' = pos /\ reply' = [call |-> "error"]
    BY <1>3, <1>9 DEF Finish
  <2>2. reply' \in Replies
    BY <2>1 DEF Replies
  <2>3. IInv'
    BY <1>1, <1>5, <1>6, <2>1, <2>2, OutcomeInv DEF IInv, TypeOK
  <2>. QED
    BY <1>5, <1>6, <1>7, <1>9, <2>1, <2>3 DEF Abstract!Fail
<1>. QED
  BY <1>5, <1>8, <1>9 DEF SoundOutcome

LEMMA FlushStep ==
    ASSUME IInv, Flush
    PROVE  IInv' /\ (Abstract!Flush \/ Abstract!Fail)
<1>1. PICK r \in FlushDirty : Finish(r, 0, [call |-> "flush"])
  BY DEF Flush
<1>2. /\ SoundOutcome(r)
      /\ OnlyWroteBack(r)
      /\ Visible(r.disk, r.map) = Visible(disk, map)
      /\ r.result = "Ok" => r.disk = Visible(disk, map)
  BY FlushDirtySound DEF KeepsView
<1>3. /\ disk' = r.disk
      /\ map' = r.map
      /\ open' = open
      /\ Visible(disk, map)' = Visible(disk, map)
  BY <1>1, <1>2 DEF Finish
<1>4. Abstract!WriteBack
  BY <1>2, <1>3, WriteBackStep DEF SoundOutcome, Sound
<1>5. Advance(pos, 0) = pos
  BY SectorSizeAssumption DEF IInv, TypeOK, Advance, Position, EndPos, Offset, LBA
<1>6. pos' = pos
  BY <1>1, <1>5 DEF Finish
<1>7. reply' = IF r.result = "Ok" THEN [call |-> "flush"] ELSE [call |-> "error"]
  BY <1>1 DEF Finish
<1>8. reply' \in Replies
  BY <1>7 DEF Replies
<1>9. IInv'
  BY <1>2, <1>3, <1>6, <1>8, OutcomeInv DEF IInv, TypeOK
<1>10. CASE r.result = "Ok"
  BY <1>2, <1>3, <1>6, <1>7, <1>9, <1>10 DEF Abstract!Flush
<1>11. CASE r.result = "Err"
  BY <1>3, <1>4, <1>6, <1>7, <1>9, <1>11 DEF Abstract!Fail
<1>. QED
  BY <1>2, <1>10, <1>11 DEF SoundOutcome

LEMMA SeekStep ==
    ASSUME IInv, Seek \/ SeekRefused
    PROVE  IInv' /\ (Abstract!Seek \/ Abstract!Fail)
<1>1. /\ disk' = disk /\ map' = map /\ open' = open
      /\ pos' \in Position \cup {EndPos}
      /\ reply' \in {[call |-> "seek"], [call |-> "error"]}
  BY DEF Seek, SeekRefused, IInv, TypeOK
<1>2. IInv'
  BY <1>1 DEF IInv, TypeOK, CacheBounded, CleanMatchesDevice, Replies
<1>3. CASE Seek
  BY <1>2, <1>3, SameVocabulary DEF Seek, Abstract!Seek
<1>4. CASE SeekRefused
  <2>1. disk' = [l \in LBA |-> IF l \in {} THEN Visible(disk, map)[l] ELSE disk[l]]
    BY <1>1 DEF IInv, TypeOK
  <2>2. \E W \in SUBSET LBA :
           disk' = [l \in LBA |-> IF l \in W THEN Visible(disk, map)[l] ELSE disk[l]]
    <3>. WITNESS {} \in SUBSET LBA
    <3>. QED
      BY <2>1
  <2>3. Abstract!WriteBack
    BY <2>2, SameVocabulary DEF Abstract!WriteBack
  <2>. QED
    BY <1>2, <1>4, <2>3 DEF SeekRefused, Abstract!Fail
<1>. QED
  BY <1>3, <1>4

LEMMA DropStep ==
    ASSUME IInv, Drop
    PROVE  IInv' /\ Abstract!Drop
<1>1. DOMAIN NoSectors = {} /\ Cardinality({}) = 0
  BY FS_EmptySet DEF NoSectors
<1>2. /\ map' = NoSectors
      /\ open' = FALSE
      /\ pos' = pos
  BY DEF Drop
<1>3. PICK r \in IF Dirty = {} THEN {[result |-> "Ok", disk |-> disk]} ELSE FlushDirty :
         /\ disk' = r.disk
         /\ reply' = [call |-> IF r.result = "Ok" THEN "drop" ELSE "lost"]
  BY DEF Drop
<1>4. /\ r.disk \in [LBA -> Sector]
      /\ OnlyWroteBack(r)
      /\ r.result \in {"Ok", "Err"}
      /\ r.result = "Ok" => r.disk = Visible(disk, map)
  <2>1. CASE Dirty = {}
    <3>1. r = [result |-> "Ok", disk |-> disk]
      BY <1>3, <2>1
    <3>2. disk = Visible(disk, map)
      BY <2>1 DEF Visible, Dirty, IInv, TypeOK, CleanMatchesDevice
    <3>. QED
      BY <3>1, <3>2 DEF OnlyWroteBack, IInv, TypeOK
  <2>2. CASE Dirty # {}
    <3>1. r \in FlushDirty
      BY <1>3, <2>2
    <3>. QED
      BY <3>1, FlushDirtySound DEF SoundOutcome, Sound
  <2>. QED
    BY <2>1, <2>2
<1>5. reply' \in Replies
  BY <1>3 DEF Replies
<1>6. TypeOK'
  BY <1>1, <1>2, <1>3, <1>4, <1>5 DEF IInv, TypeOK
<1>7. CacheBounded' /\ CleanMatchesDevice'
  BY <1>1, <1>2, CapAssumption DEF CacheBounded, CleanMatchesDevice
<1>8. Visible(disk, map)' = disk'
  BY <1>1, <1>2, <1>3, <1>4 DEF Visible
<1>9. CASE r.result = "Ok"
  BY <1>2, <1>3, <1>4, <1>6, <1>7, <1>8, <1>9 DEF IInv, Abstract!Drop
<1>10. CASE r.result = "Err"
  <2>1. Abstract!WriteBack
    BY <1>3, <1>4, WriteBackStep
  <2>. QED
    BY <1>2, <1>3, <1>6, <1>7, <1>8, <1>10, <2>1 DEF IInv, Abstract!Drop
<1>. QED
  BY <1>4, <1>9, <1>10

LEMMA NextStep ==
    ASSUME IInv, [Next]_vars
    PROVE  IInv' /\ [Abstract!Next]_(Abstract!vars)
<1>1. CASE UNCHANGED vars
  BY <1>1 DEF vars, IInv, TypeOK, CacheBounded, CleanMatchesDevice, Visible, Abstract!vars
<1>2. CASE Next
  <2>1. open
    BY <1>2 DEF Next
  <2>2. ASSUME NEW len \in Lengths, Read(len)
        PROVE  IInv' /\ Abstract!Next
    BY <2>1, <2>2, ReadStep, SameVocabulary DEF Abstract!Next
  <2>3. ASSUME NEW len \in Lengths, NEW data \in Data(len),
               WriteWhole(len, data) \/ WritePart(len, data)
        PROVE  IInv' /\ Abstract!Next
    <3>1. IInv' /\ (Abstract!Write(len, data) \/ Abstract!Fail)
      BY <2>3, WriteWholeStep, WritePartStep
    <3>. QED
      BY <2>1, <3>1, SameVocabulary DEF Abstract!Next
  <2>4. CASE Flush
    BY <2>1, <2>4, FlushStep DEF Abstract!Next
  <2>5. CASE Seek \/ SeekRefused
    BY <2>1, <2>5, SeekStep DEF Abstract!Next
  <2>6. CASE Drop
    BY <2>1, <2>6, DropStep DEF Abstract!Next
  <2>. QED
    BY <1>2, <2>2, <2>3, <2>4, <2>5, <2>6 DEF Next
<1>. QED
  BY <1>1, <1>2

-----------------------------------------------------------------------------
(* The results *)

\* The invariant of every reachable state of the cache.
THEOREM Invariance == Spec => []IInv
<1>1. Init => IInv
  BY InitStep
<1>2. IInv /\ [Next]_vars => IInv'
  BY NextStep
<1>. QED
  BY <1>1, <1>2, PTL DEF Spec

\* Every variable keeps its type.
THEOREM TypeCorrect == Spec => []TypeOK
<1>1. IInv => TypeOK
  BY DEF IInv
<1>. QED
  BY <1>1, Invariance, PTL

\* load() and overwrite() never let the map outgrow its capacity.
THEOREM NeverOverCap == Spec => []CacheBounded
<1>1. IInv => CacheBounded
  BY DEF IInv
<1>. QED
  BY <1>1, Invariance, PTL

\* What flush_dirty() forgets without writing is what the device already holds.
THEOREM CleanIsDevice == Spec => []CleanMatchesDevice
<1>1. IInv => CleanMatchesDevice
  BY DEF IInv
<1>. QED
  BY <1>1, Invariance, PTL

\* The cache implements the flat device the filesystem above it relies on.
THEOREM Refinement == Spec => ImplementsDevice
<1>1. Init => Abstract!Init
  BY InitStep
<1>2. IInv /\ [Next]_vars => [Abstract!Next]_(Abstract!vars)
  BY NextStep
<1>. QED
  BY <1>1, <1>2, Invariance, PTL DEF Spec, ImplementsDevice, Abstract!Spec
=============================================================================
