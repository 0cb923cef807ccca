------------------------------ MODULE ElTorito ------------------------------
(***************************************************************************)
(* The boot catalog of an image: eltorito_efi_rba() of                     *)
(* libbuf/src/copy/mod.rs, which looks for the image UEFI is to boot, and  *)
(* what it is to find.                                                     *)
(*                                                                         *)
(* A catalog is a sector of slots of 32 bytes.  Slot 0 validates it, slot  *)
(* 1 is the default entry; behind them come sections, each a header and as *)
(* many entries as it counts.  An entry stands for the image it names.     *)
(***************************************************************************)
EXTENDS Integers, FiniteSetsExt

CONSTANT Slots   \* slots of the catalog's sector

ASSUME SlotsAssumption == Slots \in Nat /\ Slots > 2

\* What the first byte of a slot makes of it, the platform a header names, and
\* the entries it counts.
Slot == [id : {"header", "final header", "bootable", "other"}, efi : BOOLEAN, count : Nat]

\* With the key bytes in place, or not.
Catalog == [valid : BOOLEAN, slot : [0 .. Slots - 1 -> Slot]]

NoEntry == -1
Beyond  == Slots   \* a slot that is read behind the end of the sector

IsHeader(s) == s.id \in {"header", "final header"}

\* The image an entry names, if it is bootable.
EntryAt(cat, i) == IF i >= Slots THEN Beyond
                   ELSE IF cat.slot[i].id = "bootable" THEN i ELSE NoEntry

\* Mutant of EfiEntry: the entries of the sections in between are not skipped.
EfiEntryNextSlot(cat) ==
    LET walk[i \in Nat] ==
            IF i >= Slots \/ ~IsHeader(cat.slot[i]) THEN NoEntry
            ELSE IF cat.slot[i].efi /\ cat.slot[i].count >= 1 THEN EntryAt(cat, i + 1)
            ELSE IF cat.slot[i].id = "final header" THEN NoEntry
            ELSE walk[i + 1]
    IN  IF ~cat.valid THEN NoEntry
        ELSE IF cat.slot[0].efi THEN EntryAt(cat, 1) ELSE walk[2]

\* The default entry when the whole catalog is for EFI, otherwise the first
\* entry of the first section that is.
EfiEntry(cat) ==
    LET walk[i \in Nat] ==
            IF i >= Slots \/ ~IsHeader(cat.slot[i]) THEN NoEntry
            ELSE IF cat.slot[i].efi /\ cat.slot[i].count >= 1 THEN EntryAt(cat, i + 1)
            ELSE IF cat.slot[i].id = "final header" THEN NoEntry
            ELSE walk[i + 1 + cat.slot[i].count]
    IN  IF ~cat.valid THEN NoEntry
        ELSE IF cat.slot[0].efi THEN EntryAt(cat, 1) ELSE walk[2]

-----------------------------------------------------------------------------
(* The same without a walk. *)

\* Slots at which sections begin: the smallest set that holds slot 2 and the
\* slot behind every section that says another one follows.
Behind(cat, i) == i + 1 + cat.slot[i].count

SectionStarts(cat) ==
    LET Closed(S) == /\ 2 \in S
                     /\ \A i \in S : cat.slot[i].id = "header" /\ Behind(cat, i) < Slots
                                        => Behind(cat, i) \in S
    IN  {i \in 2 .. Slots - 1 : \A S \in SUBSET (2 .. Slots - 1) : Closed(S) => i \in S}

EfiSections(cat) == {i \in SectionStarts(cat) :
                        /\ IsHeader(cat.slot[i])
                        /\ cat.slot[i].efi /\ cat.slot[i].count >= 1}

\* The entry UEFI is to boot; a header in the last slot has none.
BootEntry(cat) ==
    LET first == IF cat.slot[0].efi THEN {1}
                 ELSE {1 + Min(S) : S \in {EfiSections(cat)} \ {{}}}
        ready == {i \in first : i < Slots /\ cat.slot[i].id = "bootable"}
    IN  IF cat.valid /\ ready # {} THEN Min(ready) ELSE NoEntry
=============================================================================
