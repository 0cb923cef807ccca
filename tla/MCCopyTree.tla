----------------------------- MODULE MCCopyTree -----------------------------
(***************************************************************************)
(* Real sizes, in words of eight bytes, and five families of jobs: drives  *)
(* filled to the last cluster the estimate allows, and beyond; pairs of    *)
(* entries of every kind whose names differ in case only, or are refused   *)
(* by FAT; loaders in the tree and in the boot image; every catalog of six *)
(* slots, with sections of up to three entries; and drives with sectors of *)
(* 4096 bytes.                                                             *)
(***************************************************************************)
EXTENDS CopyTree, TLC

MCMiB           == 131072
MCSectorSizes   == {64, 512}
MCNtfsSector    == 64
MCGptArrayBytes == 2048
MCFloorBytes    == 64 * MCMiB
MCLoaderBytes   == MCMiB
MCSlots         == 6

Numbered == {"n" \o ToString(i) : i \in 1 .. 33}
MCNames  == {"EFI", "efi", "BOOT", "boot", "BOOTX64.EFI", "bootx64.efi", "big", "a", "A", "b:"}
               \cup Numbered
MCFold == [n \in MCNames |->
              CASE n = "EFI" -> "efi" [] n = "BOOT" -> "boot"
                [] n = "BOOTX64.EFI" -> "bootx64.efi" [] n = "A" -> "a" [] OTHER -> n]
MCNameSlots   == [n \in MCNames |-> IF n \in Numbered THEN 4 ELSE 2]
MCBadNames    == {"b:"}
MCLoaderDirs  == <<"efi", "boot">>
MCLoaderNames == {"bootx64.efi"}

-----------------------------------------------------------------------------
Nothing  == [is |-> "nothing", len |-> 0]
AFile(n) == [is |-> "file", len |-> n]
ADir     == [is |-> "dir", len |-> 256]

Node(p, kind, seen, inside) == [path |-> p, kind |-> kind, seen |-> seen, inside |-> inside]
FileAt(p, n) == Node(p, "file", AFile(n), AFile(n))
DirAt(p)     == Node(p, "dir", ADir, ADir)

NoCatalog == [valid |-> FALSE,
              slot  |-> [i \in 0 .. MCSlots - 1 |-> [id |-> "other", efi |-> FALSE, count |-> 0]]]
EfiCatalog == [NoCatalog EXCEPT !.valid = TRUE, !.slot[0].efi = TRUE, !.slot[1].id = "bootable"]
NoImage == [fat |-> FALSE, files |-> <<>>]

Plain(os, s, size, tree) ==
    [os |-> os, sector |-> s, size |-> size, tree |-> tree,
     record |-> FALSE, catalog |-> NoCatalog, image |-> NoImage]

-----------------------------------------------------------------------------
(* Drives filled to the edge. *)

\* d directories of f small files with long names each.
Small(d, f) ==
    SX!FlattenSeq([i \in 1 .. d |->
        <<DirAt(<<"n" \o ToString(i)>>)>> \o
        [j \in 1 .. f |-> FileAt(<<"n" \o ToString(i), "n" \o ToString(j)>>, 1)]])

\* The same with four files of n words in all, the last of them at the root.
Filled(d, f, n) ==
    LET q == n \div 4
        r == n - 3 * q
    IN  Small(d, f) \o <<FileAt(<<"a">>, q), FileAt(<<"EFI">>, q), FileAt(<<"BOOT">>, q),
                         FileAt(<<"big">>, r)>>

\* What the estimate leaves for those four files.
Left(size, s, d, f) ==
    LET part == Parts(size \div s, s, FALSE)[1] * s
        c    == Fat32Cluster(part, s)
    IN  ((part - FatOverhead(part, s, c) - (d + d * f + 4) * 16 - d * c - d * f * c)
            \div (4 * c)) * 4 * c

ClusterOf(size, s) == Fat32Cluster(Parts(size \div s, s, FALSE)[1] * s, s)

FloorSize(s) == (Reserved(s, FALSE) + FloorSectors(s)) * s
Sizes512  == {FloorSize(64) + 64, 262 * MiB, 300 * MiB, 8 * GiB, 9 * GiB}
Sizes4096 == {FloorSize(512) + 512, 300 * MiB, 3 * GiB}
Shapes    == {<<0, 0>>, <<1, 3>>, <<1, 5>>, <<4, 1>>, <<1, 33>>, <<3, 11>>}

Edges == {Plain("linux", 64, size, Filled(z[1], z[2], Left(size, 64, z[1], z[2]) + over)) :
             size \in Sizes512, z \in Shapes, over \in {-1, 0, 1}}
         \cup {Plain("linux", 64, size,
                     Filled(z[1], z[2], Left(size, 64, z[1], z[2]) + k * ClusterOf(size, 64))) :
             size \in Sizes512, z \in Shapes, k \in {16, 64}}
         \cup {Plain("linux", 512, size, Filled(1, 3, Left(size, 512, 1, 3))) : size \in Sizes4096}
         \cup {Plain("linux", s, FloorSize(s), <<>>) : s \in MCSectorSizes}
         \cup {Plain(os, s, 8 * GiB, <<FileAt(<<"big">>, 4 * GiB - 1 + over)>>) :
                  os \in {"linux", "windows", "macos"}, s \in MCSectorSizes, over \in {0, 1}}

-----------------------------------------------------------------------------
(* Pairs of entries. *)

Links(p) == {Node(p, "link", seen, inside) :
                seen \in {Nothing, AFile(70), ADir},
                inside \in {Nothing, AFile(70), AFile(5 * GiB), ADir}}

Varieties(p) ==
    {<<n>> : n \in {FileAt(p, k) : k \in {0, 70, 200}} \cup Links(p)
                     \cup {Node(p, "untyped", AFile(70), Nothing), DirAt(p)}}
    \cup {<<DirAt(p), FileAt(p \o <<"a">>, 70)>>, <<DirAt(p), FileAt(p \o <<"b:">>, 70)>>}

Oversized == <<FileAt(<<"big">>, 5 * GiB)>>

Pairs == {Plain(os, 64, 8 * GiB, v \o w \o big) :
             os \in {"linux", "windows"}, v \in Varieties(<<"a">>), big \in {<<>>, Oversized},
             w \in Varieties(<<"A">>) \cup {<<>>, <<FileAt(<<"b:">>, 70)>>,
                                            <<Node(<<"b:">>, "link", Nothing, Nothing)>>}}

-----------------------------------------------------------------------------
(* Loaders. *)

Loader == <<"EFI", "BOOT", "BOOTX64.EFI">>
loader == <<"efi", "boot", "bootx64.efi">>

LoaderTrees ==
    {<<>>, <<FileAt(<<"EFI">>, 70)>>, <<DirAt(<<"efi">>), FileAt(<<"efi", "boot">>, 70)>>}
    \cup {<<DirAt(<<"EFI">>), DirAt(<<"EFI", "BOOT">>), n>> :
             n \in Links(Loader) \cup {FileAt(Loader, 70), DirAt(Loader), FileAt(<<"EFI", "BOOT", "a">>, 9),
                                       Node(Loader, "untyped", AFile(70), Nothing)}}
    \cup {<<DirAt(<<"EFI">>), DirAt(<<"EFI", "BOOT">>), FileAt(Loader, 70),
            DirAt(<<"efi">>), DirAt(<<"efi", "boot">>), FileAt(loader, 9)>>}

Images == {<<>>, <<<<"a">>>>, <<loader>>, <<<<"a">>, loader>>, <<loader, <<"EFI", "BOOT", "a">>>>,
           <<<<"boot", "a">>, Loader>>}

LoaderJobs ==
    {[Plain(os, 64, 8 * GiB, t \o big) EXCEPT
         !.record = record, !.catalog = cat,
         !.image = [fat |-> fat, files |-> [i \in DOMAIN im |-> [path |-> im[i], len |-> 100]]]] :
        os \in {"linux", "windows"}, t \in LoaderTrees, big \in {<<>>, Oversized},
        record \in BOOLEAN, cat \in {EfiCatalog}, fat \in BOOLEAN, im \in Images}

-----------------------------------------------------------------------------
(* Catalogs. *)

SlotKinds == [id : {"header", "final header"}, efi : BOOLEAN, count : {0, 1, 3}]
               \cup [id : {"bootable", "other"}, efi : {FALSE}, count : {0}]

SlotSeqs == {t \in SlotKinds \X SlotKinds \X SlotKinds \X SlotKinds :
                \* what is behind the end of the walk is all the same
                /\ ~IsHeader(t[1]) => t[2] = t[1] /\ t[3] = t[1] /\ t[4] = t[1]
                /\ t[4].id = "final header" => t[4].count = 1}

Catalogs == {[valid |-> TRUE,
              slot  |-> [i \in 0 .. 5 |->
                            IF i < 2 THEN [id |-> "bootable", efi |-> FALSE, count |-> 0]
                            ELSE t[i - 1]]] : t \in SlotSeqs}
            \cup {[EfiCatalog EXCEPT !.valid = v, !.slot[1].id = id] :
                     v \in BOOLEAN, id \in {"bootable", "other"}}

CatalogJobs == {[Plain("linux", 64, 300 * MiB, <<>>) EXCEPT !.record = TRUE, !.catalog = cat] :
                   cat \in Catalogs}

MCJobs == Edges \cup Pairs \cup LoaderJobs \cup CatalogJobs
=============================================================================
