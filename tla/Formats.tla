-------------------------------- MODULE Formats --------------------------------
(***************************************************************************)
(* The image formats of vdisk.c: how a file becomes the tracks of a disk,   *)
(* and how the tracks become a file again.  VDK has a header that gives     *)
(* cylinders and heads; JVC a header with as many bytes as are needed, from *)
(* none, whose length is that of the file modulo 128; an OS-9 image without *)
(* a header is known by its first sector; DMK keeps tracks as they are.     *)
(*                                                                         *)
(* The machine may format a disk otherwise than its file was.  Bytes are    *)
(* counted, not kept: a sector is found again where it is read at the place *)
(* it was written at.                                                       *)
(***************************************************************************)
EXTENDS Integers, Sequences, FiniteSets, FiniteSetsExt

CONSTANTS
    Layouts,     \* of tracks: [first, last, code, dden], see below
    CylCounts,   \* bounds the cylinders a disk is formatted or extended to
    FormatTypes, \* "vdk", "jvc", "dmk"
    AutoOs9,     \* xroar.cfg.disk.auto_os9, or the file is an .os9
    NoImage, NoFs

\* A track has the sectors first to last, of 128 << code bytes, in double density or not.
TrackLayouts == [first : 0..255, last : 0..320, code : 0..3, dden : BOOLEAN]

\* What OS-9 says of a disk: its sectors, those of a track, and its sides.
FileSystems == [tot : Nat, tks : Nat \ {0}, sides : 1..2]

Shapes ==
    [type : {"vdk", "jvc", "dmk"}, cyls : 0..256, heads : 0..2, layouts : SUBSET TrackLayouts,
     lsn0 : FileSystems \union {NoFs}, headerless_os9 : BOOLEAN, remade : BOOLEAN]

Infos ==
    [cyls : Nat, heads : Nat, secs : Nat, first : Nat, code : -1..3,
     density : {"unknown", "mixed", "one"}]

ASSUME FormatsAssumption ==
    /\ Layouts \subseteq TrackLayouts
    /\ \A l \in Layouts : l.last \in l.first..255 /\ l.last - l.first < 64
    /\ CylCounts \subseteq 0..256 /\ AutoOs9 \subseteq BOOLEAN
    /\ FormatTypes \subseteq {"vdk", "jvc", "dmk"}
    /\ NoImage \notin Shapes \union Infos

VARIABLES
    shape,  \* the disk in the drive: its type, cylinders, heads and track layouts
    stored, \* its file, until the machine writes again
    auto    \* the setting

formatVars == <<shape, stored, auto>>

-----------------------------------------------------------------------------
Size(code) == <<128, 256, 512, 1024>>[code + 1]

\* vdisk_get_info, or NoImage where it finds no two sectors; cylinders that were
\* never formatted have none.  A disk of no cylinders has no sectors, and that is well.
GetInfo(d) ==
    LET codes == {l.code : l \in d.layouts}
        first == Min({l.first : l \in d.layouts})
        last == Max({l.last : l \in d.layouts})
    IN  IF d.cyls = 0 THEN [cyls |-> 0, heads |-> 0, secs |-> 0, first |-> 0, code |-> 0,
                            density |-> "unknown"]
        ELSE IF d.layouts = {} THEN NoImage
        ELSE IF last <= first THEN NoImage
        ELSE [cyls |-> d.cyls, heads |-> d.heads, secs |-> last + 1 - first, first |-> first,
              code |-> IF Cardinality(codes) = 1 THEN CHOOSE c \in codes : TRUE ELSE -1,
              density |-> IF Cardinality({l.dden : l \in d.layouts}) = 2 THEN "mixed"
                          ELSE "one"]

Standard == {35, 36, 40, 43, 80, 83}

\* standard_disk_size
StandardDiskSize(n) == IF n > 83 THEN n ELSE Min({s \in Standard : n <= s})

\* A file of one format; `head' is the header, and lsn0 what the first sector says of an
\* OS-9 file system.
ImageFile(type, head, bytes, lsn0) ==
    [type |-> type, head |-> head, bytes |-> bytes, lsn0 |-> lsn0, tracks |-> {}]

FirstSays(d, info) == IF info.first = 1 /\ info.code = 1 THEN d.lsn0 ELSE NoFs

\* vdisk_save_vdk: the header has the cylinders there are, in a byte.
SavedVdk(d) ==
    LET i == GetInfo(d)
    IN  IF i = NoImage THEN NoImage
        ELSE IF i.density = "mixed" \/ i.code # 1 \/ i.secs # 18 THEN NoImage
        ELSE ImageFile("vdk", <<i.cyls % 256, i.heads>>,
                       StandardDiskSize(i.cyls) * i.heads * 18 * 256, FirstSays(d, i))

\* (Slip: the header stops before a first sector that is not 1.)
JvcHeaderShort(i) ==
    IF i.code # 1 THEN 3 ELSE IF i.heads # 1 THEN 2 ELSE IF i.secs # 18 THEN 1 ELSE 0

JvcHeader(i) ==
    IF i.first # 1 THEN 4 ELSE IF i.code # 1 THEN 3 ELSE IF i.heads # 1 THEN 2
    ELSE IF i.secs # 18 THEN 1 ELSE 0

\* vdisk_save_jvc: the header is as long as it must be, but for OS-9 has none again.
SavedJvc(d) ==
    LET i == GetInfo(d)
        full == <<i.secs, i.heads, i.code, i.first>>
    IN  IF i = NoImage THEN NoImage
        ELSE IF i.density = "mixed" \/ i.code = -1 THEN NoImage
        ELSE ImageFile("jvc", SubSeq(full, 1, IF d.headerless_os9 THEN 0 ELSE JvcHeader(i)),
                       StandardDiskSize(i.cyls) * i.heads * i.secs * Size(i.code),
                       FirstSays(d, i))

\* vdisk_save_dmk
SavedDmk(d) ==
    [type |-> "dmk", head |-> <<d.cyls % 256, d.heads>>, bytes |-> 0, lsn0 |-> d.lsn0,
     tracks |-> d.layouts]

SavedAs(d) ==
    CASE d.type = "vdk" -> SavedVdk(d)
      [] d.type = "jvc" -> SavedJvc(d)
      [] d.type = "dmk" -> SavedDmk(d)

-----------------------------------------------------------------------------
\* vdisk_format_disk, before the sectors are written.
Formatted(type, cyls, heads, layout, lsn0, headerless) ==
    IF cyls > 256 \/ heads > 2 THEN NoImage
    ELSE [type |-> type, cyls |-> cyls, heads |-> IF cyls = 0 THEN 0 ELSE heads,
          layouts |-> IF cyls = 0 \/ heads = 0 THEN {} ELSE {layout},
          lsn0 |-> lsn0, headerless_os9 |-> headerless, remade |-> FALSE]

LoadedVdk(f) ==
    Formatted("vdk", f.head[1], f.head[2],
              [first |-> 1, last |-> 18, code |-> 1, dden |-> TRUE], f.lsn0, FALSE)

\* do_load_jvc, once it knows the sectors: how many tracks they are.
Divided(f, nsectors, nheads, code, first, os9) ==
    LET bytes_per_cyl == nsectors * Size(code) * nheads
        twice == nheads = 1 /\ f.bytes \div bytes_per_cyl >= 88
        per_cyl == IF twice THEN 2 * bytes_per_cyl ELSE bytes_per_cyl
        ncyls == f.bytes \div per_cyl + (IF f.bytes % per_cyl >= Size(code) THEN 1 ELSE 0)
    IN  IF bytes_per_cyl = 0 \/ nsectors > 64 THEN NoImage
        ELSE Formatted("jvc", ncyls, IF twice THEN 2 ELSE nheads,
                       [first |-> first, last |-> first + nsectors - 1, code |-> code,
                        dden |-> nsectors # 10], \* xroar.cfg.disk.auto_sd
                       f.lsn0, os9)

\* do_load_jvc, of files without sector attributes, which are never written.
IsOs9(f) ==
    f.head = <<>> /\ auto /\ f.lsn0 # NoFs /\ f.lsn0.tot * 256 >= f.bytes /\ f.lsn0.tks > 0

LoadedJvc(f) ==
    LET field(n, default) == IF Len(f.head) >= n THEN f.head[n] ELSE default
    IN  IF IsOs9(f) THEN Divided(f, f.lsn0.tks, f.lsn0.sides, 1, 1, TRUE)
        ELSE Divided(f, field(1, 18), field(2, 1), field(3, 1) % 4, field(4, 1), FALSE)

\* vdisk_load_dmk
LoadedDmk(f) ==
    [Formatted("dmk", f.head[1], f.head[2], CHOOSE l \in Layouts : TRUE, f.lsn0, FALSE)
       EXCEPT !.layouts = IF f.head[1] = 0 THEN {} ELSE f.tracks]

LoadedAs(f) ==
    CASE f.type = "vdk" -> LoadedVdk(f)
      [] f.type = "jvc" -> LoadedJvc(f)
      [] f.type = "dmk" -> LoadedDmk(f)

-----------------------------------------------------------------------------
\* What OS-9 puts into the first sector of a disk it formats.
Os9Of(l, cyls, heads) ==
    IF l.first = 1 /\ l.code = 1
      THEN {NoFs, [tot |-> cyls * heads * l.last, tks |-> l.last, sides |-> heads]}
      ELSE {NoFs}

\* A disk is written to its file, on being flushed or ejected.
SaveShape ==
    /\ stored = NoImage
    /\ stored' = SavedAs(shape) /\ stored' # NoImage
    /\ UNCHANGED <<shape, auto>>

\* The file is inserted again.
LoadShape ==
    /\ stored # NoImage
    /\ LoadedAs(stored) # NoImage /\ shape' = LoadedAs(stored)
    /\ stored' = NoImage
    /\ UNCHANGED auto

Wider(a, b) == IF a > b THEN a ELSE b

\* The machine formats all of a disk or, having formatted it otherwise before, its
\* last cylinders only; vdisk_extend_disk makes room, and cylinders are never lost.
FormatDisk(l, cyls, heads) ==
    /\ stored' = NoImage
    /\ cyls > 0
    /\ \E lsn0 \in Os9Of(l, cyls, heads) :
          shape' = [shape EXCEPT !.layouts = IF cyls >= shape.cyls /\ heads >= shape.heads
                                             THEN {l} ELSE @ \union {l},
                                 !.cyls = Wider(@, cyls), !.heads = Wider(@, heads),
                                 !.lsn0 = lsn0, !.remade = TRUE]
    /\ UNCHANGED auto

FormatRest(l) ==
    /\ stored' = NoImage
    /\ shape.cyls > 0
    /\ shape' = [shape EXCEPT !.layouts = @ \union {l}, !.remade = TRUE]
    /\ UNCHANGED auto

\* Whatever is written on a cylinder further in makes room for it.
ExtendShape ==
    /\ stored' = NoImage
    /\ shape.cyls > 0 /\ shape.cyls + 1 \in CylCounts
    /\ shape' = [shape EXCEPT !.cyls = @ + 1, !.remade = TRUE]
    /\ UNCHANGED auto

\* A new disk; or a file from elsewhere, a JVC without header among them.
FormatsInit ==
    /\ auto \in AutoOs9
    /\ stored = NoImage
    /\ \/ \E type \in FormatTypes :
             shape = [type |-> type, cyls |-> 0, heads |-> 0, layouts |-> {}, lsn0 |-> NoFs,
                      headerless_os9 |-> FALSE, remade |-> FALSE]
       \/ \E l \in Layouts, cyls \in CylCounts, heads \in 1..2 :
             \E lsn0 \in Os9Of(l, cyls, heads) \ {NoFs} :
                /\ shape = LoadedJvc(ImageFile("jvc", <<>>, cyls * heads * l.last * 256, lsn0))
                /\ shape # NoImage

FormatsNext ==
    \/ SaveShape \/ LoadShape \/ ExtendShape
    \/ \E l \in Layouts :
          \/ FormatRest(l)
          \/ \E cyls \in CylCounts, heads \in 1..2 : FormatDisk(l, cyls, heads)

FormatsSpec == FormatsInit /\ [][FormatsNext]_formatVars

-----------------------------------------------------------------------------
FormatsOK == shape \in Shapes /\ auto \in BOOLEAN

\* What the formats cannot say, and the code saves all the same.
Unsayable(d) ==
    \/ d.type = "vdk" /\ (\E l \in d.layouts : l.first # 1) \* it warns, vdisk.c:415-417
    \/ d.type = "jvc" /\ d.heads = 1 /\ d.cyls >= 88        \* taken for two sides
    \/ d.type = "jvc" /\ (\E l, m \in d.layouts : l.last - m.first >= 64) \* too many
    \/ d.type = "jvc" /\ d.headerless_os9                   \* saved without a header
         /\ \/ d.remade \/ StandardDiskSize(d.cyls) # d.cyls
            \/ d.lsn0.tot < d.cyls * d.heads * d.lsn0.tks   \* the last side was made up
    \/ d.type # "jvc" /\ d.cyls = 256                       \* a byte is too small
    \/ d.type = "jvc" /\ d.cyls = 0                         \* a header of zeros

\* However a disk was loaded and has been formatted since, what is saved without error
\* is read back as it was: every sector is found, with its size, under its head, at the
\* place in the file it was written at.  The exceptions are named by Unsayable.
SectorsReloaded ==
    /\ FormatsOK
    /\ stored # NoImage /\ ~Unsayable(shape) =>
        LET was == GetInfo(shape)
            again == LoadedAs(stored)
            is == GetInfo(again)
        IN  /\ again # NoImage
            /\ shape.type # "dmk" =>
                 is # NoImage /\ is = [was EXCEPT !.cyls = is.cyls] /\ is.cyls >= was.cyls
            /\ shape.type = "dmk" =>
                 again.cyls = shape.cyls /\ again.heads = shape.heads
                 /\ again.layouts = shape.layouts
================================================================================
