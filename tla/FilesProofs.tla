----------------------------- MODULE FilesProofs -----------------------------
(***************************************************************************)
(* What is proved about the files of the user: disk images, for any drives *)
(* and files and whatever the host does to a save; the ROM library of the  *)
(* Android application, for any ROMs; what is printed, for any names; the  *)
(* files that the web page fetches, for any requests that wait on them; and*)
(* the formats of disk images, for any layouts and any numbers of cylinders.*)
(***************************************************************************)
EXTENDS Images, Formats, Library, Printer, Fetch, FiniteSetTheorems, SequenceTheorems,
        WellFoundedInduction, TLAPS

-----------------------------------------------------------------------------
(* Disk images: what a save leaves *)

Stores ==
    [file : [Files -> Contents \union {Absent}], bak : [Files -> Contents \union {Absent}],
     disk : [ImageDrives -> Copies \union {NoCopy}], cut : SUBSET Files,
     host : {"ok", "open", "short", "crash"}]

In(s, d) == s.disk[d] # NoCopy

(* A file that no new disk was given the name of is as it was first seen, or its backup
   is, which is never made again; and one that a disk was loaded from was there.  The
   second part is what makes the first inductive: the first save of the disk would
   otherwise find nothing to move. *)
KeptFile(s, f) ==
    /\ s.bak[f] = Absent => s.file[f] = orig[f]
    /\ s.bak[f] # Absent => s.bak[f] = orig[f]
    /\ (\E d \in ImageDrives : In(s, d) /\ s.disk[d].file = f) => orig[f] # Absent

Kept(s) ==
    /\ \A f \in Files \ renamed : KeptFile(s, f)
    /\ \A d \in ImageDrives : In(s, d) /\ s.disk[d].new => s.disk[d].file \in renamed

(* A disk that is thought clean is what its file holds, if no other drive may have
   written that file, and the file could hold it. *)
CleanDisk(s, d) ==
    In(s, d) /\ ~s.disk[d].dirty /\ s.disk[d].fits /\ s.disk[d].file \notin shared =>
        s.file[s.disk[d].file] = s.disk[d].data \/ s.disk[d].file \in s.cut

HeldOnce(s) ==
    \A d, e \in ImageDrives :
        In(s, d) /\ In(s, e) /\ d # e /\ s.disk[d].file = s.disk[e].file =>
            s.disk[d].file \in shared

Clean(s) == HeldOnce(s) /\ \A d \in ImageDrives : CleanDisk(s, d)

GoodStore(s) == s \in Stores /\ Kept(s) /\ Clean(s)

(* The file is moved, or was before. *)
LEMMA BackUpKeeps ==
    ASSUME NEW s \in Stores, Kept(s), NEW d \in ImageDrives, In(s, d), ~s.disk[d].new
    PROVE  LET f == s.disk[d].file
               t == BackUp(s, f)
           IN  /\ t \in Stores /\ t.disk = s.disk /\ t.cut = s.cut /\ t.host = s.host
               /\ f \notin renamed => t.bak[f] = orig[f] /\ orig[f] # Absent
               /\ \A g \in Files \ {f} : t.file[g] = s.file[g] /\ t.bak[g] = s.bak[g]
  <1> DEFINE f == s.disk[d].file
             t == BackUp(s, f)
  <1>1. f \in Files
    BY NoCopyAssumption DEF Stores, Copies, In
  <1>2. CASE s.bak[f] = Absent /\ s.file[f] # Absent
    <2>1. t = [s EXCEPT !.bak[f] = s.file[f], !.file[f] = Absent]
      BY <1>2 DEF BackUp
    <2>2. /\ t \in Stores /\ t.disk = s.disk /\ t.cut = s.cut /\ t.host = s.host
          /\ t.bak = [s.bak EXCEPT ![f] = s.file[f]]
          /\ t.file = [s.file EXCEPT ![f] = Absent]
      <3>1. s.file[f] \in Contents \union {Absent}
        BY <1>1 DEF Stores
      <3> DEFINE moved == [s.bak EXCEPT ![f] = s.file[f]]
                 file1 == [s.file EXCEPT ![f] = Absent]
      <3>2. moved \in [Files -> Contents \union {Absent}]
        BY <1>1, <3>1 DEF Stores
      <3>3. file1 \in [Files -> Contents \union {Absent}]
        BY <1>1 DEF Stores
      <3>4. t = [s EXCEPT !.bak = moved, !.file = file1]
        BY <2>1
      <3> HIDE DEF f, moved, file1, t
      <3>5. t \in Stores /\ t.disk = s.disk /\ t.cut = s.cut /\ t.host = s.host
            /\ t.bak = moved /\ t.file = file1
        BY <3>2, <3>3, <3>4 DEF Stores
      <3> QED
        BY <3>5 DEF moved, file1
    <2> HIDE DEF t
    <2> QED
      BY <1>1, <1>2, <2>2 DEF Kept, KeptFile, Stores, t
  <1>3. CASE ~(s.bak[f] = Absent /\ s.file[f] # Absent)
    <2>1. t = s
      BY <1>3 DEF BackUp
    <2> QED
      BY <1>1, <1>3, <2>1 DEF Kept, KeptFile, In
  <1> QED
    BY <1>2, <1>3

LEMMA HoldsStore ==
    ASSUME NEW s \in Stores, NEW f \in Files, NEW c \in Contents
    PROVE  LET t == Holds(s, f, c)
           IN  /\ t \in Stores /\ t.disk = s.disk /\ t.bak = s.bak /\ t.host = s.host
               /\ t.file = [s.file EXCEPT ![f] = c] /\ t.cut = s.cut \ {f}
  <1> DEFINE file1 == [s.file EXCEPT ![f] = c]
             cut1 == s.cut \ {f}
  <1>1. file1 \in [Files -> Contents \union {Absent}] /\ cut1 \in SUBSET Files
    BY DEF Stores
  <1>2. Holds(s, f, c) = [s EXCEPT !.file = file1, !.cut = cut1]
    BY DEF Holds
  <1> HIDE DEF file1, cut1
  <1>3. LET t == Holds(s, f, c)
        IN  /\ t \in Stores /\ t.disk = s.disk /\ t.bak = s.bak /\ t.host = s.host
            /\ t.file = file1 /\ t.cut = cut1
    BY <1>1, <1>2 DEF Stores
  <1> QED
    BY <1>3 DEF file1, cut1

(* A disk is marked clean. *)
LEMMA CleanedStore ==
    ASSUME NEW s \in Stores, NEW d \in ImageDrives, In(s, d)
    PROVE  LET t == [s EXCEPT !.disk[d].dirty = FALSE]
           IN  /\ t \in Stores /\ t.file = s.file /\ t.bak = s.bak /\ t.cut = s.cut
               /\ t.host = s.host /\ t.disk = [s.disk EXCEPT ![d].dirty = FALSE]
  <1> DEFINE disk1 == [s.disk EXCEPT ![d].dirty = FALSE]
  <1>1. s.disk[d] \in Copies
    BY DEF Stores, In
  <1>2. [s.disk[d] EXCEPT !.dirty = FALSE] \in Copies
    BY <1>1 DEF Copies
  <1>3. disk1 \in [ImageDrives -> Copies \union {NoCopy}]
    BY <1>2 DEF Stores
  <1>4. [s EXCEPT !.disk[d].dirty = FALSE] = [s EXCEPT !.disk = disk1]
    OBVIOUS
  <1> HIDE DEF disk1
  <1>5. LET t == [s EXCEPT !.disk = disk1]
        IN  /\ t \in Stores /\ t.file = s.file /\ t.bak = s.bak /\ t.cut = s.cut
            /\ t.host = s.host /\ t.disk = disk1
    BY <1>3 DEF Stores
  <1> QED
    BY <1>4, <1>5 DEF disk1

(* Its fields otherwise, and the other disks, are as they were. *)
LEMMA CleanedDisk ==
    ASSUME NEW s \in Stores, NEW t \in Stores, NEW d \in ImageDrives, In(s, d),
           t.disk = [s.disk EXCEPT ![d].dirty = FALSE]
    PROVE  /\ \A e \in ImageDrives \ {d} : t.disk[e] = s.disk[e]
           /\ In(t, d) /\ ~t.disk[d].dirty
           /\ t.disk[d].file = s.disk[d].file /\ t.disk[d].data = s.disk[d].data
           /\ t.disk[d].new = s.disk[d].new /\ t.disk[d].fits = s.disk[d].fits
  <1>1. s.disk[d] \in Copies
    BY DEF Stores, In
  <1>2. t.disk[d] = [s.disk[d] EXCEPT !.dirty = FALSE]
    BY DEF Stores
  <1>3. t.disk[d] \in Copies
    BY <1>1, <1>2 DEF Copies
  <1> QED
    BY <1>1, <1>2, <1>3, NoCopyAssumption DEF Copies, In, Stores

(* What vdisk_save may leave of a dirty disk and its file: the disk is clean only if its
   file holds it, or is known to be cut short, or could not hold it. *)
LEMMA WrittenOverSaves ==
    ASSUME NEW s \in Stores, s.host = "ok", NEW d \in ImageDrives, In(s, d),
           s.disk[d].dirty, NEW t \in WrittenOver(s, d)
    PROVE  LET f == s.disk[d].file
               k == s.disk[d]
           IN  /\ t \in Stores /\ t.bak = s.bak
               /\ \A g \in Files \ {f} : t.file[g] = s.file[g] /\ (g \in t.cut <=> g \in s.cut)
               /\ \/ t.disk = s.disk
                  \/ /\ t.disk = [s.disk EXCEPT ![d].dirty = FALSE]
                     /\ k.fits => t.file[f] = k.data \/ f \in t.cut
               /\ t.host = "ok" /\ k.fits => t.file[f] = k.data
  <1> DEFINE k == s.disk[d]
             f == k.file
             torn == Holds(s, f, Torn)
             held == Holds(s, f, k.data)
  <1>1. k \in Copies /\ f \in Files /\ k.data \in Contents /\ Torn \in Contents
    BY DEF Stores, In, Copies, Contents
  <1> HIDE DEF k, f
  <1>2. /\ torn \in Stores /\ torn.disk = s.disk /\ torn.bak = s.bak /\ torn.host = "ok"
        /\ torn.file = [s.file EXCEPT ![f] = Torn] /\ torn.cut = s.cut \ {f}
    BY <1>1, HoldsStore
  <1>3. /\ held \in Stores /\ held.disk = s.disk /\ held.bak = s.bak /\ held.host = "ok"
        /\ held.file = [s.file EXCEPT ![f] = k.data] /\ held.cut = s.cut \ {f}
    BY <1>1, HoldsStore
  <1>4. s.file \in [Files -> Contents \union {Absent}]
    BY DEF Stores
  <1> DEFINE Left(u) ==
        /\ u \in Stores /\ u.bak = s.bak
        /\ \A g \in Files \ {f} : u.file[g] = s.file[g] /\ (g \in u.cut <=> g \in s.cut)
        /\ \/ u.disk = s.disk
           \/ /\ u.disk = [s.disk EXCEPT ![d].dirty = FALSE]
              /\ k.fits => u.file[f] = k.data \/ f \in u.cut
        /\ u.host = "ok" /\ k.fits => u.file[f] = k.data
  <1>5. CASE k.fits /\ t = [held EXCEPT !.disk[d].dirty = FALSE]
    <2>1. In(held, d)
      BY <1>3 DEF In
    <2>2. /\ t \in Stores /\ t.disk = [s.disk EXCEPT ![d].dirty = FALSE] /\ t.bak = s.bak
          /\ t.file = held.file /\ t.cut = held.cut
      BY <1>3, <1>5, <2>1, CleanedStore
    <2>3. Left(t)
      BY <1>1, <1>3, <1>4, <2>2
    <2> QED
      BY <2>3 DEF k, f
  <1>6. CASE ~k.fits /\ t = torn
    <2>1. Left(t)
      BY <1>1, <1>2, <1>4, <1>6
    <2> QED
      BY <2>1 DEF k, f
  <1>7. CASE ~k.fits /\ t = [torn EXCEPT !.disk[d].dirty = FALSE]
    <2>1. In(torn, d)
      BY <1>2 DEF In
    <2>2. /\ t \in Stores /\ t.disk = [s.disk EXCEPT ![d].dirty = FALSE] /\ t.bak = s.bak
          /\ t.file = torn.file /\ t.cut = torn.cut
      BY <1>2, <1>7, <2>1, CleanedStore
    <2>3. Left(t)
      BY <1>1, <1>2, <1>4, <1>7, <2>2
    <2> QED
      BY <2>3 DEF k, f
  <1>8. CASE t = [s EXCEPT !.host = "open"]
    <2>1. t \in Stores /\ t.disk = s.disk /\ t.bak = s.bak /\ t.file = s.file
          /\ t.cut = s.cut /\ t.host = "open"
      BY <1>8 DEF Stores
    <2>2. Left(t)
      BY <2>1
    <2> QED
      BY <2>2 DEF k, f
  <1>9. CASE t = [torn EXCEPT !.disk[d].dirty = FALSE, !.cut = @ \union {f}, !.host = "short"]
    <2> DEFINE u == [torn EXCEPT !.disk[d].dirty = FALSE]
               c == torn.cut \union {f}
    <2>1. In(torn, d)
      BY <1>2 DEF In
    <2>2. /\ u \in Stores /\ u.disk = [s.disk EXCEPT ![d].dirty = FALSE] /\ u.bak = s.bak
          /\ u.file = torn.file /\ u.cut = torn.cut
      BY <1>2, <2>1, CleanedStore
    <2>3. t = [u EXCEPT !.cut = c, !.host = "short"]
      BY <1>2, <1>9, <2>2
    <2>4. c \in SUBSET Files
      BY <1>1, <1>2 DEF Stores
    <2> HIDE DEF u, c
    <2>5. t \in Stores /\ t.disk = u.disk /\ t.bak = u.bak /\ t.file = u.file /\ t.cut = c
          /\ t.host = "short"
      BY <2>2, <2>3, <2>4 DEF Stores
    <2>6. Left(t)
      BY <1>1, <1>2, <1>4, <2>2, <2>5 DEF c
    <2> QED
      BY <2>6 DEF k, f
  <1>10. CASE \E u \in {s, torn} : t = [u EXCEPT !.host = "crash"]
    <2>1. PICK u \in {s, torn} : t = [u EXCEPT !.host = "crash"]
      BY <1>10
    <2>2. t \in Stores /\ t.disk = s.disk /\ t.bak = s.bak /\ t.file = u.file
          /\ t.cut = u.cut /\ t.host = "crash"
      <3>1. u \in Stores /\ u.disk = s.disk /\ u.bak = s.bak
        BY <1>2, <2>1
      <3> QED
        BY <2>1, <3>1 DEF Stores
    <2>3. Left(t)
      BY <1>1, <1>2, <1>4, <2>1, <2>2
    <2> QED
      BY <2>3 DEF k, f
  <1>11. \/ k.fits /\ t = [held EXCEPT !.disk[d].dirty = FALSE]
         \/ ~k.fits /\ t = torn
         \/ ~k.fits /\ t = [torn EXCEPT !.disk[d].dirty = FALSE]
         \/ t = [s EXCEPT !.host = "open"]
         \/ t = [torn EXCEPT !.disk[d].dirty = FALSE, !.cut = @ \union {f}, !.host = "short"]
         \/ \E u \in {s, torn} : t = [u EXCEPT !.host = "crash"]
    BY DEF WrittenOver, k, f
  <1> QED
    BY <1>5, <1>6, <1>7, <1>8, <1>9, <1>10, <1>11

(* What a save may make of a store: at most the disk, its file and its backup change. *)
SaveOf(s, t, d) ==
    LET k == s.disk[d]
        f == k.file
    IN  /\ t \in Stores
        /\ \A g \in Files \ {f} :
              t.file[g] = s.file[g] /\ t.bak[g] = s.bak[g] /\ (g \in t.cut <=> g \in s.cut)
        /\ \/ t = s
           \/ k.dirty /\ t.disk = s.disk
           \/ /\ k.dirty /\ t.disk = [s.disk EXCEPT ![d].dirty = FALSE]
              /\ k.fits => t.file[f] = k.data \/ f \in t.cut
        /\ f \notin renamed => t = s \/ (t.bak[f] = orig[f] /\ orig[f] # Absent)
        /\ t.host = "ok" /\ k.dirty /\ k.back /\ k.fits => t.file[f] = k.data

LEMMA SavedShape ==
    ASSUME NEW s, GoodStore(s), s.host = "ok", NEW d \in ImageDrives, In(s, d),
           NEW t \in Saved(s, d)
    PROVE  SaveOf(s, t, d)
  <1> DEFINE k == s.disk[d]
             f == k.file
  <1>1. s \in Stores /\ Kept(s) /\ k \in Copies /\ f \in Files
    BY DEF GoodStore, Stores, In, Copies
  <1>2. CASE ~k.dirty \/ ~k.back
    <2>1. t = s
      BY <1>2 DEF Saved, In
    <2> QED
      BY <1>1, <1>2, <2>1 DEF SaveOf
  <1>3. CASE k.dirty /\ k.back /\ k.new
    <2>1. t \in WrittenOver(s, d)
      BY <1>3 DEF Saved, In
    <2>2. f \in renamed
      BY <1>1, <1>3 DEF Kept
    <2> QED
      BY <1>1, <1>3, <2>1, <2>2, WrittenOverSaves DEF SaveOf
  <1>4. CASE k.dirty /\ k.back /\ ~k.new
    <2> DEFINE u == BackUp(s, f)
    <2>1. t \in WrittenOver(u, d)
      BY <1>4 DEF Saved, In
    <2>2. /\ u \in Stores /\ u.disk = s.disk /\ u.cut = s.cut /\ u.host = s.host
          /\ f \notin renamed => u.bak[f] = orig[f] /\ orig[f] # Absent
          /\ \A g \in Files \ {f} : u.file[g] = s.file[g] /\ u.bak[g] = s.bak[g]
      BY <1>1, <1>4, BackUpKeeps
    <2> HIDE DEF u
    <2>3. In(u, d) /\ u.disk[d].dirty
      BY <1>4, <2>2 DEF In
    <2>4. /\ t \in Stores /\ t.bak = u.bak
          /\ \A g \in Files \ {f} : t.file[g] = u.file[g] /\ (g \in t.cut <=> g \in u.cut)
          /\ \/ t.disk = s.disk
             \/ /\ t.disk = [s.disk EXCEPT ![d].dirty = FALSE]
                /\ k.fits => t.file[f] = k.data \/ f \in t.cut
          /\ t.host = "ok" /\ k.fits => t.file[f] = k.data
      BY <2>1, <2>2, <2>3, WrittenOverSaves
    <2> QED
      BY <1>1, <1>4, <2>2, <2>4 DEF SaveOf
  <1> QED
    BY <1>2, <1>3, <1>4

(* No save loses what a file first held, or leaves a disk wrongly thought clean. *)
LEMMA SaveOfGood ==
    ASSUME NEW s, GoodStore(s), NEW d \in ImageDrives, In(s, d), NEW t, SaveOf(s, t, d)
    PROVE  /\ GoodStore(t)
           /\ \A e \in ImageDrives : /\ In(t, e) <=> In(s, e)
                                     /\ In(s, e) => t.disk[e].file = s.disk[e].file
  <1> DEFINE k == s.disk[d]
             f == k.file
  <1>1. s \in Stores /\ t \in Stores /\ Kept(s) /\ Clean(s) /\ f \in Files
    BY DEF GoodStore, SaveOf, Stores, In, Copies
  <1>2. CASE t = s
    BY <1>2
  <1>3. CASE t # s
    <2>1. \A e \in ImageDrives \ {d} : t.disk[e] = s.disk[e]
      BY <1>1, <1>3, CleanedDisk DEF SaveOf
    <2>2. /\ In(t, d) /\ t.disk[d].file = f /\ t.disk[d].data = k.data
          /\ t.disk[d].new = k.new /\ t.disk[d].fits = k.fits
      BY <1>1, <1>3, CleanedDisk DEF SaveOf, In
    <2>3. \A e \in ImageDrives :
            /\ In(t, e) <=> In(s, e)
            /\ In(s, e) => t.disk[e].file = s.disk[e].file /\ t.disk[e].new = s.disk[e].new
      BY <2>1, <2>2 DEF In
    <2>4. Kept(t)
      <3>1. ASSUME NEW g \in Files \ renamed PROVE KeptFile(t, g)
        <4>1. KeptFile(s, g)
          BY <1>1 DEF Kept
        <4>2. CASE g = f
          BY <1>3, <2>3, <4>1, <4>2 DEF SaveOf, KeptFile
        <4>3. CASE g # f
          BY <2>3, <4>1, <4>3 DEF SaveOf, KeptFile
        <4> QED
          BY <4>2, <4>3
      <3>2. \A e \in ImageDrives : In(t, e) /\ t.disk[e].new => t.disk[e].file \in renamed
        BY <1>1, <2>3 DEF Kept
      <3> QED
        BY <3>1, <3>2 DEF Kept
    <2>5. HeldOnce(t)
      BY <1>1, <2>3 DEF Clean, HeldOnce
    <2>6. ASSUME NEW e \in ImageDrives PROVE CleanDisk(t, e)
      <3>1. CleanDisk(s, e)
        BY <1>1 DEF Clean
      <3>2. CASE e = d
        <4>1. k.dirty /\ t.disk = s.disk => CleanDisk(t, d)
          BY DEF CleanDisk
        <4>2. (k.fits => t.file[f] = k.data \/ f \in t.cut) => CleanDisk(t, d)
          BY <2>2 DEF CleanDisk
        <4> QED
          BY <1>3, <3>2, <4>1, <4>2 DEF SaveOf
      <3>3. CASE e # d /\ In(s, e) /\ s.disk[e].file = f
        <4>1. f \in shared
          BY <1>1, <3>3 DEF Clean, HeldOnce
        <4> QED
          BY <2>1, <3>3, <4>1 DEF CleanDisk
      <3>4. CASE e # d /\ In(s, e) /\ s.disk[e].file # f
        <4>1. s.disk[e].file \in Files \ {f}
          BY <1>1, <3>4 DEF Stores, In, Copies
        <4> QED
          BY <2>1, <3>1, <3>4, <4>1 DEF CleanDisk, SaveOf, In
      <3>5. CASE ~In(s, e)
        BY <2>3, <3>5 DEF CleanDisk
      <3> QED
        BY <3>2, <3>3, <3>4, <3>5
    <2> QED
      BY <1>1, <2>3, <2>4, <2>5, <2>6 DEF GoodStore, Clean
  <1> QED
    BY <1>2, <1>3

-----------------------------------------------------------------------------
(* Disk images: the operations *)

ImagesInv == ImagesOK /\ GoodStore(Store)

(* Names given to new disks, and files held twice, are exceptions that only grow. *)
LEMMA Widened ==
    ASSUME NEW s, GoodStore(s), orig' = orig, renamed \subseteq renamed', shared \subseteq shared'
    PROVE  GoodStore(s)'
  <1>1. Kept(s)'
    BY DEF GoodStore, Kept, KeptFile, In
  <1>2. Clean(s)'
    <2>1. HeldOnce(s)'
      BY DEF GoodStore, Clean, HeldOnce, In
    <2>2. \A d \in ImageDrives : CleanDisk(s, d)'
      BY DEF GoodStore, Clean, CleanDisk, In
    <2> QED
      BY <2>1, <2>2 DEF Clean
  <1> QED
    BY <1>1, <1>2 DEF GoodStore, Stores

(* A disk, or none, is put in a drive. *)
LEMMA PutGood ==
    ASSUME NEW s, GoodStore(s)', NEW d \in ImageDrives, NEW k \in Copies \union {NoCopy},
           k # NoCopy =>
              /\ k.new => k.file \in renamed'
              /\ k.file \notin renamed' => orig'[k.file] # Absent
              /\ \A e \in ImageDrives \ {d} :
                    In(s, e) /\ s.disk[e].file = k.file => k.file \in shared'
              /\ ~k.dirty /\ k.fits /\ k.file \notin shared' =>
                    s.file[k.file] = k.data \/ k.file \in s.cut
    PROVE  GoodStore([s EXCEPT !.disk[d] = k])'
  <1> DEFINE t == [s EXCEPT !.disk[d] = k]
  <1>1. s \in Stores /\ Kept(s)' /\ Clean(s)'
    BY DEF GoodStore, Stores
  <1>2. /\ t \in Stores /\ t.disk = [s.disk EXCEPT ![d] = k] /\ t.file = s.file
        /\ t.bak = s.bak /\ t.cut = s.cut
    <2> DEFINE disk1 == [s.disk EXCEPT ![d] = k]
    <2>1. disk1 \in [ImageDrives -> Copies \union {NoCopy}]
      BY <1>1 DEF Stores
    <2>2. t = [s EXCEPT !.disk = disk1]
      OBVIOUS
    <2> HIDE DEF disk1, t
    <2>3. t \in Stores /\ t.disk = disk1 /\ t.file = s.file /\ t.bak = s.bak /\ t.cut = s.cut
      BY <1>1, <2>1, <2>2 DEF Stores
    <2> QED
      BY <2>3 DEF disk1
  <1> HIDE DEF t
  <1>3. t.disk[d] = k /\ \A e \in ImageDrives \ {d} : t.disk[e] = s.disk[e]
    BY <1>1, <1>2 DEF Stores
  <1>4. ASSUME NEW f \in Files \ renamed' PROVE KeptFile(t, f)'
    <2>1. KeptFile(s, f)'
      BY <1>1 DEF Kept
    <2> QED
      BY <1>2, <1>3, <2>1 DEF KeptFile, In
  <1>5. \A e \in ImageDrives : (In(t, e) /\ t.disk[e].new => t.disk[e].file \in renamed)'
    BY <1>1, <1>3 DEF Kept, In
  <1>6. HeldOnce(t)'
    BY <1>1, <1>3 DEF Clean, HeldOnce, In
  <1>7. ASSUME NEW e \in ImageDrives PROVE CleanDisk(t, e)'
    <2>1. CASE e = d
      BY <1>2, <1>3, <2>1 DEF CleanDisk, In
    <2>2. CASE e # d
      BY <1>1, <1>2, <1>3, <2>2 DEF Clean, CleanDisk, In
    <2> QED
      BY <2>1, <2>2
  <1>8. Kept(t)' /\ Clean(t)'
    BY <1>4, <1>5, <1>6, <1>7 DEF Kept, Clean
  <1>9. GoodStore(t)'
    BY <1>2, <1>8 DEF GoodStore, Stores
  <1> QED
    BY <1>9 DEF t

(* The drives and the files become a good store, or the process ends. *)
LEMMA StoreBecomes ==
    ASSUME NEW s, GoodStore(s)', file' = s.file, bak' = s.bak, cut' = s.cut,
           disk' = s.disk \/ disk' = [d \in ImageDrives |-> NoCopy],
           todo' \in SUBSET ImageDrives, host' \in {"ok", "open", "short", "crash"},
           writes' \in 0..LastWrite, orig' \in [Files -> {Absent, 0}],
           renamed' \in SUBSET Files, shared' \in SUBSET Files
    PROVE  ImagesInv'
  <1> DEFINE none == [d \in ImageDrives |-> NoCopy]
  <1>1. s \in Stores /\ Kept(s)' /\ Clean(s)'
    BY DEF GoodStore, Stores
  <1>2. disk' = s.disk \/ disk' = none
    OBVIOUS
  <1>3. none \in [ImageDrives -> Copies \union {NoCopy}]
    OBVIOUS
  <1>4. /\ file' \in [Files -> Contents \union {Absent}]
        /\ bak' \in [Files -> Contents \union {Absent}]
        /\ disk' \in [ImageDrives -> Copies \union {NoCopy}]
        /\ cut' \in SUBSET Files /\ host' \in {"ok", "open", "short", "crash"}
    BY <1>1, <1>2, <1>3 DEF Stores
  <1>5. ImagesOK'
    BY <1>2, <1>4 DEF ImagesOK
  <1>6. /\ Store' \in Stores /\ (Store.file)' = s.file /\ (Store.bak)' = s.bak
        /\ (Store.cut)' = s.cut /\ (Store.disk)' = disk'
    BY <1>2, <1>4 DEF Store, Stores
  <1>7. Kept(Store)' /\ Clean(Store)'
    <2>1. CASE disk' = s.disk
      <3>1. ASSUME NEW f \in Files \ renamed' PROVE KeptFile(Store, f)'
        <4>1. KeptFile(s, f)'
          BY <1>1 DEF Kept
        <4> QED
          BY <1>6, <2>1, <4>1 DEF KeptFile, In
      <3>2. \A d \in ImageDrives : (In(Store, d) /\ Store.disk[d].new =>
                                     Store.disk[d].file \in renamed)'
        BY <1>1, <1>6, <2>1 DEF Kept, In
      <3>3. HeldOnce(Store)'
        BY <1>1, <1>6, <2>1 DEF Clean, HeldOnce, In
      <3>4. \A d \in ImageDrives : CleanDisk(Store, d)'
        BY <1>1, <1>6, <2>1 DEF Clean, CleanDisk, In
      <3> QED
        BY <3>1, <3>2, <3>3, <3>4 DEF Kept, Clean
    <2>2. CASE disk' = none
      <3>1. \A d \in ImageDrives : ~In(Store, d)'
        BY <1>6, <2>2 DEF In
      <3>2. ASSUME NEW f \in Files \ renamed' PROVE KeptFile(Store, f)'
        <4>1. KeptFile(s, f)'
          BY <1>1 DEF Kept
        <4> QED
          BY <1>6, <3>1, <4>1 DEF KeptFile
      <3> QED
        BY <3>1, <3>2 DEF Kept, Clean, HeldOnce, CleanDisk
    <2> QED
      BY <1>2, <2>1, <2>2
  <1> QED
    BY <1>5, <1>6, <1>7 DEF ImagesInv, GoodStore

LEMMA BecomesGood ==
    ASSUME NEW s, GoodStore(s)', NEW left \in SUBSET ImageDrives, Becomes(s, left),
           writes' \in 0..LastWrite, orig' \in [Files -> {Absent, 0}],
           renamed' \in SUBSET Files, shared' \in SUBSET Files
    PROVE  ImagesInv'
  <1>1. s.host \in {"ok", "open", "short", "crash"}
    BY DEF GoodStore, Stores
  <1> QED
    BY <1>1, StoreBecomes DEF Becomes

LEMMA StoreGood ==
    ASSUME ImagesInv
    PROVE  /\ GoodStore(Store) /\ Store.host = "ok" /\ Store.disk = disk /\ Store.file = file
           /\ Store.bak = bak /\ Store.cut = cut
  BY DEF ImagesInv, Store

LEMMA SavedGood ==
    ASSUME ImagesInv, NEW d \in ImageDrives, NEW t \in Saved(Store, d)
    PROVE  /\ GoodStore(t)
           /\ \A e \in ImageDrives : /\ In(t, e) <=> disk[e] # NoCopy
                                     /\ disk[e] # NoCopy => t.disk[e].file = disk[e].file
           /\ disk[d] # NoCopy => SaveOf(Store, t, d)
           /\ disk[d] = NoCopy => t = Store
  <1>1. CASE disk[d] = NoCopy
    <2>1. t = Store
      BY <1>1, StoreGood DEF Saved
    <2> QED
      BY <1>1, <2>1, StoreGood DEF In
  <1>2. CASE disk[d] # NoCopy
    <2>1. In(Store, d)
      BY <1>2, StoreGood DEF In
    <2>2. SaveOf(Store, t, d)
      BY <2>1, StoreGood, SavedShape
    <2> QED
      BY <1>2, <2>1, <2>2, StoreGood, SaveOfGood DEF In
  <1> QED
    BY <1>1, <1>2

(* vdrive_insert_disk; k may be the nothing that ejecting puts in a drive. *)
LEMMA InsertedGood ==
    ASSUME ImagesInv, NEW d \in ImageDrives, NEW k \in Copies \union {NoCopy},
           NEW t \in Inserted(Store, d, k),
           orig' = orig, renamed \subseteq renamed', shared \subseteq shared',
           k # NoCopy =>
              /\ k.new => k.file \in renamed'
              /\ k.file \notin renamed' => orig[k.file] # Absent
              /\ Held(k.file) => k.file \in shared'
              /\ ~k.dirty => file[k.file] = k.data
    PROVE  GoodStore(t)'
  <1>1. PICK v \in Ejected(Store, d) : t = IF v.host = "crash" THEN v ELSE [v EXCEPT !.disk[d] = k]
    BY DEF Inserted
  <1>2. PICK u \in Saved(Store, d) : v = IF u.host = "crash" THEN u ELSE [u EXCEPT !.disk[d] = NoCopy]
    BY DEF Ejected
  <1>3. /\ GoodStore(u)
        /\ \A e \in ImageDrives : /\ In(u, e) <=> disk[e] # NoCopy
                                  /\ disk[e] # NoCopy => u.disk[e].file = disk[e].file
    BY SavedGood
  <1>4. GoodStore(u)' /\ u \in Stores
    BY <1>3, Widened DEF GoodStore
  <1>5. CASE u.host = "crash"
    BY <1>1, <1>2, <1>4, <1>5
  <1>6. CASE u.host # "crash"
    <2>1. v = [u EXCEPT !.disk[d] = NoCopy]
      BY <1>2, <1>6
    <2>2. GoodStore(v)'
      BY <1>4, <2>1, PutGood
    <2>3. /\ v.host # "crash" /\ v.file = u.file
          /\ v.disk[d] = NoCopy /\ \A e \in ImageDrives \ {d} : v.disk[e] = u.disk[e]
      BY <1>4, <1>6, <2>1 DEF Stores
    <2>4. t = [v EXCEPT !.disk[d] = k]
      BY <1>1, <2>3
    <2>5. ASSUME k # NoCopy
          PROVE  /\ k.new => k.file \in renamed'
                 /\ k.file \notin renamed' => orig'[k.file] # Absent
                 /\ \A e \in ImageDrives \ {d} :
                       In(v, e) /\ v.disk[e].file = k.file => k.file \in shared'
                 /\ ~k.dirty /\ k.file \notin shared' => v.file[k.file] = k.data
      <3>1. \A e \in ImageDrives \ {d} :
               In(v, e) /\ v.disk[e].file = k.file => k.file \in shared'
        BY <1>3, <2>3, <2>5 DEF In, Held
      <3>2. ASSUME ~k.dirty, k.file \notin shared' PROVE v.file[k.file] = k.data
        <4>1. ~Held(k.file) /\ file[k.file] = k.data
          BY <2>5, <3>2
        <4>2. k.file \in Files
          BY <2>5 DEF Copies
        <4>3. CASE disk[d] = NoCopy
          BY <2>3, <4>1, <4>3, SavedGood, StoreGood
        <4>4. CASE disk[d] # NoCopy
          <5>1. SaveOf(Store, u, d) /\ k.file \in Files \ {Store.disk[d].file}
            BY <4>1, <4>2, <4>4, SavedGood, StoreGood DEF Held
          <5> QED
            BY <2>3, <4>1, <5>1, StoreGood DEF SaveOf
        <4> QED
          BY <4>3, <4>4
      <3> QED
        BY <2>5, <3>1, <3>2
    <2> QED
      BY <2>2, <2>4, <2>5, PutGood
  <1> QED
    BY <1>5, <1>6

LEMMA LoadedCopy ==
    ASSUME ImagesInv, NEW f \in Files, NEW k \in Loaded(f), k # NoCopy
    PROVE  /\ k \in Copies /\ k.file = f /\ k.data = file[f] /\ ~k.dirty /\ ~k.new
           /\ f \notin renamed => orig[f] # Absent
  <1>1. file[f] # Absent
    BY DEF Loaded
  <1>2. k \in [file : {f}, data : {file[f]}, dirty : {FALSE}, back : LoadedBack,
               new : {FALSE}, blank : {FALSE}, fits : {TRUE}]
    BY <1>1 DEF Loaded
  <1>3. file[f] \in Contents
    BY <1>1 DEF ImagesInv, ImagesOK
  <1>4. f \notin renamed => KeptFile(Store, f)
    BY StoreGood DEF GoodStore, Kept
  <1>5. f \notin renamed => orig[f] # Absent
    BY <1>1, <1>4, StoreGood DEF KeptFile
  <1>6. k \in Copies /\ k.file = f /\ k.data = file[f] /\ ~k.dirty /\ ~k.new
    BY <1>2, <1>3, FilesAssumption DEF Copies
  <1> QED
    BY <1>5, <1>6

(* What the operations that put a disk in a drive, or take one, have in common. *)
LEMMA InsertFileGood ==
    ASSUME ImagesInv, NEW d \in ImageDrives, NEW f \in Files, InsertFile(d, f)
    PROVE  ImagesInv'
  <1>1. PICK k \in Loaded(f) : \E s \in Inserted(Store, d, k) : Becomes(s, {})
    BY DEF InsertFile
  <1>2. PICK s \in Inserted(Store, d, k) : Becomes(s, {})
    BY <1>1
  <1>3. /\ UNCHANGED <<writes, orig, renamed>>
        /\ shared' = IF Held(f) THEN shared \union {f} ELSE shared
    BY DEF InsertFile, Inserts
  <1>4. k \in Copies \union {NoCopy}
    BY LoadedCopy
  <1>5. k # NoCopy => /\ k.new => k.file \in renamed'
                      /\ k.file \notin renamed' => orig[k.file] # Absent
                      /\ Held(k.file) => k.file \in shared'
                      /\ ~k.dirty => file[k.file] = k.data
    BY <1>3, LoadedCopy
  <1>6. GoodStore(s)'
    BY <1>3, <1>4, <1>5, InsertedGood
  <1> QED
    BY <1>2, <1>3, <1>6, BecomesGood DEF ImagesInv, ImagesOK

LEMMA NewDiskGood ==
    ASSUME ImagesInv, NEW d \in ImageDrives, NEW f \in Files, NewDisk(d, f)
    PROVE  ImagesInv'
  <1> DEFINE k == [file |-> f, data |-> writes + 1, dirty |-> TRUE, back |-> TRUE,
                   new |-> TRUE, blank |-> TRUE, fits |-> f \notin Sectored]
  <1>1. PICK s \in Inserted(Store, d, k) : Becomes(s, {})
    BY DEF NewDisk
  <1>2. /\ writes < LastWrite /\ writes' = writes + 1 /\ renamed' = renamed \union {f}
        /\ UNCHANGED orig /\ shared' = IF Held(f) THEN shared \union {f} ELSE shared
    BY DEF NewDisk, Inserts
  <1>3. writes \in 0..LastWrite /\ writes' \in 0..LastWrite /\ writes + 1 \in Contents
    BY <1>2, FilesAssumption DEF ImagesInv, ImagesOK, Contents
  <1>4. k \in Copies
    BY <1>3 DEF Copies
  <1>5. k.file = f /\ k.new /\ k.dirty
    OBVIOUS
  <1> HIDE DEF k
  <1>6. GoodStore(s)'
    BY <1>2, <1>4, <1>5, InsertedGood
  <1> QED
    BY <1>1, <1>2, <1>3, <1>6, BecomesGood DEF ImagesInv, ImagesOK

LEMMA EjectGood ==
    ASSUME ImagesInv, NEW d \in ImageDrives, EjectDisk(d)
    PROVE  ImagesInv'
  <1>1. PICK v \in Ejected(Store, d) : Becomes(v, {})
    BY DEF EjectDisk
  <1>2. UNCHANGED <<writes, orig, renamed, shared>>
    BY DEF EjectDisk
  <1>3. PICK u \in Saved(Store, d) : v = IF u.host = "crash" THEN u ELSE [u EXCEPT !.disk[d] = NoCopy]
    BY DEF Ejected
  <1>4. GoodStore(u)'
    BY <1>2, SavedGood, Widened
  <1>5. GoodStore(v)'
    BY <1>3, <1>4, PutGood
  <1> QED
    BY <1>1, <1>2, <1>5, BecomesGood DEF ImagesInv, ImagesOK

(* A save, of one drive or of one that a flush has come to. *)
LEMMA SaveGood ==
    ASSUME ImagesInv, NEW d \in ImageDrives, InsertDialog(d) \/ FlushNext(d)
    PROVE  ImagesInv'
  <1>1. PICK u \in Saved(Store, d) : Becomes(u, {}) \/ Becomes(u, todo \ {d})
    BY DEF InsertDialog, FlushNext
  <1>2. UNCHANGED <<writes, orig, renamed, shared>>
    BY DEF InsertDialog, FlushNext
  <1>3. GoodStore(u)'
    BY <1>2, SavedGood, Widened
  <1>4. todo \ {d} \in SUBSET ImageDrives
    BY DEF ImagesInv, ImagesOK
  <1> QED
    BY <1>1, <1>2, <1>3, <1>4, BecomesGood DEF ImagesInv, ImagesOK

(* The copy in memory changes: it is no cleaner than it was. *)
LEMMA CopyGood ==
    ASSUME ImagesInv, NEW d \in ImageDrives, disk[d] # NoCopy, todo = {},
           NEW k \in Copies, disk' = [disk EXCEPT ![d] = k],
           k.file = disk[d].file, k.new = disk[d].new,
           ~k.dirty => ~disk[d].dirty /\ k.data = disk[d].data /\ k.fits = disk[d].fits,
           host' = "ok", writes' \in 0..LastWrite,
           UNCHANGED <<file, bak, cut, todo, orig, renamed, shared>>
    PROVE  ImagesInv'
  <1>1. PICK u : u = Store
    OBVIOUS
  <1>2. /\ GoodStore(u)' /\ u \in Stores /\ Kept(u) /\ Clean(u) /\ In(u, d)
        /\ u.disk = disk /\ u.file = file /\ u.cut = cut /\ u.bak = bak /\ u.host = "ok"
    BY <1>1, StoreGood, Widened DEF GoodStore, In
  <1>3. PICK s : s = [u EXCEPT !.disk[d] = k]
    OBVIOUS
  <1>4. /\ k.new => k.file \in renamed'
        /\ k.file \notin renamed' => orig'[k.file] # Absent
    <2>1. k.new => k.file \in renamed
      BY <1>2 DEF Kept
    <2>2. k.file \in Files
      BY DEF Copies
    <2>3. k.file \notin renamed => KeptFile(u, k.file)
      BY <1>2, <2>2 DEF Kept
    <2>4. k.file \notin renamed => orig[k.file] # Absent
      BY <1>2, <2>3 DEF KeptFile
    <2> QED
      BY <2>1, <2>4
  <1>5. \A e \in ImageDrives \ {d} :
           In(u, e) /\ u.disk[e].file = k.file => k.file \in shared'
    BY <1>2 DEF Clean, HeldOnce
  <1>6. ~k.dirty /\ k.fits /\ k.file \notin shared' =>
           u.file[k.file] = k.data \/ k.file \in u.cut
    BY <1>2 DEF Clean, CleanDisk
  <1>7. GoodStore(s)'
    BY <1>2, <1>3, <1>4, <1>5, <1>6, PutGood
  <1>8. /\ s.disk = disk' /\ s.file = file /\ s.cut = cut /\ s.bak = bak /\ s.host = "ok"
    BY <1>2, <1>3 DEF Stores
  <1>9. Becomes(s, {})
    BY <1>8 DEF Becomes
  <1> QED
    BY <1>7, <1>9, BecomesGood DEF ImagesInv, ImagesOK

(* What the machine writes, and the switch of write-back, change of it. *)
Changed(d, k) ==
    /\ k \in Copies /\ disk' = [disk EXCEPT ![d] = k]
    /\ k.file = disk[d].file /\ k.new = disk[d].new
    /\ ~k.dirty => ~disk[d].dirty /\ k.data = disk[d].data /\ k.fits = disk[d].fits

LEMMA CopyChanges ==
    ASSUME ImagesInv, NEW d \in ImageDrives, MachineWrites(d) \/ SetWriteBack(d)
    PROVE  (\E k : Changed(d, k)) /\ writes' \in 0..LastWrite
  <1>1. CASE MachineWrites(d)
    <2>1. PICK fits \in BOOLEAN :
             disk' = [disk EXCEPT ![d].data = writes + 1, ![d].dirty = TRUE,
                                  ![d].blank = FALSE, ![d].fits = fits]
      BY <1>1 DEF MachineWrites
    <2>2. disk[d] # NoCopy /\ writes < LastWrite /\ writes' = writes + 1
      BY <1>1 DEF MachineWrites
    <2>3. /\ disk[d] \in Copies /\ disk \in [ImageDrives -> Copies \union {NoCopy}]
          /\ writes' \in 0..LastWrite /\ writes + 1 \in Contents
      BY <2>2, FilesAssumption DEF ImagesInv, ImagesOK, Contents
    <2>4. PICK k : k = [disk[d] EXCEPT !.data = writes + 1, !.dirty = TRUE, !.blank = FALSE,
                                       !.fits = fits]
      OBVIOUS
    <2>5. k \in Copies /\ k.file = disk[d].file /\ k.new = disk[d].new /\ k.dirty
      BY <2>3, <2>4 DEF Copies
    <2>6. disk' = [disk EXCEPT ![d] = k]
      BY <2>1, <2>3, <2>4
    <2> QED
      BY <2>3, <2>5, <2>6 DEF Changed
  <1>2. CASE SetWriteBack(d)
    <2>1. disk' = [disk EXCEPT ![d].back = ~@] /\ disk[d] # NoCopy /\ UNCHANGED writes
      BY <1>2 DEF SetWriteBack
    <2>2. /\ disk[d] \in Copies /\ disk \in [ImageDrives -> Copies \union {NoCopy}]
          /\ writes' \in 0..LastWrite
      BY <2>1 DEF ImagesInv, ImagesOK
    <2>3. PICK k : k = [disk[d] EXCEPT !.back = ~@]
      OBVIOUS
    <2>4. /\ k \in Copies /\ k.file = disk[d].file /\ k.new = disk[d].new
          /\ k.dirty = disk[d].dirty /\ k.data = disk[d].data /\ k.fits = disk[d].fits
      BY <2>2, <2>3 DEF Copies
    <2>5. disk' = [disk EXCEPT ![d] = k]
      BY <2>1, <2>2, <2>3
    <2> QED
      BY <2>2, <2>4, <2>5 DEF Changed
  <1> QED
    BY <1>1, <1>2

LEMMA MachineOrUserGood ==
    ASSUME ImagesInv, NEW d \in ImageDrives, MachineWrites(d) \/ SetWriteBack(d)
    PROVE  ImagesInv'
  <1>1. /\ disk[d] # NoCopy /\ todo = {} /\ host' = "ok"
        /\ UNCHANGED <<file, bak, cut, todo, orig, renamed, shared>>
    BY DEF MachineWrites, SetWriteBack
  <1> QED
    BY <1>1, CopyChanges, CopyGood DEF Changed

(* What leaves the files and the drives as they are, or empties the drives. *)
LEMMA FlushOrCrashGood ==
    ASSUME ImagesInv, FlushAll \/ Crash \/ UNCHANGED imageVars
    PROVE  ImagesInv'
  <1>1. PICK u : u = Store
    OBVIOUS
  <1>2. UNCHANGED <<file, bak, cut, writes, orig, renamed, shared>>
    BY DEF FlushAll, Crash, imageVars
  <1>3. /\ GoodStore(u)' /\ u \in Stores
        /\ u.disk = disk /\ u.file = file /\ u.cut = cut /\ u.bak = bak
    BY <1>1, <1>2, StoreGood, Widened DEF GoodStore
  <1>4. /\ todo' \in SUBSET ImageDrives /\ host' \in {"ok", "open", "short", "crash"}
        /\ disk' = disk \/ disk' = [d \in ImageDrives |-> NoCopy]
    BY DEF FlushAll, Crash, imageVars, ImagesInv, ImagesOK
  <1> QED
    BY <1>2, <1>3, <1>4, StoreBecomes DEF ImagesInv, ImagesOK

LEMMA ImagesInitGood == ImagesInit => ImagesInv
  <1> SUFFICES ASSUME ImagesInit PROVE ImagesInv
    OBVIOUS
  <1>1. ImagesOK
    BY FilesAssumption DEF ImagesInit, ImagesOK, Contents
  <1>2. Store \in Stores /\ (\A d \in ImageDrives : ~In(Store, d))
        /\ Store.file = orig /\ \A f \in Files : Store.bak[f] = Absent
    BY <1>1 DEF ImagesInit, ImagesOK, Store, Stores, In
  <1>3. Kept(Store) /\ Clean(Store)
    BY <1>2 DEF Kept, KeptFile, Clean, HeldOnce, CleanDisk
  <1> QED
    BY <1>1, <1>2, <1>3 DEF ImagesInv, GoodStore

LEMMA ImagesNextGood == ImagesInv /\ [ImagesNext]_imageVars => ImagesInv'
  <1> SUFFICES ASSUME ImagesInv, [ImagesNext]_imageVars PROVE ImagesInv'
    OBVIOUS
  <1>1. ASSUME NEW d \in ImageDrives, NEW f \in Files, InsertFile(d, f) \/ NewDisk(d, f)
        PROVE  ImagesInv'
    BY <1>1, InsertFileGood, NewDiskGood
  <1>2. ASSUME NEW d \in ImageDrives,
               \/ InsertDialog(d) \/ EjectDisk(d) \/ MachineWrites(d) \/ SetWriteBack(d)
               \/ FlushNext(d)
        PROVE  ImagesInv'
    BY <1>2, SaveGood, EjectGood, MachineOrUserGood
  <1>3. CASE FlushAll \/ Crash \/ UNCHANGED imageVars
    BY <1>3, FlushOrCrashGood
  <1> QED
    BY <1>1, <1>2, <1>3 DEF ImagesNext

(* Whatever is saved over a file, from whichever drive, and wherever the process or the
   host gives up, what the file first held is in it or in its backup, unless the user
   gave its name to a new disk (vdisk.c:206-260). *)
THEOREM ImagesKept == ImagesSpec => []OriginalKept
  <1>1. ImagesInv => OriginalKept
    <2> SUFFICES ASSUME ImagesInv, NEW f \in Files \ renamed PROVE orig[f] \in {file[f], bak[f]}
      BY DEF OriginalKept, ImagesInv
    <2>1. KeptFile(Store, f)
      BY StoreGood DEF GoodStore, Kept
    <2> QED
      BY <2>1, StoreGood DEF KeptFile
  <1> QED
    BY <1>1, ImagesInitGood, ImagesNextGood, PTL DEF ImagesSpec

(* A disk that its drive's save has left is what its file holds, or was to be. *)
LEMMA LeavesSaved ==
    ASSUME ImagesInv, NEW d \in ImageDrives, NEW u \in Saved(Store, d), u.host = "ok",
           disk[d] # NoCopy, disk[d].file \notin shared, disk[d].dirty => disk[d].back,
           disk[d].fits
    PROVE  u.file[disk[d].file] = disk[d].data \/ disk[d].file \in cut
  <1>1. SaveOf(Store, u, d) /\ CleanDisk(Store, d)
    BY SavedGood, StoreGood DEF GoodStore, Clean
  <1>2. disk[d].dirty \in BOOLEAN
    BY DEF ImagesInv, ImagesOK, Copies
  <1>3. CASE disk[d].dirty
    BY <1>1, <1>3, StoreGood DEF SaveOf
  <1>4. CASE ~disk[d].dirty
    <2>1. u = Store
      BY <1>1, <1>4, StoreGood DEF SaveOf
    <2> QED
      BY <1>1, <1>4, <2>1, StoreGood DEF CleanDisk, In
  <1> QED
    BY <1>2, <1>3, <1>4

(* What leaves its drive was ejected from it. *)
LEMMA LeavesByEjection ==
    ASSUME ImagesInv, NEW d \in ImageDrives, NEW e \in ImageDrives,
           NEW k \in Copies \union {NoCopy}, NEW t \in Inserted(Store, e, k),
           Becomes(t, {}), host' = "ok", disk[d] # NoCopy,
           disk'[d] = NoCopy \/ disk'[d].file # disk[d].file
    PROVE  d = e /\ \E u \in Saved(Store, d) : u.host = "ok" /\ file' = u.file
  <1>1. PICK v \in Ejected(Store, e) : t = IF v.host = "crash" THEN v ELSE [v EXCEPT !.disk[e] = k]
    BY DEF Inserted
  <1>2. PICK u \in Saved(Store, e) : v = IF u.host = "crash" THEN u ELSE [u EXCEPT !.disk[e] = NoCopy]
    BY DEF Ejected
  <1>3. /\ u \in Stores /\ (In(u, d) <=> disk[d] # NoCopy)
        /\ disk[d] # NoCopy => u.disk[d].file = disk[d].file
    BY SavedGood DEF GoodStore
  <1>4. file' = t.file /\ t.host = "ok" /\ disk' = t.disk
    BY DEF Becomes
  <1>5. u.host # "crash"
    BY <1>1, <1>2, <1>4
  <1>6. /\ v = [u EXCEPT !.disk[e] = NoCopy] /\ v.host = u.host /\ v.file = u.file
        /\ v.disk = [u.disk EXCEPT ![e] = NoCopy]
    BY <1>2, <1>3, <1>5 DEF Stores
  <1>7. t = [v EXCEPT !.disk[e] = k]
    BY <1>1, <1>5, <1>6
  <1>8. t.host = u.host /\ t.file = u.file /\ (d # e => t.disk[d] = u.disk[d])
    BY <1>3, <1>6, <1>7 DEF Stores
  <1> QED
    BY <1>2, <1>3, <1>4, <1>8 DEF In

(* To eject a disk is to insert nothing. *)
LEMMA EjectsInserted ==
    ASSUME ImagesInv, NEW d \in ImageDrives, NEW t \in Ejected(Store, d)
    PROVE  t \in Inserted(Store, d, NoCopy)
  <1>1. PICK u \in Saved(Store, d) : t = IF u.host = "crash" THEN u ELSE [u EXCEPT !.disk[d] = NoCopy]
    BY DEF Ejected
  <1>2. u \in Stores
    BY SavedGood DEF GoodStore
  <1>3. CASE t.host = "crash"
    BY <1>3 DEF Inserted
  <1>4. CASE t.host # "crash"
    <2>1. t = [u EXCEPT !.disk[d] = NoCopy]
      BY <1>1, <1>4
    <2>2. [t EXCEPT !.disk[d] = NoCopy] = t
      BY <1>2, <2>1 DEF Stores
    <2> QED
      BY <1>4, <2>2 DEF Inserted
  <1> QED
    BY <1>3, <1>4

(* When a disk leaves its drive its file holds what the disk did, but for what
   EjectedMeansSaved excepts: what the save it left by wrote, or what an earlier one did
   if it was thought clean (vdisk.c:182-183, vdrive.c:343-356). *)
THEOREM EjectionsSave == ImagesSpec => EjectedMeansSaved
  <1> DEFINE Saves(d) ==
        LET k == disk[d]
        IN  k # NoCopy /\ host' = "ok" /\ (disk'[d] = NoCopy \/ disk'[d].file # k.file)
              /\ k.file \notin shared =>
                ((k.dirty => k.back) /\ k.fits =>
                    file'[k.file] = k.data \/ k.file \in cut)
  <1>1. ASSUME ImagesInv, [ImagesNext]_imageVars, NEW d \in ImageDrives PROVE Saves(d)
    <2> SUFFICES ASSUME disk[d] # NoCopy, host' = "ok",
                        disk'[d] = NoCopy \/ disk'[d].file # disk[d].file,
                        disk[d].file \notin shared, disk[d].dirty => disk[d].back, disk[d].fits
                 PROVE  file'[disk[d].file] = disk[d].data \/ disk[d].file \in cut
      OBVIOUS
    <2>1. ASSUME NEW e \in ImageDrives, NEW k \in Copies \union {NoCopy},
                 NEW t \in Inserted(Store, e, k), Becomes(t, {})
          PROVE  file'[disk[d].file] = disk[d].data \/ disk[d].file \in cut
      BY <1>1, <2>1, LeavesByEjection, LeavesSaved
    <2>2. ASSUME NEW e \in ImageDrives, NEW f \in Files, InsertFile(e, f)
          PROVE  file'[disk[d].file] = disk[d].data \/ disk[d].file \in cut
      BY <1>1, <2>1, <2>2, LoadedCopy DEF InsertFile
    <2>3. ASSUME NEW e \in ImageDrives, NEW f \in Files, NewDisk(e, f)
          PROVE  file'[disk[d].file] = disk[d].data \/ disk[d].file \in cut
      <3>1. PICK k : k = [file |-> f, data |-> writes + 1, dirty |-> TRUE, back |-> TRUE,
                          new |-> TRUE, blank |-> TRUE, fits |-> f \notin Sectored]
        OBVIOUS
      <3>2. writes + 1 \in Contents
        BY <1>1, <2>3, FilesAssumption DEF NewDisk, ImagesInv, ImagesOK, Contents
      <3>3. k \in Copies
        BY <3>1, <3>2 DEF Copies
      <3>4. \E t \in Inserted(Store, e, k) : Becomes(t, {})
        BY <2>3, <3>1 DEF NewDisk
      <3> QED
        BY <2>1, <3>3, <3>4
    <2>4. ASSUME NEW e \in ImageDrives, EjectDisk(e)
          PROVE  file'[disk[d].file] = disk[d].data \/ disk[d].file \in cut
      BY <1>1, <2>1, <2>4, EjectsInserted DEF EjectDisk
    <2>5. ASSUME NEW e \in ImageDrives, InsertDialog(e) \/ FlushNext(e) PROVE FALSE
      <3>1. PICK u \in Saved(Store, e) : Becomes(u, {}) \/ Becomes(u, todo \ {e})
        BY <2>5 DEF InsertDialog, FlushNext
      <3>2. disk' = u.disk /\ u.disk[d] # NoCopy /\ u.disk[d].file = disk[d].file
        BY <1>1, <3>1, SavedGood DEF Becomes, In
      <3> QED
        BY <3>2
    <2>6. ASSUME NEW e \in ImageDrives, MachineWrites(e) \/ SetWriteBack(e) PROVE FALSE
      <3>1. PICK k : Changed(e, k)
        BY <1>1, <2>6, CopyChanges
      <3>2. disk' = [disk EXCEPT ![e] = k] /\ k # NoCopy /\ k.file = disk[e].file
        BY <3>1, NoCopyAssumption DEF Changed
      <3> QED
        BY <1>1, <3>2 DEF ImagesInv, ImagesOK
    <2>7. ~(FlushAll \/ Crash \/ UNCHANGED imageVars)
      BY <1>1 DEF FlushAll, Crash, imageVars
    <2> QED
      BY <1>1, <2>2, <2>3, <2>4, <2>5, <2>6, <2>7 DEF ImagesNext
  <1>2. ImagesInv /\ [ImagesNext]_imageVars => [\A d \in ImageDrives : Saves(d)]_imageVars
    BY <1>1
  <1> QED
    BY <1>2, ImagesInitGood, ImagesNextGood, PTL DEF ImagesSpec, EjectedMeansSaved

-----------------------------------------------------------------------------
(* The ROM library *)

(* Nothing is under way that the page has yet to be told of, or to reload for. *)
Settled == import \in {"no", "picking"} /\ ~told /\ ~reload /\ ~silent

(* What a page that has loaded has read, or never planned to because it was not there,
   is the library's, all through its reading; and part of a ROM is one that is being
   copied, or was when the application was killed. *)
LibraryInv ==
    /\ LibraryOK
    /\ page \in {"gone", "loaded"} => has = Nothing
    /\ page = "booted" => plan = {}
    /\ page # "gone" /\ Settled => \A r \in Roms \ plan : has[r] = lib[r]
    /\ \A r \in Roms : lib[r] < 0 =>
          IF import = "copying" THEN r \in folder
          ELSE interrupted

LEMMA NothingThere ==
    Nothing \in [Roms -> -LastImport..LastImport] /\ \A r \in Roms : Nothing[r] = 0
  BY LibraryAssumption DEF Nothing

LEMMA LibraryInitInv == LibraryInit => LibraryInv
  <1> SUFFICES ASSUME LibraryInit PROVE LibraryInv
    OBVIOUS
  <1>1. LibraryOK
    <2>1. lib \in [Roms -> -LastImport..LastImport] /\ has \in [Roms -> -LastImport..LastImport]
      BY NothingThere DEF LibraryInit
    <2>2. imports \in 0..LastImport
      BY LibraryAssumption DEF LibraryInit
    <2> QED
      BY <2>1, <2>2 DEF LibraryInit, LibraryOK
  <1>2. \A r \in Roms : ~(lib[r] < 0)
    BY NothingThere DEF LibraryInit
  <1> QED
    BY <1>1, <1>2 DEF LibraryInit, LibraryInv

LEMMA CopyingInv ==
    ASSUME LibraryInv,
           \/ PickFolder \/ PickCancelled \/ Cleared \/ ImportDone
           \/ \E roms \in SUBSET Roms : Picked(roms)
           \/ \E r \in Roms : ClearFile(r) \/ CopyStarts(r) \/ CopyEnds(r)
    PROVE  LibraryInv'
  <1> USE LibraryAssumption DEF LibraryInv, LibraryOK, Settled
  <1>1. CASE PickFolder
    BY <1>1 DEF PickFolder
  <1>2. CASE PickCancelled
    BY <1>2 DEF PickCancelled
  <1>3. CASE Cleared
    <2>1. LibraryOK'
      BY <1>3 DEF Cleared
    <2>2. \A r \in Roms : ~(lib'[r] < 0)
      BY <1>3, NothingThere DEF Cleared
    <2> QED
      BY <1>3, <2>1, <2>2 DEF Cleared
  <1>4. CASE ImportDone
    BY <1>4 DEF ImportDone
  <1>5. ASSUME NEW roms \in SUBSET Roms, Picked(roms) PROVE LibraryInv'
    <2>1. import' = "clearing" /\ imports' \in 0..LastImport /\ import = "picking"
      BY <1>5 DEF Picked
    <2> QED
      BY <1>5, <2>1 DEF Picked
  <1>6. ASSUME NEW r \in Roms, ClearFile(r) PROVE LibraryInv'
    BY <1>6 DEF ClearFile
  <1>7. ASSUME NEW r \in Roms, CopyStarts(r) PROVE LibraryInv'
    BY <1>7 DEF CopyStarts
  <1>8. ASSUME NEW r \in Roms, CopyEnds(r) PROVE LibraryInv'
    BY <1>8 DEF CopyEnds
  <1> QED
    BY <1>1, <1>2, <1>3, <1>4, <1>5, <1>6, <1>7, <1>8

LEMMA PageInv ==
    ASSUME LibraryInv,
           \/ OnRomImportComplete \/ MessageLost \/ ClearRomLibrary \/ ApplyConfigured
           \/ Reload \/ Load \/ PreRun \/ WasmBoot \/ Killed
           \/ \E r \in Roms : ReadRom(r)
           \/ UNCHANGED libraryVars
    PROVE  LibraryInv'
  <1> USE DEF LibraryInv, LibraryOK, Settled, Answers
  <1>1. CASE OnRomImportComplete \/ MessageLost \/ ApplyConfigured
    BY <1>1 DEF OnRomImportComplete, MessageLost, ApplyConfigured
  <1>2. CASE ClearRomLibrary
    <2>1. LibraryOK'
      BY <1>2, NothingThere DEF ClearRomLibrary
    <2>2. \A r \in Roms : ~(lib'[r] < 0)
      BY <1>2, NothingThere DEF ClearRomLibrary
    <2> QED
      BY <1>2, <2>1, <2>2 DEF ClearRomLibrary
  <1>3. CASE Reload
    BY <1>3, NothingThere DEF Reload
  <1>4. CASE Load
    <2>1. LibraryOK'
      BY <1>4 DEF Load
    <2>2. \A r \in Roms \ plan' : lib[r] = 0
      BY <1>4 DEF Load
    <2> QED
      BY <1>4, <2>1, <2>2, NothingThere DEF Load
  <1>5. CASE PreRun \/ WasmBoot
    BY <1>5 DEF PreRun, WasmBoot
  <1>6. CASE Killed
    BY <1>6, NothingThere DEF Killed
  <1>7. ASSUME NEW r \in Roms, ReadRom(r) PROVE LibraryInv'
    BY <1>7 DEF ReadRom
  <1>8. CASE UNCHANGED libraryVars
    BY <1>8 DEF libraryVars
  <1> QED
    BY <1>1, <1>2, <1>3, <1>4, <1>5, <1>6, <1>7, <1>8

(* However the copying of folders, the page's reading and reloads, and the application's
   end fall together, the emulator runs with the ROMs of the library, all of them and
   whole (MainActivity.kt, index.html, README.md:86). *)
THEOREM RomsWhole == LibrarySpec => []BootedFromLibrary
  <1>1. LibraryInv => BootedFromLibrary
    <2> SUFFICES ASSUME LibraryInv, page = "booted", Settled
                 PROVE  has = lib /\ ((\E r \in Roms : lib[r] < 0) => interrupted)
      BY DEF LibraryInv, BootedFromLibrary, Settled
    <2>1. \A r \in Roms : has[r] = lib[r]
      BY DEF LibraryInv
    <2>2. has = lib
      BY <2>1 DEF LibraryInv, LibraryOK
    <2> QED
      BY <2>2 DEF LibraryInv, Settled
  <1>2. LibraryInv /\ [LibraryNext]_libraryVars => LibraryInv'
    BY CopyingInv, PageInv DEF LibraryNext
  <1> QED
    BY <1>1, <1>2, LibraryInitInv, PTL DEF LibrarySpec

-----------------------------------------------------------------------------
(* Printing *)

(* A printer whose count is shown as count: what is open is what its choices ask for. *)
Printing(p, count) ==
    /\ p \in Pips /\ ~p.misclosed
    /\ p.stream # NoStream => p.stream = Destined(p.chosen)
    /\ p.ack => p.ack_clear_queued
    /\ count # p.chars_printed => p.update_queued \/ p.unshown

PrinterInv ==
    /\ Printing(pip, count_shown) /\ pip.chosen = printer_cfg /\ count_shown \in 0..LastChar

LEMMA DestinedStream ==
    ASSUME NEW c \in Chosen
    PROVE  /\ Destined(c) \in Streams \union {NoStream}
           /\ Destined(c) # NoStream => Destined(c)[1] = c.destination
  <1>1. CASE c.destination = "none"
    BY <1>1 DEF Destined
  <1>2. CASE c.destination = "file"
    BY <1>2 DEF Destined, Chosen, Streams
  <1>3. CASE c.destination = "pipe"
    BY <1>3 DEF Destined, Chosen, Streams
  <1> QED
    BY <1>1, <1>2, <1>3 DEF Chosen, PrintDestinations

(* What is open is closed as it was opened. *)
LEMMA FlushPrinting ==
    ASSUME NEW p, NEW count, Printing(p, count)
    PROVE  /\ Printing(Flush(p), count) /\ Flush(p).stream = NoStream
           /\ Flush(p).chosen = p.chosen /\ Flush(p).unshown = p.unshown
  <1>1. p \in Pips /\ p.chosen \in Chosen
    BY DEF Printing, Pips
  <1>2. CASE p.stream = NoStream
    BY <1>2 DEF Flush
  <1>3. CASE p.stream # NoStream
    <2>1. p.chosen.destination = p.stream[1]
      BY <1>1, <1>3, DestinedStream DEF Printing
    <2>2. Flush(p) = [p EXCEPT !.stream = NoStream, !.chars_printed = 0,
                               !.update_queued = TRUE, !.misclosed = FALSE]
      BY <1>3, <2>1 DEF Flush, Printing, Pips
    <2>3. 0 \in 0..LastChar
      BY PrinterAssumption
    <2> QED
      BY <1>1, <2>2, <2>3 DEF Printing, Pips
  <1> QED
    BY <1>2, <1>3

LEMMA SetDestinationPrinting ==
    ASSUME NEW p, NEW count, Printing(p, count), NEW dest \in PrintDestinations
    PROVE  /\ Printing(SetDestination(p, dest), count)
           /\ SetDestination(p, dest).chosen = [p.chosen EXCEPT !.destination = dest]
           /\ SetDestination(p, dest).unshown = p.unshown
  <1>1. p \in Pips /\ p.chosen \in Chosen
    BY DEF Printing, Pips
  <1>2. CASE dest = p.chosen.destination
    BY <1>1, <1>2 DEF SetDestination, Chosen
  <1>3. CASE dest # p.chosen.destination
    <2> DEFINE f == Flush(p)
               c == [p.chosen EXCEPT !.destination = dest]
    <2>1. c \in Chosen
      BY <1>1 DEF Chosen
    <2>2. SetDestination(p, dest) = [f EXCEPT !.chosen = c]
      BY <1>3, FlushPrinting DEF SetDestination
    <2> HIDE DEF f, c
    <2>3. Printing(f, count) /\ f.stream = NoStream /\ f.unshown = p.unshown
      BY FlushPrinting DEF f
    <2>4. /\ Printing([f EXCEPT !.chosen = c], count) /\ [f EXCEPT !.chosen = c].chosen = c
          /\ [f EXCEPT !.chosen = c].unshown = p.unshown
      BY <2>1, <2>3 DEF Printing, Pips
    <2> QED
      BY <2>2, <2>4 DEF c
  <1> QED
    BY <1>2, <1>3

(* The name of the kind that is not open may change under what is. *)
LEMMA SetNamePrinting ==
    ASSUME NEW p, NEW count, Printing(p, count), NEW kind \in {"file", "pipe"},
           NEW name \in Names \union {NoName}
    PROVE  /\ Printing(SetName(p, kind, name), count)
           /\ SetName(p, kind, name).chosen = [p.chosen EXCEPT ![kind] = name]
           /\ SetName(p, kind, name).unshown = p.unshown
  <1> DEFINE f == IF p.chosen.destination = kind THEN Flush(p) ELSE p
             c == [p.chosen EXCEPT ![kind] = name]
  <1>1. /\ Printing(f, count) /\ f.chosen = p.chosen /\ f.unshown = p.unshown
        /\ p.chosen.destination = kind => f.stream = NoStream
    BY FlushPrinting
  <1>2. SetName(p, kind, name) = [f EXCEPT !.chosen = c]
    BY <1>1 DEF SetName
  <1>3. f \in Pips /\ f.chosen \in Chosen
    BY <1>1 DEF Printing, Pips
  <1>4. c \in Chosen /\ c.destination = p.chosen.destination
    <2>1. CASE kind = "file"
      BY <1>1, <1>3, <2>1 DEF Chosen
    <2>2. CASE kind = "pipe"
      BY <1>1, <1>3, <2>2 DEF Chosen
    <2> QED
      BY <2>1, <2>2
  <1>5. p.chosen.destination # kind => Destined(c) = Destined(p.chosen)
    <2>1. CASE kind = "file"
      BY <1>1, <1>3, <1>4, <2>1 DEF Chosen, Destined, PrintDestinations
    <2>2. CASE kind = "pipe"
      BY <1>1, <1>3, <1>4, <2>2 DEF Chosen, Destined, PrintDestinations
    <2> QED
      BY <2>1, <2>2
  <1> HIDE DEF f, c
  <1>6. /\ Printing([f EXCEPT !.chosen = c], count) /\ [f EXCEPT !.chosen = c].chosen = c
        /\ [f EXCEPT !.chosen = c].unshown = f.unshown
    BY <1>1, <1>3, <1>4, <1>5 DEF Printing, Pips
  <1> QED
    BY <1>1, <1>2, <1>6 DEF c

LEMMA BytePrinting ==
    ASSUME NEW p, NEW count, Printing(p, count), p.chars_printed < LastChar,
           NEW opens \in BOOLEAN
    PROVE  Printing(Byte(p, opens), count) /\ Byte(p, opens).chosen = p.chosen
  <1> DEFINE q == IF p.stream = NoStream THEN Opened(p, opens) ELSE p
             r == IF q.stream = NoStream THEN q
                  ELSE [q EXCEPT !.chars_printed = @ + 1, !.update_queued = TRUE]
  <1>1. p \in Pips /\ p.chosen \in Chosen
    BY DEF Printing, Pips
  <1>2. /\ Printing(q, count) /\ q.chosen = p.chosen /\ q.chars_printed = p.chars_printed
    <2>1. CASE p.stream = NoStream
      <3> DEFINE stream == IF opens THEN Destined(p.chosen) ELSE NoStream
      <3>1. stream \in Streams \union {NoStream}
            /\ (stream # NoStream => stream = Destined(p.chosen))
        BY <1>1, DestinedStream
      <3>2. q = [p EXCEPT !.stream = stream]
        BY <2>1 DEF Opened
      <3> HIDE DEF stream, q
      <3> QED
        BY <3>1, <3>2 DEF Printing, Pips
    <2>2. CASE p.stream # NoStream
      BY <2>2
    <2> QED
      BY <2>1, <2>2
  <1> HIDE DEF q
  <1>3. Printing(r, count) /\ r.chosen = p.chosen
    <2>1. q.chars_printed + 1 \in 0..LastChar
      BY <1>1, <1>2, PrinterAssumption DEF Pips
    <2> QED
      BY <1>2, <2>1 DEF Printing, Pips
  <1>4. Byte(p, opens) = [r EXCEPT !.ack = TRUE, !.ack_clear_queued = TRUE]
    BY DEF Byte, q
  <1> HIDE DEF r
  <1> QED
    BY <1>3, <1>4 DEF Printing, Pips

LEMMA StrobedPrinting ==
    ASSUME NEW p, NEW count, Printing(p, count), p.chars_printed < LastChar,
           NEW strobe \in BOOLEAN, NEW opens \in BOOLEAN
    PROVE  /\ Printing(Strobed(p, strobe, opens), count)
           /\ Strobed(p, strobe, opens).chosen = p.chosen
           /\ ~strobe => Strobed(p, strobe, opens).chars_printed = p.chars_printed
  <1>1. CASE strobe /\ ~p.strobe_state
    <2>1. Strobed(p, strobe, opens) = [Byte(p, opens) EXCEPT !.strobe_state = TRUE]
      BY <1>1 DEF Strobed
    <2> QED
      <3> DEFINE b == Byte(p, opens)
      <3>1. Printing(b, count) /\ b.chosen = p.chosen
        BY BytePrinting
      <3> HIDE DEF b
      <3>2. Strobed(p, strobe, opens) = [b EXCEPT !.strobe_state = TRUE]
        BY <2>1 DEF b
      <3> QED
        BY <1>1, <3>1, <3>2 DEF Printing, Pips
  <1>2. CASE ~(strobe /\ ~p.strobe_state)
    <2>1. Strobed(p, strobe, opens) = [p EXCEPT !.strobe_state = strobe]
      BY <1>2 DEF Strobed
    <2> QED
      BY <2>1 DEF Printing, Pips
  <1> QED
    BY <1>1, <1>2

(* A new printer knows nothing of what was chosen, and its count is not shown. *)
LEMMA NewPipPrinting ==
    ASSUME NEW p, NEW count, Printing(p, count)
    PROVE  Printing(NewPip(p), count) /\ NewPip(p).chosen \in Chosen
  <1>1. Printing(Flush(p), count)
    BY FlushPrinting
  <1>2. p \in Pips /\ Flush(p) \in Pips /\ ~Flush(p).misclosed /\ 0 \in 0..LastChar
    BY <1>1, PrinterAssumption DEF Printing
  <1> DEFINE left == p.left \/ Flush(p).update_queued
             none == [destination |-> "none", file |-> NoName, pipe |-> NoName]
  <1>3. left \in BOOLEAN /\ none \in Chosen
    BY <1>2 DEF Pips, Chosen, PrintDestinations
  <1>4. NewPip(p) =
        [chosen |-> none,
         stream |-> NoStream, strobe_state |-> TRUE, ack |-> FALSE, ack_clear_queued |-> FALSE,
         chars_printed |-> 0, update_queued |-> FALSE, misclosed |-> FALSE,
         left |-> left, unshown |-> TRUE]
    BY <1>2 DEF NewPip, Pips
  <1> HIDE DEF left, none
  <1> QED
    BY <1>2, <1>3, <1>4 DEF Printing, Pips

LEMMA SwitchMachinePrinting == PrinterInv /\ SwitchMachine => PrinterInv'
  <1> SUFFICES ASSUME PrinterInv, SwitchMachine PROVE PrinterInv'
    OBVIOUS
  <1> DEFINE a == NewPip(pip)
             b == SetDestination(a, printer_cfg.destination)
             c == SetName(b, "file", printer_cfg.file)
             d == SetName(c, "pipe", printer_cfg.pipe)
  <1>1. printer_cfg \in Chosen
    BY DEF PrinterInv, Printing, Pips
  <1>2. /\ printer_cfg.destination \in PrintDestinations
        /\ printer_cfg.file \in Names \union {NoName}
        /\ printer_cfg.pipe \in Names \union {NoName}
    BY <1>1 DEF Chosen
  <1>3. Printing(a, count_shown) /\ a.chosen \in Chosen
    BY NewPipPrinting DEF PrinterInv
  <1> HIDE DEF a
  <1>4. /\ Printing(b, count_shown)
        /\ b.chosen = [a.chosen EXCEPT !.destination = printer_cfg.destination]
    BY <1>2, <1>3, SetDestinationPrinting
  <1> HIDE DEF b
  <1>5. Printing(c, count_shown) /\ c.chosen = [b.chosen EXCEPT !["file"] = printer_cfg.file]
    BY ZenonT(30), <1>2, <1>4, SetNamePrinting
  <1> HIDE DEF c
  <1>6. Printing(d, count_shown) /\ d.chosen = [c.chosen EXCEPT !["pipe"] = printer_cfg.pipe]
    BY <1>2, <1>5, SetNamePrinting
  <1> HIDE DEF d
  <1>7. d.chosen = printer_cfg
    <2>1. b.chosen \in Chosen /\ b.chosen.destination = printer_cfg.destination
      BY <1>3, <1>4 DEF Printing, Pips, Chosen
    <2>2. c.chosen \in Chosen /\ c.chosen.destination = printer_cfg.destination
          /\ c.chosen.file = printer_cfg.file
      BY <1>5, <2>1 DEF Printing, Pips, Chosen
    <2>3. d.chosen \in Chosen /\ d.chosen.destination = printer_cfg.destination
          /\ d.chosen.file = printer_cfg.file /\ d.chosen.pipe = printer_cfg.pipe
      BY <1>6, <2>2 DEF Printing, Pips, Chosen
    <2> QED
      BY <1>1, <2>3 DEF Chosen
  <1>8. pip' = d /\ UNCHANGED <<printer_cfg, count_shown>>
    BY DEF SwitchMachine, a, b, c, d
  <1> QED
    BY <1>6, <1>7, <1>8 DEF PrinterInv

LEMMA PrinterNextPrinting == PrinterInv /\ [PrinterNext]_printerVars => PrinterInv'
  <1> SUFFICES ASSUME PrinterInv, [PrinterNext]_printerVars PROVE PrinterInv'
    OBVIOUS
  <1>1. /\ pip \in Pips /\ Printing(pip, count_shown) /\ pip.chosen = printer_cfg
        /\ printer_cfg \in Chosen /\ count_shown \in 0..LastChar
        /\ pip.chars_printed \in 0..LastChar
    BY DEF PrinterInv, Printing, Pips
  <1>2. ASSUME NEW opens \in BOOLEAN, PrintByte(opens) PROVE PrinterInv'
    BY ZenonT(30), <1>1, <1>2, StrobedPrinting DEF PrintByte, PrinterInv
  <1>3. ASSUME NEW opens \in BOOLEAN, NEW strobe \in BOOLEAN, Strobe(strobe, opens)
        PROVE  PrinterInv'
    BY <1>1, <1>3, StrobedPrinting DEF Strobe, PrinterInv
  <1>4. CASE PrinterReset
    BY <1>1, <1>4 DEF PrinterReset, PrinterInv, Printing, Pips
  <1>5. CASE FlushPrinter
    BY <1>1, <1>5, FlushPrinting DEF FlushPrinter, PrinterInv
  <1>6. CASE SwitchMachine
    BY <1>6, SwitchMachinePrinting
  <1>7. CASE AckClears
    BY <1>1, <1>7 DEF AckClears, PrinterInv, Printing, Pips
  <1>8. CASE UpdateShows
    BY <1>1, <1>8 DEF UpdateShows, PrinterInv, Printing, Pips
  <1>9. CASE LeftShows
    BY <1>1, <1>9 DEF LeftShows, PrinterInv, Printing, Pips
  <1>10. ASSUME NEW dest \in PrintDestinations, ChooseDestination(dest) PROVE PrinterInv'
    BY <1>1, <1>10, SetDestinationPrinting DEF ChooseDestination, PrinterInv
  <1>11. ASSUME NEW kind \in {"file", "pipe"}, NEW name \in Names \union {NoName},
                ChooseName(kind, name)
         PROVE  PrinterInv'
    <2>1. /\ pip' = SetName(pip, kind, name) /\ UNCHANGED count_shown
          /\ printer_cfg' = [printer_cfg EXCEPT ![kind] = name]
      BY <1>11 DEF ChooseName
    <2>2. Printing(pip', count_shown) /\ pip'.chosen = printer_cfg'
      <3>1. /\ Printing(SetName(pip, kind, name), count_shown)
            /\ SetName(pip, kind, name).chosen = [pip.chosen EXCEPT ![kind] = name]
        BY <1>1, SetNamePrinting
      <3> QED
        BY <1>1, <2>1, <3>1
    <2> QED
      BY <1>1, <2>1, <2>2 DEF PrinterInv
  <1>12. CASE UNCHANGED printerVars
    BY <1>12 DEF printerVars, PrinterInv
  <1> QED
    BY <1>2, <1>3, <1>4, <1>5, <1>6, <1>7, <1>8, <1>9, <1>10, <1>11, <1>12 DEF PrinterNext

(* Bytes are printed where the user last asked, on whichever machine, to what was opened
   as it is closed; ACK does not stay up; and the count shown becomes the stream's
   (printer.c). *)
THEOREM PrintsWhereAsked == PrinterSpec => []PrintedWhereAsked
  <1>1. PrinterInit => PrinterInv
    <2> SUFFICES ASSUME PrinterInit PROVE PrinterInv
      OBVIOUS
    <2>1. printer_cfg \in Chosen /\ 0 \in 0..LastChar
      BY PrinterAssumption DEF PrinterInit, Chosen, PrintDestinations
    <2> QED
      BY <2>1 DEF PrinterInit, PrinterInv, Printing, Pips
  <1>2. PrinterInv => PrintedWhereAsked
    BY DEF PrinterInv, Printing, PrintedWhereAsked, Pips
  <1> QED
    BY <1>1, <1>2, PrinterNextPrinting, PTL DEF PrinterSpec

-----------------------------------------------------------------------------
(* The files that are fetched *)

AtHand(s) == s.here \union s.failed \union s.locked

Counted(s) == s \in Webs /\ s.waiting = Cardinality(s.locked)

\* The files a request needs have been asked for.
Needed(s, r) ==
    /\ r.kind = "machine" => RomsOf[r.to] \union RomsIn(s.slot[r.to]) \subseteq AtHand(s)
    /\ r.kind = "cart" => RomsOf[r.to] \subseteq AtHand(s)
    /\ r.kind = "load" => r.to \in AtHand(s)

Provided(s) == \A i \in 1..Len(s.queue) : Needed(s, s.queue[i])

(* What a request would come to with every file at hand, of a machine and cartridges. *)
Ats == [config : Configs \union {NoConfig}, slot : [Configs -> Slots]]

Now(s) == [config |-> s.config, slot |-> s.slot]
Want(s) == [config |-> s.wantConfig, slot |-> s.wantSlot]

Effect(at, r) ==
    IF r.kind = "machine" THEN [at EXCEPT !.config = r.to]
    ELSE IF r.kind = "cart" /\ at.config \in Carted THEN [at EXCEPT !.slot[at.config] = r.to]
    ELSE at

Meant(at, r) == r.kind = "basic" => at.config = r.on /\ at.slot[r.on] = r.with

OnlyLoads(q, i) == \A j \in (i + 1)..Len(q) : q[j].kind = "load"

(* f has what the first requests of q come to.  What loads do not change is what is
   wanted, wherever only loads are left. *)
Serves(q, now, want, f) ==
    /\ f \in [0..Len(q) -> Ats] /\ f[0] = now
    /\ \A i \in 1..Len(q) : f[i] = Effect(f[i - 1], q[i]) /\ Meant(f[i - 1], q[i])
    /\ \A i \in 0..Len(q) : OnlyLoads(q, i) => f[i] = want

Served(q, now, want) == \E f : Serves(q, now, want, f)

WebKept(s) ==
    /\ Counted(s) /\ Provided(s)
    /\ s.pass => s.waiting = 0
    /\ s.phase = "start" =>
          /\ s.config = NoConfig /\ s.queue = <<>> /\ s.waiting = 0 /\ ~s.pass
          /\ s.wantConfig = FirstConfig /\ s.wantSlot = s.slot
    /\ ~s.overtaken => ~s.misplaced
    /\ ~s.overtaken /\ s.phase # "start" => Served(s.queue, Now(s), Want(s))

LEMMA EffectTyped ==
    ASSUME NEW at \in Ats, NEW r \in Requests
    PROVE  Effect(at, r) \in Ats
  <1>1. CASE r.kind = "machine"
    <2>1. r.to \in Configs
      BY <1>1 DEF Requests
    <2> QED
      BY <1>1, <2>1 DEF Effect, Ats
  <1>2. CASE r.kind = "cart" /\ at.config \in Carted
    <2>1. r.to \in Slots /\ at.config \in Configs
      BY <1>2, FetchAssumption DEF Requests, Slots
    <2>2. [at.slot EXCEPT ![at.config] = r.to] \in [Configs -> Slots]
      BY <2>1 DEF Ats
    <2>3. Effect(at, r) = [at EXCEPT !.slot = [at.slot EXCEPT ![at.config] = r.to]]
      BY <1>2 DEF Effect
    <2> QED
      BY <2>2, <2>3 DEF Ats
  <1>3. CASE r.kind # "machine" /\ ~(r.kind = "cart" /\ at.config \in Carted)
    BY <1>3 DEF Effect
  <1> QED
    BY <1>1, <1>2, <1>3

LEMMA ServedAppend ==
    ASSUME NEW q \in Seq(Requests), NEW now, NEW want, Served(q, now, want),
           NEW r \in Requests, Meant(want, r)
    PROVE  /\ Append(q, r) \in Seq(Requests)
           /\ Served(Append(q, r), now, Effect(want, r))
  <1>1. PICK f : Serves(q, now, want, f)
    BY DEF Served
  <1> DEFINE p == Append(q, r)
             n == Len(q)
             e == Effect(want, r)
             g == [i \in 0..(n + 1) |-> IF i = n + 1 THEN e ELSE f[i]]
  <1>2. /\ n \in Nat /\ p \in Seq(Requests) /\ Len(p) = n + 1
        /\ (\A i \in 1..n : p[i] = q[i]) /\ p[n + 1] = r
    BY AppendProperties
  <1>3. f[n] = want /\ want \in Ats
    <2>1. OnlyLoads(q, n) /\ n \in 0..n
      BY <1>2 DEF OnlyLoads
    <2> QED
      BY <1>1, <2>1 DEF Serves
  <1>4. e \in Ats
    BY <1>3, EffectTyped
  <1>5. (\A i \in 0..n : g[i] = f[i]) /\ g[n + 1] = e
    BY <1>2
  <1>6. g \in [0..(n + 1) -> Ats] /\ g[0] = now
    <2> HIDE DEF e
    <2> QED
      BY <1>1, <1>2, <1>4 DEF Serves
  <1> HIDE DEF g, p
  <1>7. ASSUME NEW i \in 1..(n + 1)
        PROVE  g[i] = Effect(g[i - 1], p[i]) /\ Meant(g[i - 1], p[i])
    <2>1. CASE i \in 1..n
      <3>1. i \in 0..n /\ i - 1 \in 0..n
        BY <1>2, <2>1
      <3>2. g[i] = f[i] /\ g[i - 1] = f[i - 1] /\ p[i] = q[i]
        BY <1>2, <1>5, <2>1, <3>1
      <3> QED
        BY <1>1, <2>1, <3>2 DEF Serves
    <2>2. CASE i \notin 1..n
      <3>1. i = n + 1 /\ i - 1 = n /\ n \in 0..n
        BY <1>2, <2>2
      <3> QED
        BY <1>2, <1>3, <1>5, <3>1
    <2> QED
      BY <2>1, <2>2
  <1>8. ASSUME NEW i \in 0..(n + 1), OnlyLoads(p, i) PROVE g[i] = e
    <2>1. CASE i = n + 1
      BY <1>5, <2>1
    <2>2. CASE i # n + 1
      <3>1. i \in 0..n /\ n + 1 \in (i + 1)..(n + 1)
        BY <1>2, <2>2
      <3>2. r.kind = "load"
        BY <1>2, <1>8, <3>1 DEF OnlyLoads
      <3>3. OnlyLoads(q, i)
        <4>1. \A j \in (i + 1)..n : j \in (i + 1)..(n + 1) /\ j \in 1..n
          BY <1>2, <3>1
        <4> QED
          BY <1>2, <1>8, <4>1 DEF OnlyLoads
      <3>4. f[i] = want /\ e = want
        BY <1>1, <3>1, <3>2, <3>3 DEF Serves, Effect
      <3> QED
        BY <1>5, <3>1, <3>4
    <2> QED
      BY <2>1, <2>2
  <1> HIDE DEF e
  <1>9. Serves(p, now, e, g)
    BY <1>2, <1>6, <1>7, <1>8 DEF Serves
  <1> QED
    BY <1>2, <1>9 DEF Served, p, e

LEMMA ServedLoads ==
    ASSUME NEW q \in Seq(Requests), OnlyLoads(q, 0), NEW now \in Ats
    PROVE  /\ Served(q, now, now)
           /\ \A want : Served(q, now, want) => want = now
  <1> DEFINE f == [i \in 0..Len(q) |-> now]
  <1>0. Len(q) \in Nat
    OBVIOUS
  <1>1. f \in [0..Len(q) -> Ats] /\ \A i \in 0..Len(q) : f[i] = now
    OBVIOUS
  <1> HIDE DEF f
  <1>2. \A i \in 1..Len(q) : i \in 0..Len(q) /\ i - 1 \in 0..Len(q) /\ i \in (0 + 1)..Len(q)
    BY <1>0
  <1>3. \A i \in 1..Len(q) : q[i].kind = "load"
    BY <1>2 DEF OnlyLoads
  <1>4. \A i \in 1..Len(q) : Effect(now, q[i]) = now /\ Meant(now, q[i])
    BY <1>3 DEF Effect, Meant
  <1>5. Serves(q, now, now, f)
    BY <1>0, <1>1, <1>2, <1>4 DEF Serves
  <1>6. ASSUME NEW want, Served(q, now, want) PROVE want = now
    BY <1>0, <1>6 DEF Served, Serves
  <1> QED
    BY <1>5, <1>6 DEF Served

LEMMA ServedHead ==
    ASSUME NEW q \in Seq(Requests), q # <<>>, NEW now, NEW want, Served(q, now, want)
    PROVE  /\ Tail(q) \in Seq(Requests) /\ Head(q) \in Requests
           /\ Served(Tail(q), Effect(now, Head(q)), want) /\ Meant(now, Head(q))
  <1>1. PICK f : Serves(q, now, want, f)
    BY DEF Served
  <1> DEFINE t == Tail(q)
             n == Len(t)
             g == [i \in 0..n |-> f[i + 1]]
  <1>2. /\ n \in Nat /\ Len(q) = n + 1 /\ t \in Seq(Requests) /\ Head(q) = q[1]
        /\ Head(q) \in Requests /\ \A i \in 1..n : t[i] = q[i + 1]
    BY HeadTailProperties
  <1>3. f[0] = now /\ f[1] = Effect(f[0], q[1]) /\ Meant(f[0], q[1])
    <2>1. 1 \in 1..Len(q) /\ 1 - 1 = 0
      BY <1>2
    <2> QED
      BY <1>1, <2>1 DEF Serves
  <1>4. \A i \in 0..n : i + 1 \in 0..Len(q) /\ g[i] = f[i + 1]
    BY <1>2
  <1>5. g \in [0..n -> Ats]
    BY <1>1, <1>4 DEF Serves
  <1> HIDE DEF g, t
  <1>6. g[0] = Effect(now, Head(q))
    BY <1>2, <1>3, <1>4
  <1>7. ASSUME NEW i \in 1..n
        PROVE  g[i] = Effect(g[i - 1], t[i]) /\ Meant(g[i - 1], t[i])
    <2>1. i \in 0..n /\ i - 1 \in 0..n /\ i + 1 \in 1..Len(q) /\ (i + 1) - 1 = i /\ (i - 1) + 1 = i
      BY <1>2
    <2>2. g[i] = f[i + 1] /\ g[i - 1] = f[i] /\ t[i] = q[i + 1]
      BY <1>2, <1>4, <2>1
    <2> QED
      BY <1>1, <2>1, <2>2 DEF Serves
  <1>8. ASSUME NEW i \in 0..n, OnlyLoads(t, i) PROVE g[i] = want
    <2>1. OnlyLoads(q, i + 1)
      <3>1. ASSUME NEW j \in ((i + 1) + 1)..Len(q) PROVE q[j].kind = "load"
        <4>1. j - 1 \in (i + 1)..n /\ j - 1 \in 1..n /\ (j - 1) + 1 = j
          BY <1>2
        <4>2. t[j - 1].kind = "load" /\ t[j - 1] = q[(j - 1) + 1]
          BY <1>2, <1>8, <4>1 DEF OnlyLoads
        <4> QED
          BY <4>1, <4>2
      <3> QED
        BY <3>1 DEF OnlyLoads
    <2> QED
      BY <1>1, <1>4, <2>1 DEF Serves
  <1>9. Serves(t, Effect(now, Head(q)), want, g)
    BY <1>2, <1>5, <1>6, <1>7, <1>8 DEF Serves
  <1> QED
    BY <1>2, <1>3, <1>9 DEF Served, t

LEMMA FilesOf ==
    /\ \A m \in Configs : RomsOf[m] \subseteq Downloads
    /\ \A c \in Carts : RomsOf[c] \subseteq Downloads
    /\ \A c \in Slots : RomsIn(c) \subseteq Downloads
    /\ RomsIn(NoCart) = {}
  <1>1. \A c \in Configs \union Carts : RomsOf[c] \subseteq Downloads
    BY FetchAssumption
  <1> QED
    BY <1>1 DEF RomsIn, Slots

LEMMA CountedNone ==
    ASSUME NEW s, Counted(s), s.waiting = 0
    PROVE  s.locked = {}
  <1>1. IsFiniteSet(s.locked)
    BY FetchAssumption, FS_Subset DEF Counted, Webs
  <1> QED
    BY <1>1, FS_EmptySet DEF Counted

LEMMA WgetIs ==
    ASSUME NEW s, Counted(s), NEW files \in SUBSET Downloads
    PROVE  LET t == Wget(s, files)
           IN  /\ Counted(t) /\ files \subseteq AtHand(t) /\ AtHand(s) \subseteq AtHand(t)
               /\ \A x \in {"config", "slot", "here", "failed", "queue", "phase", "pass", "made",
                            "wantConfig", "wantSlot", "overtaken", "misplaced"} : t[x] = s[x]
               /\ t.waiting = 0 => t = s
               /\ files \subseteq AtHand(s) => t = s
               /\ s.waiting # 0 => t.waiting # 0
  <1> DEFINE new == files \ (s.here \union s.failed \union s.locked)
             n == Cardinality(new)
             l == s.locked \union new
             t == [s EXCEPT !.locked = l, !.waiting = s.waiting + n]
  <1>0. s \in Webs /\ s.waiting = Cardinality(s.locked)
    BY DEF Counted
  <1>1. Wget(s, files) = t
    BY DEF Wget
  <1>2. /\ IsFiniteSet(s.locked) /\ IsFiniteSet(new) /\ s.locked \in SUBSET Downloads
        /\ new \in SUBSET Downloads /\ s.locked \intersect new = {}
    BY <1>0, FetchAssumption, FS_Subset DEF Webs
  <1>3. /\ IsFiniteSet(l) /\ l \in SUBSET Downloads
        /\ Cardinality(l) = s.waiting + n
    <2>1. Cardinality(s.locked \intersect new) = 0
      BY <1>2, FS_EmptySet
    <2>2. Cardinality(s.locked) \in Nat /\ n \in Nat
      BY <1>2, FS_CardinalityType
    <2>3. Cardinality(l) = Cardinality(s.locked) + n - Cardinality(s.locked \intersect new)
      BY <1>2, FS_Union
    <2>4. IsFiniteSet(l) /\ l \in SUBSET Downloads
      BY <1>2, FS_Union
    <2> HIDE DEF n, l
    <2> QED
      BY <1>0, <2>1, <2>2, <2>3, <2>4
  <1>4. /\ Cardinality(l) \in Nat /\ Cardinality(l) <= Cardinality(Downloads)
        /\ Cardinality(Downloads) \in Nat /\ n \in Nat /\ s.waiting \in Nat
    BY <1>0, <1>2, <1>3, FetchAssumption, FS_Subset, FS_CardinalityType
  <1>5. s.waiting + n \in 0..Cardinality(Downloads)
    BY <1>3, <1>4
  <1>6. n = 0 => new = {}
    BY <1>2, FS_EmptySet
  <1>61. new = {} => n = 0
    BY FS_EmptySet
  <1>7. files \subseteq AtHand(s) => new = {}
    BY DEF AtHand
  <1>8. files \subseteq s.here \union s.failed \union l
    OBVIOUS
  <1>9. new = {} => l = s.locked
    OBVIOUS
  <1>10. s.locked \subseteq l
    OBVIOUS
  <1> HIDE DEF n, new, l
  <1>11. t \in Webs
    BY <1>0, <1>3, <1>5 DEF Webs
  <1>12. /\ t.locked = l /\ t.waiting = s.waiting + n
         /\ \A x \in {"config", "slot", "here", "failed", "queue", "phase", "pass", "made",
                      "wantConfig", "wantSlot", "overtaken", "misplaced"} : t[x] = s[x]
    BY <1>0 DEF Webs
  <1>13. new = {} => t = s
    <2> SUFFICES ASSUME new = {} PROVE t = s
      OBVIOUS
    <2>1. l = s.locked /\ s.waiting + n = s.waiting
      BY <1>4, <1>61, <1>9
    <2> QED
      BY <1>0, <2>1 DEF Webs
  <1> HIDE DEF t
  <1>14. Counted(t)
    BY <1>3, <1>11, <1>12 DEF Counted
  <1>15. files \subseteq AtHand(t) /\ AtHand(s) \subseteq AtHand(t)
    BY <1>8, <1>10, <1>12 DEF AtHand
  <1>16. t.waiting = 0 => n = 0
    BY <1>4, <1>12
  <1>17. s.waiting # 0 => t.waiting # 0
    BY <1>4, <1>12
  <1> QED
    BY <1>1, <1>6, <1>7, <1>12, <1>13, <1>14, <1>15, <1>16, <1>17

\* A request is put at the end of the queue.
LEMMA QueuedIs ==
    ASSUME NEW s, Counted(s), Provided(s), NEW r \in Requests, Needed(s, r)
    PROVE  LET t == Queued(s, r)
           IN  /\ Counted(t) /\ Provided(t) /\ t.queue = Append(s.queue, r)
               /\ \A x \in {"config", "slot", "here", "failed", "locked", "waiting", "phase",
                            "pass", "made", "wantConfig", "wantSlot", "overtaken", "misplaced"} :
                     t[x] = s[x]
  <1> DEFINE q == Append(s.queue, r)
             t == [s EXCEPT !.queue = q]
  <1>0. s \in Webs /\ s.queue \in Seq(Requests) /\ s.waiting = Cardinality(s.locked)
    BY DEF Counted, Webs
  <1>1. /\ Len(s.queue) \in Nat /\ q \in Seq(Requests) /\ Len(q) = Len(s.queue) + 1
        /\ (\A i \in 1..Len(s.queue) : q[i] = s.queue[i]) /\ q[Len(s.queue) + 1] = r
    BY <1>0, AppendProperties
  <1> HIDE DEF q
  <1>2. t \in Webs
    BY <1>0, <1>1 DEF Webs
  <1>3. /\ t.queue = q
        /\ \A x \in {"config", "slot", "here", "failed", "locked", "waiting", "phase",
                     "pass", "made", "wantConfig", "wantSlot", "overtaken", "misplaced"} :
              t[x] = s[x]
    BY <1>0 DEF Webs
  <1> HIDE DEF t
  <1>4. Counted(t)
    BY <1>0, <1>2, <1>3 DEF Counted
  <1>5. \A p : Needed(s, p) => Needed(t, p)
    BY <1>3 DEF Needed, AtHand
  <1>6. Provided(t)
    <2> SUFFICES ASSUME NEW i \in 1..Len(q) PROVE Needed(t, q[i])
      BY <1>3 DEF Provided
    <2>1. CASE i \in 1..Len(s.queue)
      BY <1>1, <1>5, <2>1 DEF Provided
    <2>2. CASE i \notin 1..Len(s.queue)
      <3>1. i = Len(s.queue) + 1
        BY <1>1, <2>2
      <3> QED
        BY <1>1, <1>5, <3>1
    <2> QED
      BY <2>1, <2>2
  <1> QED
    BY <1>3, <1>4, <1>6 DEF Queued, t, q

\* A request is answered: the machine or its cartridge is another.
LEMMA MachineIs ==
    ASSUME NEW s, Counted(s), Provided(s), NEW m \in Configs
    PROVE  LET t == [s EXCEPT !.config = m]
           IN  /\ Counted(t) /\ Provided(t) /\ t.config = m
               /\ \A x \in {"slot", "here", "failed", "locked", "waiting", "queue", "phase",
                            "pass", "made", "wantConfig", "wantSlot", "overtaken", "misplaced"} :
                     t[x] = s[x]
  <1> DEFINE t == [s EXCEPT !.config = m]
  <1>0. s \in Webs /\ s.waiting = Cardinality(s.locked)
    BY DEF Counted
  <1>1. t \in Webs
    BY <1>0 DEF Webs
  <1>2. /\ t.config = m
        /\ \A x \in {"slot", "here", "failed", "locked", "waiting", "queue", "phase",
                     "pass", "made", "wantConfig", "wantSlot", "overtaken", "misplaced"} :
              t[x] = s[x]
    BY <1>0 DEF Webs
  <1> HIDE DEF t
  <1>3. Counted(t) /\ Provided(t)
    BY <1>0, <1>1, <1>2 DEF Counted, Provided, Needed, AtHand
  <1> QED
    BY <1>2, <1>3 DEF t

LEMMA SlotIs ==
    ASSUME NEW s, Counted(s), Provided(s), NEW m \in Configs, NEW c \in Slots,
           RomsIn(c) \subseteq AtHand(s)
    PROVE  LET t == [s EXCEPT !.slot[m] = c]
           IN  /\ Counted(t) /\ Provided(t) /\ t.slot = [s.slot EXCEPT ![m] = c]
               /\ \A x \in {"config", "here", "failed", "locked", "waiting", "queue", "phase",
                            "pass", "made", "wantConfig", "wantSlot", "overtaken", "misplaced"} :
                     t[x] = s[x]
  <1> DEFINE n == [s.slot EXCEPT ![m] = c]
             t == [s EXCEPT !.slot = n]
  <1>0. s \in Webs /\ s.slot \in [Configs -> Slots] /\ s.waiting = Cardinality(s.locked)
        /\ s.queue \in Seq(Requests)
    BY DEF Counted, Webs
  <1>1. /\ n \in [Configs -> Slots]
        /\ \A k \in Configs : RomsIn(n[k]) \subseteq RomsIn(s.slot[k]) \union AtHand(s)
    BY <1>0
  <1> HIDE DEF n
  <1>2. t \in Webs
    BY <1>0, <1>1 DEF Webs
  <1>3. /\ t.slot = n
        /\ \A x \in {"config", "here", "failed", "locked", "waiting", "queue", "phase",
                     "pass", "made", "wantConfig", "wantSlot", "overtaken", "misplaced"} :
              t[x] = s[x]
    BY <1>0 DEF Webs
  <1>4. [s EXCEPT !.slot[m] = c] = t
    BY DEF n
  <1> HIDE DEF t
  <1>5. Counted(t)
    BY <1>0, <1>2, <1>3 DEF Counted
  <1>6. Provided(t)
    <2> SUFFICES ASSUME NEW i \in 1..Len(s.queue) PROVE Needed(t, s.queue[i])
      BY <1>3 DEF Provided
    <2> DEFINE r == s.queue[i]
    <2>1. r \in Requests /\ Needed(s, r)
      BY <1>0 DEF Provided
    <2> HIDE DEF r
    <2>2. AtHand(t) = AtHand(s)
      BY <1>3 DEF AtHand
    <2>3. r.kind = "machine" => r.to \in Configs
      BY <2>1 DEF Requests
    <2>4. Needed(t, r)
      BY <1>1, <1>3, <2>1, <2>2, <2>3 DEF Needed
    <2> QED
      BY <2>4 DEF r
  <1> QED
    BY <1>3, <1>4, <1>5, <1>6 DEF n

LEMMA FetchedMore ==
    ASSUME NEW s, Counted(s), Provided(s), NEW files \in SUBSET Downloads
    PROVE  LET t == Wget(s, files)
           IN  Provided(t) /\ \A r : Needed(s, r) => Needed(t, r)
  <1> DEFINE t == Wget(s, files)
  <1>1. /\ AtHand(s) \subseteq AtHand(t)
        /\ t.queue = s.queue /\ t.slot = s.slot
    BY WgetIs
  <1> HIDE DEF t
  <1>2. \A r : Needed(s, r) => Needed(t, r)
    BY <1>1 DEF Needed
  <1>3. Provided(t)
    BY <1>1, <1>2 DEF Provided
  <1> QED
    BY <1>2, <1>3 DEF t

\* What neither changes.
Aside == {"made", "phase", "pass", "wantConfig", "wantSlot", "overtaken", "misplaced"}

\* What became of a request for cartridge c, t having been made of s: nothing, it is in, or
\* the request waits.
CartridgeAnswer(s, t, c) ==
    /\ Counted(t) /\ Provided(t) /\ t.config = s.config
    /\ \A x \in Aside : t[x] = s[x]
    /\ \/ s.config \notin Carted /\ t = s
       \/ /\ s.config \in Carted /\ (c = NoCart \/ s.waiting = 0)
          /\ t.slot = [s.slot EXCEPT ![s.config] = c]
          /\ t.queue = s.queue /\ t.waiting = s.waiting
       \/ /\ s.config \in Carted /\ c \in Carts /\ t.slot = s.slot
          /\ t.queue = Append(s.queue, [kind |-> "cart", to |-> c])
          /\ ~(s.waiting = 0 /\ RomsIn(c) \subseteq AtHand(s))

LEMMA CartridgeAnswered ==
    ASSUME NEW s, Counted(s), Provided(s), NEW c \in Slots
    PROVE  CartridgeAnswer(s, SetCartridge(s, c), c)
  <1>1. CASE s.config \notin Carted
    BY <1>1 DEF SetCartridge, CartridgeAnswer
  <1>2. CASE s.config \in Carted
    <2> DEFINE files == RomsIn(c)
               t == Wget(s, files)
               k == s.config
    <2>1. files \in SUBSET Downloads /\ k \in Configs
      BY <1>2, FilesOf, FetchAssumption
    <2>2. /\ Counted(t) /\ files \subseteq AtHand(t)
          /\ \A x \in {"config", "slot", "here", "failed", "queue", "phase", "pass", "made",
                       "wantConfig", "wantSlot", "overtaken", "misplaced"} : t[x] = s[x]
          /\ t.waiting = 0 => t = s
          /\ files \subseteq AtHand(s) => t = s
      <3> HIDE DEF files
      <3> QED
        BY <2>1, WgetIs
    <2>3. Provided(t)
      <3> HIDE DEF files
      <3> QED
        BY <2>1, FetchedMore
    <2>4. CASE c = NoCart \/ t.waiting = 0
      <3> DEFINE u == [t EXCEPT !.slot[k] = c]
      <3>1. SetCartridge(s, c) = u
        BY <1>2, <2>4 DEF SetCartridge, Ready
      <3>2. t = s
        BY <2>2, <2>4, FilesOf
      <3>3. /\ Counted(u) /\ Provided(u) /\ u.slot = [t.slot EXCEPT ![k] = c]
            /\ \A x \in {"config", "here", "failed", "locked", "waiting", "queue", "phase",
                         "pass", "made", "wantConfig", "wantSlot", "overtaken", "misplaced"} :
                  u[x] = t[x]
        <4> HIDE DEF t, k
        <4> QED
          BY <2>1, <2>2, <2>3, SlotIs
      <3> HIDE DEF u, t
      <3> QED
        BY <1>2, <2>2, <2>4, <3>1, <3>2, <3>3 DEF CartridgeAnswer, Aside
    <2>5. CASE c # NoCart /\ t.waiting # 0
      <3> DEFINE r == [kind |-> "cart", to |-> c]
                 u == Queued(t, r)
      <3>1. SetCartridge(s, c) = u
        BY <1>2, <2>5 DEF SetCartridge, Ready
      <3>2. c \in Carts /\ files = RomsOf[c]
        BY <2>5 DEF Slots, RomsIn
      <3>3. r \in Requests /\ Needed(t, r)
        BY <2>2, <3>2 DEF Requests, Needed
      <3>4. /\ Counted(u) /\ Provided(u) /\ u.queue = Append(t.queue, r)
            /\ \A x \in {"config", "slot", "here", "failed", "locked", "waiting", "phase",
                         "pass", "made", "wantConfig", "wantSlot", "overtaken", "misplaced"} :
                  u[x] = t[x]
        <4> HIDE DEF t, r
        <4> QED
          BY <2>2, <2>3, <3>3, QueuedIs
      <3>5. ~(s.waiting = 0 /\ files \subseteq AtHand(s))
        BY <2>2, <2>5
      <3> HIDE DEF u, t
      <3> QED
        BY <1>2, <2>2, <2>5, <3>1, <3>2, <3>4, <3>5 DEF CartridgeAnswer, Aside
    <2> QED
      BY <2>4, <2>5
  <1> QED
    BY <1>1, <1>2

\* And of one for machine m.
MachineAnswer(s, t, m) ==
    /\ Counted(t) /\ Provided(t) /\ t.slot = s.slot
    /\ \A x \in Aside : t[x] = s[x]
    /\ \/ s.waiting = 0 /\ t.config = m /\ t.queue = s.queue /\ t.waiting = 0
       \/ /\ t.config = s.config
          /\ t.queue = Append(s.queue, [kind |-> "machine", to |-> m])
          /\ ~(s.waiting = 0 /\ RomsOf[m] \union RomsIn(s.slot[m]) \subseteq AtHand(s))

LEMMA MachineAnswered ==
    ASSUME NEW s, Counted(s), Provided(s), NEW m \in Configs
    PROVE  MachineAnswer(s, SetMachine(s, m), m)
  <1> DEFINE files == RomsOf[m] \union RomsIn(s.slot[m])
             t == Wget(s, files)
  <1>0. s.slot \in [Configs -> Slots]
    BY DEF Counted, Webs
  <1>1. files \in SUBSET Downloads
    BY <1>0, FilesOf
  <1>2. /\ Counted(t) /\ files \subseteq AtHand(t)
        /\ \A x \in {"config", "slot", "here", "failed", "queue", "phase", "pass", "made",
                     "wantConfig", "wantSlot", "overtaken", "misplaced"} : t[x] = s[x]
        /\ t.waiting = 0 => t = s
        /\ files \subseteq AtHand(s) => t = s
    <2> HIDE DEF files
    <2> QED
      BY <1>1, WgetIs
  <1>3. Provided(t)
    <2> HIDE DEF files
    <2> QED
      BY <1>1, FetchedMore
  <1>4. CASE t.waiting = 0
    <2> DEFINE v == [s EXCEPT !.config = m]
               c == s.slot[m]
               u == SetCartridge(v, c)
    <2>1. t = s /\ s.waiting = 0
      BY <1>2, <1>4
    <2>2. SetMachine(s, m) = u
      <3> HIDE DEF u, v
      <3>1. t.slot[m] = c
        BY <2>1
      <3>2. SetMachine(s, m) = SetCartridge([t EXCEPT !.config = m], t.slot[m])
        BY <1>4 DEF SetMachine, Ready
      <3> QED
        BY <2>1, <3>2 DEF u, v
    <2>3. /\ Counted(v) /\ Provided(v) /\ v.config = m
          /\ \A x \in {"slot", "here", "failed", "locked", "waiting", "queue", "phase",
                       "pass", "made", "wantConfig", "wantSlot", "overtaken", "misplaced"} :
                v[x] = s[x]
      BY MachineIs
    <2>4. c \in Slots /\ RomsIn(c) \subseteq AtHand(v)
      <3>1. c \in Slots /\ RomsIn(c) \subseteq AtHand(s)
        BY <1>0, <1>2, <2>1
      <3> HIDE DEF v
      <3> QED
        BY <2>3, <3>1 DEF AtHand
    <2> HIDE DEF v
    <2>5. CartridgeAnswer(v, u, c)
      <3> HIDE DEF c
      <3> QED
        BY <2>3, <2>4, CartridgeAnswered
    <2>6. [s.slot EXCEPT ![m] = c] = s.slot
      BY <1>0
    <2> HIDE DEF u, c, t
    <2>7. u.slot = v.slot /\ u.queue = v.queue /\ u.waiting = 0 /\ u.config = m
      BY <2>1, <2>3, <2>4, <2>5, <2>6 DEF CartridgeAnswer
    <2>8. Counted(u) /\ Provided(u) /\ \A x \in Aside : u[x] = s[x]
      BY <2>3, <2>5 DEF CartridgeAnswer, Aside
    <2> QED
      BY <2>1, <2>2, <2>3, <2>7, <2>8 DEF MachineAnswer
  <1>5. CASE t.waiting # 0
    <2> DEFINE r == [kind |-> "machine", to |-> m]
               u == Queued(t, r)
    <2>1. SetMachine(s, m) = u
      BY <1>5 DEF SetMachine, Ready
    <2>2. r \in Requests /\ Needed(t, r)
      <3>1. t.slot = s.slot
        BY <1>2
      <3> QED
        BY <1>2, <3>1 DEF Requests, Needed
    <2>3. /\ Counted(u) /\ Provided(u) /\ u.queue = Append(t.queue, r)
          /\ \A x \in {"config", "slot", "here", "failed", "locked", "waiting", "phase",
                       "pass", "made", "wantConfig", "wantSlot", "overtaken", "misplaced"} :
                u[x] = t[x]
      <3> HIDE DEF t, r
      <3> QED
        BY <1>2, <1>3, <2>2, QueuedIs
    <2>4. ~(s.waiting = 0 /\ files \subseteq AtHand(s))
      BY <1>2, <1>5
    <2> HIDE DEF u, t
    <2> QED
      BY <1>2, <2>1, <2>3, <2>4 DEF MachineAnswer, Aside
  <1> QED
    BY <1>4, <1>5

LEMMA NowTyped ==
    ASSUME NEW s, Counted(s)
    PROVE  Now(s) \in Ats /\ Want(s) \in Ats /\ s.queue \in Seq(Requests)
  BY DEF Counted, Webs, Now, Want, Ats

LEMMA NoneOutstanding ==
    ASSUME NEW s, Counted(s)
    PROVE  ~Outstanding(s) <=> OnlyLoads(s.queue, 0)
  <1>1. s.queue \in Seq(Requests) /\ Len(s.queue) \in Nat
    BY NowTyped
  <1>2. ToSet(s.queue) = {s.queue[i] : i \in 1..Len(s.queue)}
    BY <1>1 DEF ToSet
  <1>3. (0 + 1)..Len(s.queue) = 1..Len(s.queue)
    BY <1>1
  <1> QED
    BY <1>2, <1>3 DEF Outstanding, OnlyLoads

\* The page's wishes are noted.
Wished(s, m, w, o) == [s EXCEPT !.wantConfig = m, !.wantSlot = w, !.overtaken = o]

LEMMA WishIs ==
    ASSUME NEW s, Counted(s), Provided(s), NEW m \in Configs, NEW w \in [Configs -> Slots],
           NEW o \in BOOLEAN
    PROVE  LET t == Wished(s, m, w, o)
           IN  /\ Counted(t) /\ Provided(t) /\ t.wantConfig = m /\ t.wantSlot = w
               /\ (t.overtaken <=> o)
               /\ \A x \in {"config", "slot", "here", "failed", "locked", "waiting", "queue",
                            "phase", "pass", "made", "misplaced"} : t[x] = s[x]
  <1> DEFINE t == [s EXCEPT !.wantConfig = m, !.wantSlot = w, !.overtaken = o]
  <1>0. s \in Webs /\ s.waiting = Cardinality(s.locked)
    BY DEF Counted
  <1>1. t \in Webs
    BY <1>0 DEF Webs
  <1>2. /\ t.wantConfig = m /\ t.wantSlot = w /\ t.overtaken = o
        /\ \A x \in {"config", "slot", "here", "failed", "locked", "waiting", "queue",
                     "phase", "pass", "made", "misplaced"} : t[x] = s[x]
    BY <1>0 DEF Webs
  <1> HIDE DEF t
  <1>3. Counted(t) /\ Provided(t)
    BY <1>0, <1>1, <1>2 DEF Counted, Provided, Needed, AtHand
  <1> QED
    BY <1>2, <1>3 DEF t, Wished

\* Requests may be made.
Open(s) == WebKept(s) /\ s.phase # "start" /\ ~s.pass

LEMMA OpenIs ==
    ASSUME NEW s, Counted(s), Provided(s), s.phase # "start", ~s.pass,
           ~s.overtaken => ~s.misplaced /\ Served(s.queue, Now(s), Want(s))
    PROVE  Open(s)
  BY DEF Open, WebKept

LEMMA MachineAsked ==
    ASSUME NEW s, Open(s), NEW m \in Configs
    PROVE  Open(AskMachine(s, m)) /\ AskMachine(s, m).made = s.made
  <1> DEFINE t == SetMachine(s, m)
             o == s.overtaken \/ (Outstanding(s) /\ s.waiting = 0)
             u == Wished(t, m, s.wantSlot, o)
             r == [kind |-> "machine", to |-> m]
  <1>0. /\ Counted(s) /\ Provided(s) /\ s.wantSlot \in [Configs -> Slots]
        /\ s.wantConfig \in Configs
        /\ s.overtaken \in BOOLEAN /\ s.phase # "start" /\ ~s.pass
        /\ ~s.overtaken => ~s.misplaced /\ Served(s.queue, Now(s), Want(s))
    BY DEF Open, WebKept, Counted, Webs
  <1>1. MachineAnswer(s, t, m)
    BY <1>0, MachineAnswered
  <1>2. o \in BOOLEAN
    BY <1>0 DEF Outstanding
  <1> HIDE DEF t
  <1>3. AskMachine(s, m) = u
    <2>1. t \in Webs /\ t.wantSlot = s.wantSlot /\ t.overtaken = s.overtaken
      BY <1>1 DEF MachineAnswer, Counted, Aside
    <2>2. AskMachine(s, m) = [t EXCEPT !.wantConfig = m,
                                       !.overtaken = t.overtaken \/ (Outstanding(s) /\ s.waiting = 0)]
      BY DEF AskMachine, t
    <2> QED
      BY <2>1, <2>2 DEF Webs, Wished
  <1> HIDE DEF o
  <1>4. /\ Counted(u) /\ Provided(u) /\ u.wantConfig = m /\ u.wantSlot = s.wantSlot
        /\ (u.overtaken <=> o)
        /\ \A x \in {"config", "slot", "here", "failed", "locked", "waiting", "queue",
                     "phase", "pass", "made", "misplaced"} : u[x] = t[x]
    <2>1. Counted(t) /\ Provided(t)
      BY <1>1 DEF MachineAnswer
    <2>2. s.wantSlot \in [Configs -> Slots]
      BY <1>0
    <2> QED
      BY <1>2, <2>1, <2>2, WishIs
  <1> HIDE DEF u
  <1>5. t.made = s.made /\ t.phase = s.phase /\ t.pass = s.pass /\ t.misplaced = s.misplaced
        /\ t.slot = s.slot
    BY <1>1 DEF MachineAnswer, Aside
  <1>6. ASSUME ~o PROVE Served(u.queue, Now(u), Want(u))
    <2>1. Served(s.queue, Now(s), Want(s)) /\ ~(Outstanding(s) /\ s.waiting = 0)
      BY <1>0, <1>6 DEF o
    <2>2. Want(u) = [Want(s) EXCEPT !.config = m]
      BY <1>4 DEF Want
    <2>3. CASE s.waiting = 0 /\ t.config = m /\ t.queue = s.queue
      <3>1. OnlyLoads(s.queue, 0)
        BY <1>0, <2>1, <2>3, NoneOutstanding
      <3>2. Want(s) = Now(s)
        BY <1>0, <2>1, <3>1, ServedLoads, NowTyped
      <3>3. Now(u) = [Now(s) EXCEPT !.config = m]
        BY <1>4, <1>5, <2>3 DEF Now
      <3>4. Now(u) = Want(u)
        BY <2>2, <3>2, <3>3
      <3> QED
        BY <1>4, <2>3, <3>1, <3>4, ServedLoads, NowTyped
    <2>4. CASE t.config = s.config /\ t.queue = Append(s.queue, r)
      <3>1. r \in Requests
        BY DEF Requests
      <3>2. Meant(Want(s), r) /\ Effect(Want(s), r) = Want(u) /\ Now(u) = Now(s)
        BY <1>4, <1>5, <2>2, <2>4 DEF Meant, Effect, Now
      <3> HIDE DEF r
      <3>3. Served(Append(s.queue, r), Now(s), Effect(Want(s), r))
        BY <1>0, <2>1, <3>1, <3>2, ServedAppend, NowTyped
      <3> QED
        BY <1>4, <2>4, <3>2, <3>3
    <2> QED
      BY <1>1, <2>3, <2>4 DEF MachineAnswer
  <1>7. ~o => ~s.misplaced
    BY <1>0 DEF o
  <1> QED
    BY <1>0, <1>3, <1>4, <1>5, <1>6, <1>7, OpenIs

LEMMA CartridgeAsked ==
    ASSUME NEW s, Open(s), NEW c \in Slots
    PROVE  Open(AskCartridge(s, c)) /\ AskCartridge(s, c).made = s.made
  <1> DEFINE t == SetCartridge(s, c)
             o == s.overtaken \/ (Outstanding(s)
                                  /\ (s.waiting = 0 \/ c = NoCart \/ s.config \notin Carted))
             k == s.wantConfig
             w == IF k \in Carted THEN [s.wantSlot EXCEPT ![k] = c] ELSE s.wantSlot
             u == Wished(t, k, w, o)
             r == [kind |-> "cart", to |-> c]
  <1>0. /\ Counted(s) /\ Provided(s) /\ s.wantSlot \in [Configs -> Slots]
        /\ s.wantConfig \in Configs
        /\ s.overtaken \in BOOLEAN /\ s.phase # "start" /\ ~s.pass
        /\ ~s.overtaken => ~s.misplaced /\ Served(s.queue, Now(s), Want(s))
    BY DEF Open, WebKept, Counted, Webs
  <1>1. CartridgeAnswer(s, t, c)
    BY <1>0, CartridgeAnswered
  <1>2. o \in BOOLEAN
    BY <1>0 DEF Outstanding
  <1>20. w \in [Configs -> Slots] /\ k \in Configs
    BY <1>0
  <1> HIDE DEF t
  <1>3. AskCartridge(s, c) = u
    <2>1. t \in Webs /\ t.wantSlot = s.wantSlot /\ t.overtaken = s.overtaken
          /\ t.wantConfig = s.wantConfig
      BY <1>1 DEF CartridgeAnswer, Counted, Aside
    <2>2. AskCartridge(s, c) =
             [t EXCEPT
                !.wantSlot = IF s.wantConfig \in Carted THEN [t.wantSlot EXCEPT ![s.wantConfig] = c]
                             ELSE t.wantSlot,
                !.overtaken = t.overtaken \/ (Outstanding(s)
                                 /\ (s.waiting = 0 \/ c = NoCart \/ s.config \notin Carted))]
      BY DEF AskCartridge, t
    <2>3. AskCartridge(s, c) = [t EXCEPT !.wantSlot = w, !.overtaken = o]
      BY <2>1, <2>2
    <2> HIDE DEF w, o
    <2> QED
      BY <2>1, <2>3 DEF Webs, Wished
  <1> HIDE DEF o, w, k
  <1>4. /\ Counted(u) /\ Provided(u) /\ u.wantConfig = k /\ u.wantSlot = w
        /\ (u.overtaken <=> o)
        /\ \A x \in {"config", "slot", "here", "failed", "locked", "waiting", "queue",
                     "phase", "pass", "made", "misplaced"} : u[x] = t[x]
    <2>1. Counted(t) /\ Provided(t)
      BY <1>1 DEF CartridgeAnswer
    <2> QED
      BY <1>2, <1>20, <2>1, WishIs
  <1> HIDE DEF u
  <1>5. t.made = s.made /\ t.phase = s.phase /\ t.pass = s.pass /\ t.misplaced = s.misplaced
        /\ t.config = s.config
    BY <1>1 DEF CartridgeAnswer, Aside
  <1>6. ASSUME ~o PROVE Served(u.queue, Now(u), Want(u))
    <2>1. /\ Served(s.queue, Now(s), Want(s))
          /\ ~(Outstanding(s) /\ (s.waiting = 0 \/ c = NoCart \/ s.config \notin Carted))
      BY <1>0, <1>6 DEF o
    <2>2. Want(u) = IF k \in Carted THEN [Want(s) EXCEPT !.slot[k] = c] ELSE Want(s)
      BY <1>4 DEF Want, w, k
    <2>3. CASE t.queue = s.queue /\ (s.waiting = 0 \/ c = NoCart \/ s.config \notin Carted)
               /\ t.slot = IF s.config \in Carted THEN [s.slot EXCEPT ![s.config] = c] ELSE s.slot
      <3>1. OnlyLoads(s.queue, 0)
        BY <1>0, <2>1, <2>3, NoneOutstanding
      <3>2. Want(s) = Now(s)
        BY <1>0, <2>1, <3>1, ServedLoads, NowTyped
      <3>3. s.config = k /\ s.wantSlot = s.slot
        <4>1. Want(s).config = Now(s).config /\ Want(s).slot = Now(s).slot
          BY <3>2
        <4> QED
          BY <4>1 DEF Want, Now, k
      <3>4. Now(u) = Want(u)
        BY <1>4, <1>5, <2>3, <3>3 DEF Now, Want, w
      <3> QED
        BY <1>4, <2>3, <3>1, <3>4, ServedLoads, NowTyped
    <2>4. CASE t.queue = Append(s.queue, r) /\ c \in Carts /\ t.slot = s.slot
      <3>1. r \in Requests
        BY <2>4 DEF Requests
      <3>2. Meant(Want(s), r) /\ Now(u) = Now(s)
        BY <1>4, <1>5, <2>4 DEF Meant, Now
      <3>3. Effect(Want(s), r) = Want(u)
        BY <2>2 DEF Effect, Want, k
      <3> HIDE DEF r
      <3>4. Served(Append(s.queue, r), Now(s), Effect(Want(s), r))
        BY <1>0, <2>1, <3>1, <3>2, ServedAppend, NowTyped
      <3> QED
        BY <1>4, <2>4, <3>2, <3>3, <3>4
    <2> QED
      BY <1>1, <2>3, <2>4 DEF CartridgeAnswer
  <1>7. ~o => ~s.misplaced
    BY <1>0 DEF o
  <1> QED
    BY <1>0, <1>3, <1>4, <1>5, <1>6, <1>7, OpenIs

LEMMA FileAsked ==
    ASSUME NEW s, Open(s), NEW f \in Downloads
    PROVE  Open(LoadFile(s, f)) /\ LoadFile(s, f).made = s.made
  <1> DEFINE t == Wget(s, {f})
             r == [kind |-> "load", to |-> f]
             u == Queued(t, r)
  <1>0. /\ Counted(s) /\ Provided(s) /\ s.phase # "start" /\ ~s.pass
        /\ ~s.overtaken => ~s.misplaced /\ Served(s.queue, Now(s), Want(s))
    BY DEF Open, WebKept
  <1>1. /\ Counted(t) /\ Provided(t) /\ {f} \subseteq AtHand(t)
        /\ \A x \in {"config", "slot", "here", "failed", "queue", "phase", "pass", "made",
                     "wantConfig", "wantSlot", "overtaken", "misplaced"} : t[x] = s[x]
    BY <1>0, WgetIs, FetchedMore
  <1> HIDE DEF t
  <1>2. r \in Requests /\ Needed(t, r)
    BY <1>1 DEF Requests, Needed
  <1>20. r.kind = "load"
    OBVIOUS
  <1> HIDE DEF r
  <1>3. /\ Counted(u) /\ Provided(u) /\ u.queue = Append(t.queue, r)
        /\ \A x \in {"config", "slot", "here", "failed", "locked", "waiting", "phase",
                     "pass", "made", "wantConfig", "wantSlot", "overtaken", "misplaced"} :
              u[x] = t[x]
    BY <1>1, <1>2, QueuedIs
  <1> HIDE DEF u
  <1>4. Now(u) = Now(s) /\ Want(u) = Want(s) /\ u.queue = Append(s.queue, r)
    BY <1>1, <1>3 DEF Now, Want
  <1>5. Meant(Want(s), r) /\ Effect(Want(s), r) = Want(s)
    BY <1>20 DEF Meant, Effect
  <1>6. ~u.overtaken => ~u.misplaced /\ Served(u.queue, Now(u), Want(u))
    <2> SUFFICES ASSUME ~u.overtaken PROVE ~u.misplaced /\ Served(u.queue, Now(u), Want(u))
      OBVIOUS
    <2>1. ~s.misplaced /\ Served(s.queue, Now(s), Want(s))
      BY <1>0, <1>1, <1>3
    <2>2. Served(Append(s.queue, r), Now(s), Effect(Want(s), r))
      BY <1>0, <1>2, <1>5, <2>1, ServedAppend, NowTyped
    <2> QED
      BY <1>1, <1>3, <1>4, <1>5, <2>1, <2>2
  <1>7. Open(u)
    BY <1>0, <1>1, <1>3, <1>6, OpenIs
  <1> QED
    BY <1>1, <1>3, <1>7 DEF LoadFile, u, t, r

LEMMA BasicAsked ==
    ASSUME NEW s, Open(s)
    PROVE  Open(QueueBasic(s)) /\ QueueBasic(s).made = s.made
  <1> DEFINE k == s.wantConfig
             r == [kind |-> "basic", on |-> k, with |-> s.wantSlot[k]]
             u == Queued(s, r)
  <1>0. /\ Counted(s) /\ Provided(s) /\ s.phase # "start" /\ ~s.pass
        /\ k \in Configs /\ s.wantSlot \in [Configs -> Slots]
        /\ ~s.overtaken => ~s.misplaced /\ Served(s.queue, Now(s), Want(s))
    BY DEF Open, WebKept, Counted, Webs
  <1>2. r \in Requests /\ Needed(s, r)
    BY <1>0 DEF Requests, Needed
  <1>5. Meant(Want(s), r) /\ Effect(Want(s), r) = Want(s)
    BY DEF Meant, Effect, Want
  <1> HIDE DEF r
  <1>3. /\ Counted(u) /\ Provided(u) /\ u.queue = Append(s.queue, r)
        /\ \A x \in {"config", "slot", "here", "failed", "locked", "waiting", "phase",
                     "pass", "made", "wantConfig", "wantSlot", "overtaken", "misplaced"} :
              u[x] = s[x]
    BY <1>0, <1>2, QueuedIs
  <1> HIDE DEF u, k
  <1>4. Now(u) = Now(s) /\ Want(u) = Want(s)
    BY <1>3 DEF Now, Want
  <1>6. ~u.overtaken => ~u.misplaced /\ Served(u.queue, Now(u), Want(u))
    <2> SUFFICES ASSUME ~u.overtaken PROVE ~u.misplaced /\ Served(u.queue, Now(u), Want(u))
      OBVIOUS
    <2>1. ~s.misplaced /\ Served(s.queue, Now(s), Want(s))
      BY <1>0, <1>3
    <2>2. Served(Append(s.queue, r), Now(s), Effect(Want(s), r))
      BY <1>0, <1>2, <1>5, <2>1, ServedAppend, NowTyped
    <2> QED
      BY <1>3, <1>4, <1>5, <2>1, <2>2
  <1>7. Open(u)
    BY <1>0, <1>3, <1>6, OpenIs
  <1> QED
    BY <1>3, <1>7 DEF QueueBasic, u, r, k

\* One more has been asked for.
LEMMA OneAsked ==
    ASSUME NEW s, Open(s), s.made < LastRequest
    PROVE  WebKept([s EXCEPT !.made = @ + 1])
  <1> DEFINE t == [s EXCEPT !.made = @ + 1]
  <1>0. s \in Webs /\ Counted(s) /\ Provided(s) /\ s.made \in 0..LastRequest
    BY DEF Open, WebKept, Counted, Webs
  <1>1. s.made + 1 \in 0..LastRequest
    BY <1>0, FetchAssumption DEF Open
  <1>2. t \in Webs
    BY <1>0, <1>1 DEF Webs
  <1>3. \A x \in {"config", "slot", "here", "failed", "locked", "waiting", "queue", "phase",
                  "pass", "wantConfig", "wantSlot", "overtaken", "misplaced"} : t[x] = s[x]
    BY <1>0 DEF Webs
  <1> HIDE DEF t
  <1>4. Counted(t) /\ Provided(t)
    BY <1>0, <1>2, <1>3 DEF Counted, Provided, Needed, AtHand
  <1>5. Now(t) = Now(s) /\ Want(t) = Want(s)
    BY <1>3 DEF Now, Want
  <1>6. WebKept(t)
    BY <1>3, <1>4, <1>5 DEF Open, WebKept
  <1> QED
    BY <1>6 DEF t

\* A file has come, or will not.
LEMMA FileArrived ==
    ASSUME NEW s, WebKept(s), ~s.pass, NEW f \in s.locked, NEW here, NEW failed,
           {here, failed} \subseteq SUBSET Downloads,
           here \union failed = s.here \union s.failed \union {f}
    PROVE  WebKept([s EXCEPT !.locked = @ \ {f}, !.waiting = @ - 1, !.here = here,
                             !.failed = failed])
  <1> DEFINE l == s.locked \ {f}
             w == s.waiting - 1
             t == [s EXCEPT !.locked = l, !.waiting = w, !.here = here, !.failed = failed]
  <1>0. s \in Webs /\ Counted(s) /\ Provided(s) /\ s.waiting = Cardinality(s.locked)
        /\ s.waiting \in 0..Cardinality(Downloads)
    BY DEF WebKept, Counted, Webs
  <1>1. IsFiniteSet(s.locked) /\ l \in SUBSET Downloads
    BY <1>0, FetchAssumption, FS_Subset DEF Webs
  <1>2. w = Cardinality(l) /\ w \in 0..Cardinality(Downloads) /\ s.waiting # 0
    <2>1. Cardinality(l) = s.waiting - 1 /\ IsFiniteSet(l)
      BY <1>0, <1>1, FS_RemoveElement
    <2>2. Cardinality(l) \in Nat /\ Cardinality(Downloads) \in Nat
      BY <2>1, FS_CardinalityType, FetchAssumption
    <2> HIDE DEF l
    <2> QED
      BY <1>0, <2>1, <2>2
  <1>3. here \in SUBSET Downloads /\ failed \in SUBSET Downloads
    OBVIOUS
  <1>4. here \union failed \union l = s.here \union s.failed \union s.locked
    OBVIOUS
  <1> HIDE DEF l, w
  <1>5. t \in Webs
    BY <1>0, <1>1, <1>2, <1>3 DEF Webs
  <1>6. /\ t.locked = l /\ t.waiting = w /\ t.here = here /\ t.failed = failed
        /\ \A x \in {"config", "slot", "queue", "phase", "pass", "made", "wantConfig",
                     "wantSlot", "overtaken", "misplaced"} : t[x] = s[x]
    BY <1>0 DEF Webs
  <1> HIDE DEF t
  <1>7. AtHand(t) = AtHand(s)
    BY <1>4, <1>6 DEF AtHand
  <1>8. Counted(t) /\ Provided(t)
    BY <1>0, <1>2, <1>5, <1>6, <1>7 DEF Counted, Provided, Needed
  <1>9. Now(t) = Now(s) /\ Want(t) = Want(s)
    BY <1>6 DEF Now, Want
  <1>10. s.phase # "start"
    BY <1>2 DEF WebKept
  <1>11. WebKept(t)
    BY <1>6, <1>8, <1>9, <1>10 DEF WebKept
  <1> QED
    BY <1>11 DEF t, l, w

\* The program is started: it asks for the first machine.
LEMMA StartKept ==
    ASSUME NEW s, WebKept(s), s.phase = "start", NEW media \in SUBSET Downloads
    PROVE  WebKept([Wget(SetMachine(s, FirstConfig), media) EXCEPT !.phase = "finishing"])
  <1> DEFINE t == SetMachine(s, FirstConfig)
             u == Wget(t, media)
             v == [u EXCEPT !.phase = "finishing"]
             r == [kind |-> "machine", to |-> FirstConfig]
  <1>0. /\ Counted(s) /\ Provided(s) /\ s.config = NoConfig /\ s.queue = <<>> /\ ~s.pass
        /\ s.wantConfig = FirstConfig /\ s.wantSlot = s.slot /\ s.waiting = 0
        /\ ~s.overtaken => ~s.misplaced
    BY DEF WebKept
  <1>1. MachineAnswer(s, t, FirstConfig)
    BY <1>0, MachineAnswered, FetchAssumption
  <1> HIDE DEF t
  <1>2. Counted(t) /\ Provided(t) /\ t.slot = s.slot /\ \A x \in Aside : t[x] = s[x]
    BY <1>1 DEF MachineAnswer
  <1>3. /\ Counted(u) /\ Provided(u)
        /\ \A x \in {"config", "slot", "here", "failed", "queue", "phase", "pass", "made",
                     "wantConfig", "wantSlot", "overtaken", "misplaced"} : u[x] = t[x]
    BY <1>2, WgetIs, FetchedMore
  <1> HIDE DEF u
  <1>4. v \in Webs
    BY <1>3 DEF Counted, Webs
  <1>5. /\ v.phase = "finishing"
        /\ \A x \in {"config", "slot", "here", "failed", "locked", "waiting", "queue", "pass",
                     "made", "wantConfig", "wantSlot", "overtaken", "misplaced"} : v[x] = u[x]
    BY <1>3 DEF Counted, Webs
  <1> HIDE DEF v
  <1>6. Counted(v) /\ Provided(v)
    BY <1>3, <1>4, <1>5 DEF Counted, Provided, Needed, AtHand
  <1>7. Served(t.queue, Now(v), Want(v))
    <2>0. /\ v.slot = s.slot /\ v.config = t.config /\ v.wantConfig = FirstConfig
          /\ v.wantSlot = s.slot /\ v.queue = t.queue
      BY <1>0, <1>2, <1>3, <1>5 DEF Aside
    <2>1. OnlyLoads(s.queue, 0) /\ s.queue \in Seq(Requests)
      BY <1>0, NowTyped DEF OnlyLoads
    <2>2. CASE t.config = FirstConfig /\ t.queue = s.queue
      <3>1. Now(v) = Want(v)
        BY <2>0, <2>2 DEF Now, Want
      <3> QED
        BY <1>6, <2>1, <2>2, <3>1, ServedLoads, NowTyped
    <2>3. CASE t.config = s.config /\ t.queue = Append(s.queue, r)
      <3>1. r \in Requests
        BY FetchAssumption DEF Requests
      <3>2. Now(v) = Now(s) /\ Meant(Now(s), r) /\ Effect(Now(s), r) = Want(v)
        BY <2>0, <2>3 DEF Now, Want, Meant, Effect
      <3> HIDE DEF r
      <3>3. Served(s.queue, Now(s), Now(s))
        BY <1>0, <2>1, ServedLoads, NowTyped
      <3>4. Served(Append(s.queue, r), Now(s), Effect(Now(s), r))
        BY <2>1, <3>1, <3>2, <3>3, ServedAppend
      <3> QED
        BY <2>3, <3>2, <3>4
    <2> QED
      BY <1>1, <2>2, <2>3 DEF MachineAnswer
  <1>8. ~v.pass /\ (~v.overtaken => ~v.misplaced) /\ v.queue = t.queue
    BY <1>0, <1>2, <1>3, <1>5 DEF Aside
  <1>9. WebKept(v)
    BY <1>5, <1>6, <1>7, <1>8 DEF WebKept
  <1> QED
    BY <1>9 DEF v, u, t

\* The first request is taken from the queue, to be answered.
Taken(s) == [s EXCEPT !.queue = Tail(@)]

LEMMA TakenIs ==
    ASSUME NEW s, WebKept(s), s.pass, s.queue # <<>>
    PROVE  LET t == Taken(s)
               r == Head(s.queue)
           IN  /\ Counted(t) /\ Provided(t) /\ r \in Requests /\ Needed(t, r)
               /\ \A x \in {"config", "slot", "here", "failed", "locked", "waiting", "phase",
                            "pass", "made", "wantConfig", "wantSlot", "overtaken", "misplaced"} :
                     t[x] = s[x]
               /\ t.phase # "start" /\ t.waiting = 0
               /\ ~t.overtaken => /\ ~t.misplaced /\ Meant(Now(t), r)
                                  /\ Served(t.queue, Effect(Now(t), r), Want(t))
  <1> DEFINE q == Tail(s.queue)
             t == [s EXCEPT !.queue = q]
             r == Head(s.queue)
  <1>0. /\ s \in Webs /\ Counted(s) /\ Provided(s) /\ s.queue \in Seq(Requests)
        /\ s.phase # "start" /\ s.waiting = 0
        /\ ~s.overtaken => ~s.misplaced /\ Served(s.queue, Now(s), Want(s))
    BY DEF WebKept, Counted, Webs
  <1>1. /\ q \in Seq(Requests) /\ Len(q) \in Nat /\ Len(s.queue) = Len(q) + 1
        /\ r \in Requests /\ r = s.queue[1] /\ \A i \in 1..Len(q) : q[i] = s.queue[i + 1]
    BY <1>0, HeadTailProperties
  <1>2. ~s.overtaken => Served(q, Effect(Now(s), r), Want(s)) /\ Meant(Now(s), r)
    BY <1>0, ServedHead
  <1> HIDE DEF q, r
  <1>3. t \in Webs
    BY <1>0, <1>1 DEF Webs
  <1>4. /\ t.queue = q
        /\ \A x \in {"config", "slot", "here", "failed", "locked", "waiting", "phase",
                     "pass", "made", "wantConfig", "wantSlot", "overtaken", "misplaced"} :
              t[x] = s[x]
    BY <1>0 DEF Webs
  <1>5. Taken(s) = t
    BY DEF Taken, q
  <1> HIDE DEF t
  <1>6. \A p : Needed(s, p) => Needed(t, p)
    BY <1>4 DEF Needed, AtHand
  <1>7. Needed(t, r)
    <2>1. 1 \in 1..Len(s.queue)
      BY <1>1
    <2> QED
      BY <1>0, <1>1, <1>6, <2>1 DEF Provided
  <1>8. Provided(t)
    <2> SUFFICES ASSUME NEW i \in 1..Len(q) PROVE Needed(t, q[i])
      BY <1>4 DEF Provided
    <2>1. i + 1 \in 1..Len(s.queue) /\ q[i] = s.queue[i + 1]
      BY <1>1
    <2> QED
      BY <1>0, <1>6, <2>1 DEF Provided
  <1>9. Counted(t)
    BY <1>0, <1>3, <1>4 DEF Counted
  <1>10. Now(t) = Now(s) /\ Want(t) = Want(s)
    BY <1>4 DEF Now, Want
  <1> QED
    BY <1>0, <1>1, <1>2, <1>4, <1>5, <1>7, <1>8, <1>9, <1>10 DEF r

LEMMA MachineDone ==
    ASSUME NEW s, WebKept(s), s.pass, s.queue # <<>>, Head(s.queue).kind = "machine"
    PROVE  WebKept(SetMachine(Taken(s), Head(s.queue).to))
  <1> DEFINE t == Taken(s)
             r == Head(s.queue)
             m == r.to
             u == SetMachine(t, m)
  <1>1. /\ Counted(t) /\ Provided(t) /\ r \in Requests /\ Needed(t, r)
        /\ \A x \in {"config", "slot", "here", "failed", "locked", "waiting", "phase",
                     "pass", "made", "wantConfig", "wantSlot", "overtaken", "misplaced"} :
              t[x] = s[x]
        /\ t.phase # "start" /\ t.waiting = 0
        /\ ~t.overtaken => /\ ~t.misplaced /\ Meant(Now(t), r)
                           /\ Served(t.queue, Effect(Now(t), r), Want(t))
    BY TakenIs
  <1> HIDE DEF t, r
  <1>2. m \in Configs /\ r.kind = "machine"
    BY <1>1 DEF Requests, r
  <1>3. MachineAnswer(t, u, m)
    BY <1>1, <1>2, MachineAnswered
  <1>4. RomsOf[m] \union RomsIn(t.slot[m]) \subseteq AtHand(t)
    BY <1>1, <1>2 DEF Needed
  <1> HIDE DEF u
  <1>5. /\ u.config = m /\ u.queue = t.queue /\ u.waiting = 0 /\ u.slot = t.slot
        /\ Counted(u) /\ Provided(u) /\ \A x \in Aside : u[x] = t[x]
    BY <1>1, <1>3, <1>4 DEF MachineAnswer
  <1>6. Now(u) = Effect(Now(t), r) /\ Want(u) = Want(t)
    BY <1>2, <1>5 DEF Now, Want, Effect, Aside
  <1>7. WebKept(u)
    BY <1>1, <1>5, <1>6 DEF WebKept, Aside
  <1> QED
    BY <1>7 DEF u, t, r

LEMMA CartridgeDone ==
    ASSUME NEW s, WebKept(s), s.pass, s.queue # <<>>, Head(s.queue).kind = "cart"
    PROVE  WebKept(SetCartridge(Taken(s), Head(s.queue).to))
  <1> DEFINE t == Taken(s)
             r == Head(s.queue)
             c == r.to
             u == SetCartridge(t, c)
  <1>1. /\ Counted(t) /\ Provided(t) /\ r \in Requests /\ Needed(t, r)
        /\ \A x \in {"config", "slot", "here", "failed", "locked", "waiting", "phase",
                     "pass", "made", "wantConfig", "wantSlot", "overtaken", "misplaced"} :
              t[x] = s[x]
        /\ t.phase # "start" /\ t.waiting = 0
        /\ ~t.overtaken => /\ ~t.misplaced /\ Meant(Now(t), r)
                           /\ Served(t.queue, Effect(Now(t), r), Want(t))
    BY TakenIs
  <1> HIDE DEF t, r
  <1>2. c \in Carts /\ c \in Slots /\ RomsIn(c) = RomsOf[c] /\ r.kind = "cart"
    BY <1>1, FetchAssumption DEF Requests, Slots, RomsIn, r
  <1>3. CartridgeAnswer(t, u, c)
    BY <1>1, <1>2, CartridgeAnswered
  <1>4. RomsIn(c) \subseteq AtHand(t)
    BY <1>1, <1>2 DEF Needed
  <1> HIDE DEF u
  <1>5. /\ u.queue = t.queue /\ u.waiting = 0 /\ u.config = t.config
        /\ u.slot = IF t.config \in Carted THEN [t.slot EXCEPT ![t.config] = c] ELSE t.slot
        /\ Counted(u) /\ Provided(u) /\ \A x \in Aside : u[x] = t[x]
    BY <1>1, <1>3, <1>4 DEF CartridgeAnswer
  <1>6. Now(u) = Effect(Now(t), r) /\ Want(u) = Want(t)
    BY <1>2, <1>5 DEF Now, Want, Effect, Aside
  <1>7. WebKept(u)
    BY <1>1, <1>5, <1>6 DEF WebKept, Aside
  <1> QED
    BY <1>7 DEF u, t, r

\* A file's turn, or what is typed: the machine is as it was.
LEMMA OtherDone ==
    ASSUME NEW s, WebKept(s), s.pass, s.queue # <<>>,
           Head(s.queue).kind \in {"load", "basic"}, NEW o \in BOOLEAN,
           o => s.misplaced \/ ~Meant(Now(Taken(s)), Head(s.queue))
    PROVE  WebKept([Taken(s) EXCEPT !.misplaced = o])
  <1> DEFINE t == Taken(s)
             r == Head(s.queue)
             u == [t EXCEPT !.misplaced = o]
  <1>1. /\ Counted(t) /\ Provided(t) /\ r \in Requests
        /\ \A x \in {"config", "slot", "here", "failed", "locked", "waiting", "phase",
                     "pass", "made", "wantConfig", "wantSlot", "overtaken", "misplaced"} :
              t[x] = s[x]
        /\ t.phase # "start" /\ t.waiting = 0
        /\ ~t.overtaken => /\ ~t.misplaced /\ Meant(Now(t), r)
                           /\ Served(t.queue, Effect(Now(t), r), Want(t))
    BY TakenIs
  <1>2. r.kind # "machine" /\ r.kind # "cart"
    OBVIOUS
  <1>3. o => s.misplaced \/ ~Meant(Now(t), r)
    OBVIOUS
  <1> HIDE DEF t, r
  <1>4. Effect(Now(t), r) = Now(t)
    BY <1>2 DEF Effect
  <1>5. t \in Webs
    BY <1>1 DEF Counted
  <1>6. u \in Webs
    BY <1>5 DEF Webs
  <1>7. /\ u.misplaced = o
        /\ \A x \in {"config", "slot", "here", "failed", "locked", "waiting", "queue", "phase",
                     "pass", "made", "wantConfig", "wantSlot", "overtaken"} : u[x] = t[x]
    BY <1>5 DEF Webs
  <1> HIDE DEF u
  <1>8. Counted(u) /\ Provided(u)
    <2>1. Counted(t) /\ Provided(t)
      BY <1>1
    <2>2. Counted(u)
      BY <1>6, <1>7, <2>1 DEF Counted
    <2>3. \A p : Needed(t, p) => Needed(u, p)
      BY <1>7 DEF Needed, AtHand
    <2>4. Provided(u)
      BY <1>7, <2>1, <2>3 DEF Provided
    <2> QED
      BY <2>2, <2>4
  <1>9. Now(u) = Now(t) /\ Want(u) = Want(t)
    BY <1>7 DEF Now, Want
  <1>10. ~u.overtaken => ~u.misplaced
    BY <1>1, <1>3, <1>7
  <1>11. WebKept(u)
    BY <1>1, <1>4, <1>7, <1>8, <1>9, <1>10 DEF WebKept
  <1> QED
    BY <1>11 DEF u, t

LEMMA DispatchKept ==
    WebKept(web) /\ Dispatch => WebKept(web')
  <1> SUFFICES ASSUME WebKept(web), Dispatch PROVE WebKept(web')
    OBVIOUS
  <1> DEFINE r == Head(web.queue)
             s == Taken(web)
  <1>1. /\ web.pass /\ web.queue # <<>>
        /\ \/ r.kind = "machine" /\ web' = SetMachine(s, r.to)
           \/ r.kind = "cart" /\ web' = SetCartridge(s, r.to)
           \/ r.kind = "load" /\ web' = s
           \/ /\ r.kind = "basic"
              /\ web' = [s EXCEPT !.misplaced = s.misplaced \/ s.config # r.on
                                                            \/ s.slot[r.on] # r.with]
    BY DEF Dispatch, Taken
  <1>2. CASE r.kind = "machine" /\ web' = SetMachine(s, r.to)
    BY <1>1, <1>2, MachineDone
  <1>3. CASE r.kind = "cart" /\ web' = SetCartridge(s, r.to)
    BY <1>1, <1>3, CartridgeDone
  <1>4. s.misplaced = web.misplaced /\ s \in Webs
    BY <1>1, TakenIs DEF Counted
  <1>5. CASE r.kind = "load" /\ web' = s
    <2> DEFINE o == web.misplaced
    <2>1. o \in BOOLEAN /\ s = [s EXCEPT !.misplaced = o]
      BY <1>4 DEF Webs
    <2> HIDE DEF o
    <2>2. WebKept([s EXCEPT !.misplaced = o])
      BY <1>1, <1>5, <2>1, OtherDone DEF o
    <2> QED
      BY <1>5, <2>1, <2>2
  <1>6. CASE r.kind = "basic" /\ web' = [s EXCEPT !.misplaced = s.misplaced \/ s.config # r.on
                                                            \/ s.slot[r.on] # r.with]
    <2> DEFINE o == s.misplaced \/ s.config # r.on \/ s.slot[r.on] # r.with
    <2>1. o \in BOOLEAN
      BY <1>4 DEF Webs
    <2>2. o => web.misplaced \/ ~Meant(Now(s), r)
      BY <1>4, <1>6 DEF Meant, Now
    <2> HIDE DEF o
    <2>3. WebKept([s EXCEPT !.misplaced = o])
      BY <1>1, <1>6, <2>1, <2>2, OtherDone
    <2> QED
      BY <1>6, <2>3 DEF o
  <1> QED
    BY <1>1, <1>2, <1>3, <1>5, <1>6

LEMMA FetchStarts ==
    FetchInit => WebKept(web)
  <1> SUFFICES ASSUME FetchInit PROVE WebKept(web)
    OBVIOUS
  <1>1. PICK here \in SUBSET Downloads :
           web = [config |-> NoConfig, slot |-> Default, here |-> here, failed |-> {},
                  locked |-> {}, waiting |-> 0, queue |-> <<>>, phase |-> "start",
                  pass |-> FALSE, made |-> 0, wantConfig |-> FirstConfig,
                  wantSlot |-> Default, overtaken |-> FALSE, misplaced |-> FALSE]
    BY DEF FetchInit
  <1>2. Cardinality({}) = 0 /\ Cardinality(Downloads) \in Nat
    BY FS_EmptySet, FS_CardinalityType, FetchAssumption
  <1>3. Default \in [Configs -> Slots]
    BY FetchAssumption DEF Slots
  <1>4. 0 \in 0..Cardinality(Downloads) /\ 0 \in 0..LastRequest /\ <<>> \in Seq(Requests)
    BY <1>2, FetchAssumption
  <1>5. web \in Webs
    BY <1>1, <1>3, <1>4, FetchAssumption DEF Webs
  <1>6. Counted(web) /\ Provided(web)
    BY <1>1, <1>2, <1>5 DEF Counted, Provided
  <1> QED
    BY <1>1, <1>6 DEF WebKept

\* A pass over the queue begins, or ends.
LEMMA PassKept ==
    ASSUME NEW s, WebKept(s), s.phase # "start", s.waiting = 0, NEW pass \in BOOLEAN,
           NEW phase \in {"finishing", "running"}
    PROVE  WebKept([s EXCEPT !.pass = pass, !.phase = phase])
  <1> DEFINE t == [s EXCEPT !.pass = pass, !.phase = phase]
  <1>0. s \in Webs /\ Counted(s) /\ Provided(s)
    BY DEF WebKept, Counted
  <1>1. t \in Webs
    BY <1>0 DEF Webs
  <1>2. /\ t.phase = phase
        /\ \A x \in {"config", "slot", "here", "failed", "locked", "waiting", "queue", "made",
                     "wantConfig", "wantSlot", "overtaken", "misplaced"} : t[x] = s[x]
    BY <1>0 DEF Webs
  <1> HIDE DEF t
  <1>3. Counted(t) /\ Provided(t)
    BY <1>0, <1>1, <1>2 DEF Counted, Provided, Needed, AtHand
  <1>4. Now(t) = Now(s) /\ Want(t) = Want(s) /\ t.phase # "start"
    BY <1>2 DEF Now, Want
  <1>5. WebKept(t)
    BY <1>2, <1>3, <1>4 DEF WebKept
  <1> QED
    BY <1>5 DEF t

\* What the page asks for.
LEMMA AskedKept ==
    ASSUME NEW s, WebKept(web), Asked(s), Open(web) => Open(s) /\ s.made = web.made
    PROVE  WebKept(web')
  <1>1. Open(web) /\ web.made < LastRequest /\ web' = [s EXCEPT !.made = @ + 1]
    BY DEF Asked, Open
  <1> QED
    BY <1>1, OneAsked

LEMMA FetchSteps ==
    WebKept(web) /\ [FetchNext]_web => WebKept(web')
  <1> SUFFICES ASSUME WebKept(web), [FetchNext]_web PROVE WebKept(web')
    OBVIOUS
  <1>0. web \in Webs
    BY DEF WebKept, Counted
  <1>1. ASSUME NEW m \in Configs, SelectMachine(m) PROVE WebKept(web')
    BY <1>1, MachineAsked, AskedKept DEF SelectMachine
  <1>2. ASSUME NEW c \in Slots, SelectCartridge(c) PROVE WebKept(web')
    BY <1>2, CartridgeAsked, AskedKept DEF SelectCartridge
  <1>3. ASSUME NEW f \in Downloads, FileChosen(f) PROVE WebKept(web')
    BY <1>3, FileAsked, AskedKept DEF FileChosen
  <1>4. ASSUME NEW f \in Downloads, Arrives(f) PROVE WebKept(web')
    <2>0. f \in web.locked /\ ~web.pass /\ web.here \in SUBSET Downloads
          /\ web.failed \in SUBSET Downloads
      BY <1>0, <1>4 DEF Arrives, Webs
    <2>1. CASE web' = [web EXCEPT !.locked = @ \ {f}, !.waiting = @ - 1, !.here = @ \union {f}]
      <3> DEFINE here == web.here \union {f}
      <3>1. {here, web.failed} \subseteq SUBSET Downloads
            /\ here \union web.failed = web.here \union web.failed \union {f}
        BY <2>0
      <3>2. web' = [web EXCEPT !.locked = @ \ {f}, !.waiting = @ - 1, !.here = here,
                               !.failed = web.failed]
        BY <1>0, <2>1 DEF Webs
      <3> HIDE DEF here
      <3> QED
        BY <2>0, <3>1, <3>2, FileArrived
    <2>2. CASE web' = [web EXCEPT !.locked = @ \ {f}, !.waiting = @ - 1, !.failed = @ \union {f}]
      <3> DEFINE failed == web.failed \union {f}
      <3>1. {web.here, failed} \subseteq SUBSET Downloads
            /\ web.here \union failed = web.here \union web.failed \union {f}
        BY <2>0
      <3>2. web' = [web EXCEPT !.locked = @ \ {f}, !.waiting = @ - 1, !.here = web.here,
                               !.failed = failed]
        BY <1>0, <2>2 DEF Webs
      <3> HIDE DEF failed
      <3> QED
        BY <2>0, <3>1, <3>2, FileArrived
    <2> QED
      BY <1>4, <2>1, <2>2 DEF Arrives
  <1>5. ASSUME NEW f \in Downloads, NEW m \in Configs, NEW c \in Slots, StartProgram(f, m, c)
        PROVE  WebKept(web')
    <2> DEFINE s1 == LoadFile(web, f)
               s2 == AskMachine(s1, m)
               s3 == AskCartridge(s2, c)
               s4 == QueueBasic(s3)
    <2>1. Open(web) => Open(s1) /\ s1.made = web.made
      BY FileAsked
    <2>2. Open(s1) => Open(s2) /\ s2.made = s1.made
      <3> HIDE DEF s1
      <3> QED
        BY MachineAsked
    <2>3. Open(s2) => Open(s3) /\ s3.made = s2.made
      <3> HIDE DEF s2
      <3> QED
        BY CartridgeAsked
    <2>4. Open(s3) => Open(s4) /\ s4.made = s3.made
      <3> HIDE DEF s3
      <3> QED
        BY BasicAsked
    <2>5. Asked(s4)
      BY <1>5 DEF StartProgram
    <2> HIDE DEF s1, s2, s3, s4
    <2>6. Open(web) => Open(s4) /\ s4.made = web.made
      BY <2>1, <2>2, <2>3, <2>4
    <2> QED
      BY <2>5, <2>6, AskedKept
  <1>6. ASSUME NEW media \in SUBSET Downloads, StartInit(media) PROVE WebKept(web')
    BY <1>6, StartKept DEF StartInit
  <1>7. CASE Frame
    <2>1. web.phase # "start" /\ web.waiting = 0
      BY <1>7 DEF Frame
    <2>2. PICK pass \in BOOLEAN, phase \in {"finishing", "running"} :
             web' = [web EXCEPT !.pass = pass, !.phase = phase]
      BY <1>0, <1>7, <2>1 DEF Frame, Webs
    <2> QED
      BY <2>1, <2>2, PassKept
  <1>8. CASE Dispatch
    BY <1>8, DispatchKept
  <1>9. CASE PassEnded
    <2>1. web.pass /\ web.waiting = 0 /\ web.phase # "start"
      BY <1>9 DEF PassEnded, WebKept
    <2>2. PICK phase \in {"finishing", "running"} :
             web' = [web EXCEPT !.pass = FALSE, !.phase = phase]
      BY <1>0, <1>9, <2>1 DEF PassEnded, Webs
    <2> QED
      BY <2>1, <2>2, PassKept
  <1>10. CASE web' = web
    BY <1>10
  <1> QED
    BY <1>1, <1>2, <1>3, <1>4, <1>5, <1>6, <1>7, <1>8, <1>9, <1>10 DEF FetchNext

LEMMA WebKeptMeans ==
    WebKept(web) => AsIfAtOnce
  <1> SUFFICES ASSUME WebKept(web) PROVE AsIfAtOnce
    OBVIOUS
  <1>1. /\ web \in Webs /\ Counted(web) /\ Provided(web) /\ web.queue \in Seq(Requests)
        /\ web.pass => web.waiting = 0
    BY DEF WebKept, Counted, Webs
  <1>2. ~web.overtaken => ~web.misplaced
    BY DEF WebKept
  <1>3. ASSUME ~web.overtaken, web.phase = "running", web.queue = <<>>
        PROVE  web.config = web.wantConfig /\ web.slot = web.wantSlot
    <2>1. Served(web.queue, Now(web), Want(web))
      BY <1>3 DEF WebKept
    <2>2. OnlyLoads(web.queue, 0)
      BY <1>3 DEF OnlyLoads
    <2>3. Want(web) = Now(web)
      BY <1>1, <2>1, <2>2, ServedLoads, NowTyped
    <2>4. Want(web).config = Now(web).config /\ Want(web).slot = Now(web).slot
      BY <2>3
    <2> QED
      BY <2>4 DEF Want, Now
  <1>4. ASSUME web.pass, NEW r \in ToSet(web.queue), r.kind = "load"
        PROVE  r.to \in web.here \union web.failed
    <2>1. web.locked = {}
      BY <1>1, <1>4, CountedNone
    <2>2. PICK i \in 1..Len(web.queue) : r = web.queue[i]
      BY <1>1, <1>4 DEF ToSet
    <2>3. Needed(web, r)
      BY <1>1, <2>2 DEF Provided
    <2> QED
      BY <1>4, <2>1, <2>3 DEF Needed, AtHand
  <1> QED
    BY <1>1, <1>2, <1>3, <1>4 DEF AsIfAtOnce, FetchOK

\* However fetches and requests fall together, what was asked for comes about as if every
\* file had been at hand (wasm_ui_prepare_machine, wasm_ui_run, finish_init), and no request
\* that is tried again has to wait again.
THEOREM AsIfFilesWereAtHand ==
    FetchSpec => []AsIfAtOnce
  <1> DEFINE Inv == WebKept(web)
  <1>1. FetchInit => Inv
    BY FetchStarts
  <1>2. Inv /\ [FetchNext]_web => Inv'
    BY FetchSteps
  <1>3. Inv => AsIfAtOnce
    BY WebKeptMeans
  <1> HIDE DEF Inv
  <1> QED
    BY <1>1, <1>2, <1>3, PTL DEF FetchSpec

-----------------------------------------------------------------------------
(* Image formats: sectors and bytes *)

LEMMA Divides ==
    ASSUME NEW p \in Nat \ {0}, NEW b \in Nat
    PROVE  /\ b \div p \in Nat /\ b % p \in Nat /\ b % p < p
           /\ b = (b \div p) * p + (b % p)
  OBVIOUS

LEMMA NoMore ==
    ASSUME NEW a \in Nat, NEW b \in Nat, NEW c \in Nat, a <= b
    PROVE  a * c <= b * c /\ c * a <= c * b /\ a * c \in Nat
  OBVIOUS

LEMMA DividesWhole ==
    ASSUME NEW p \in Nat \ {0}, NEW a \in Nat
    PROVE  (a * p) \div p = a /\ (a * p) % p = 0
  <1> DEFINE b == a * p
  <1>1. b \in Nat
    OBVIOUS
  <1>2. /\ b \div p \in Nat /\ b % p \in Nat /\ b % p < p
        /\ b = (b \div p) * p + (b % p)
    BY <1>1, Divides
  <1>3. ASSUME NEW x \in Nat, NEW y \in Nat, x < y PROVE x * p + p <= y * p
    <2>1. (x + 1) * p <= y * p
      BY <1>3, NoMore
    <2> QED
      BY <2>1
  <1>4. b \div p = a
    BY <1>2, <1>3
  <1> QED
    BY <1>2, <1>4

\* A whole number of sectors, divided by tracks and rounded up, has room for all.
LEMMA RoundedUp ==
    ASSUME NEW k \in Nat, NEW m \in Nat \ {0}, NEW z \in Nat \ {0}
    PROVE  LET q == (k * z) \div (m * z) + (IF (k * z) % (m * z) >= z THEN 1 ELSE 0)
           IN  q \in Nat /\ q * m >= k
  <1> DEFINE b == k * z
             p == m * z
             q0 == b \div p
             e == b % p
  <1>1. b \in Nat /\ p \in Nat \ {0}
    OBVIOUS
  <1>2. q0 \in Nat /\ e \in Nat /\ e < p /\ b = q0 * p + e
    BY <1>1, Divides
  <1>3. q0 * p = (q0 * m) * z
    BY <1>2
  <1> HIDE DEF q0, e
  <1>4. e = (k - q0 * m) * z
    BY <1>2, <1>3
  <1>5. q0 * m \in Nat
    BY <1>2
  <1>6. CASE e >= z
    <2>1. k < (q0 + 1) * m
      <3>1. k * z < (q0 * m) * z + m * z
        BY <1>2, <1>3
      <3>2. (q0 * m) * z + m * z = ((q0 + 1) * m) * z
        BY <1>2
      <3>3. SUFFICES ASSUME (q0 + 1) * m <= k PROVE FALSE
        BY <1>2
      <3>4. ((q0 + 1) * m) * z <= k * z
        BY <1>2, <3>3, NoMore
      <3> QED
        BY <3>1, <3>2, <3>4, <1>2
    <2> QED
      BY <1>2, <1>6, <2>1 DEF q0, e
  <1>7. CASE ~(e >= z)
    <2>1. k <= q0 * m
      <3> SUFFICES ASSUME q0 * m + 1 <= k PROVE FALSE
        BY <1>5
      <3>1. 1 * z <= (k - q0 * m) * z
        BY <1>5, NoMore
      <3> QED
        BY <1>4, <1>7, <3>1, <1>2
    <2> QED
      BY <1>2, <1>7, <2>1 DEF q0, e
  <1> QED
    BY <1>6, <1>7

\* Fewer of each are as many together only if they are as many of each.
LEMMA AsMany ==
    ASSUME NEW a \in Nat \ {0}, NEW b \in Nat \ {0}, NEW x \in Nat, NEW y \in Nat, a <= x, b <= y
    PROVE  a * b <= x * y /\ (a * b = x * y => a = x /\ b = y)
  <1>1. a * b <= x * b /\ x * b <= x * y
    BY NoMore
  <1>2. ASSUME a < x PROVE a * b < x * b
    <2>1. (a + 1) * b <= x * b
      BY <1>2, NoMore
    <2> QED
      BY <2>1
  <1>3. ASSUME b < y PROVE x * b < x * y
    <2>1. x * (b + 1) <= x * y
      BY <1>3, NoMore
    <2> QED
      BY <2>1
  <1> QED
    BY <1>1, <1>2, <1>3

LEMMA AsManyOfThree ==
    ASSUME NEW a \in Nat \ {0}, NEW b \in Nat \ {0}, NEW c \in Nat \ {0},
           NEW x \in Nat, NEW y \in Nat, NEW w \in Nat, a <= x, b <= y, c <= w
    PROVE  /\ a * (b * c) <= x * (y * w)
           /\ a * (b * c) = x * (y * w) => a = x /\ b = y /\ c = w
  <1>1. b * c \in Nat \ {0} /\ y * w \in Nat
    OBVIOUS
  <1>2. b * c <= y * w /\ (b * c = y * w => b = y /\ c = w)
    BY AsMany
  <1> DEFINE bc == b * c
             yw == y * w
  <1> HIDE DEF bc, yw
  <1>3. bc \in Nat \ {0} /\ yw \in Nat /\ bc <= yw
    BY <1>1, <1>2 DEF bc, yw
  <1>4. a * bc <= x * yw /\ (a * bc = x * yw => a = x /\ bc = yw)
    BY <1>3, AsMany
  <1> QED
    BY <1>2, <1>4 DEF bc, yw

LEMMA LeastIs ==
    ASSUME NEW S \in SUBSET Nat, S # {}
    PROVE  Min(S) \in S /\ \A y \in S : Min(S) <= y
  <1> DEFINE R == {ss \in Nat \X Nat : ss[1] < ss[2]}
  <1>1. IsWellFoundedOn(R, Nat)
    BY NatLessThanWellFounded DEF OpToRel
  <1> HIDE DEF R
  <1>2. PICK x \in S : \A y \in S : ~ (<<y, x>> \in R)
    BY <1>1, WFMin
  <1>3. \A y \in S : x <= y
    <2> SUFFICES ASSUME NEW y \in S, y < x PROVE FALSE
      OBVIOUS
    <2>1. <<y, x>> \in R
      BY DEF R
    <2> QED
      BY <1>2, <2>1
  <1> QED
    BY <1>3 DEF Min

LEMMA GreatestIs ==
    ASSUME NEW n \in Nat, NEW S \in SUBSET (0..n), S # {}
    PROVE  Max(S) \in S /\ \A y \in S : y <= Max(S)
  <1> DEFINE T == {n - x : x \in S}
  <1>1. T \in SUBSET Nat /\ T # {}
    OBVIOUS
  <1>2. Min(T) \in T /\ \A y \in T : Min(T) <= y
    BY <1>1, LeastIs
  <1>3. PICK x \in S : Min(T) = n - x
    BY <1>2
  <1>4. \A y \in S : y <= x
    <2> TAKE y \in S
    <2>1. n - y \in T
      OBVIOUS
    <2>2. n - x <= n - y
      BY <1>2, <1>3, <2>1
    <2>3. x \in 0..n /\ y \in 0..n
      OBVIOUS
    <2> QED
      BY <2>2, <2>3
  <1> QED
    BY <1>4 DEF Max

LEMMA StandardIs ==
    ASSUME NEW n \in 0..256
    PROVE  /\ StandardDiskSize(n) \in Nat /\ n <= StandardDiskSize(n)
           /\ StandardDiskSize(n) <= 256
           /\ StandardDiskSize(n) > 83 => StandardDiskSize(n) = n
  <1> DEFINE S == {s \in Standard : n <= s}
  <1>1. CASE n > 83
    BY <1>1 DEF StandardDiskSize
  <1>2. CASE n <= 83
    <2>1. S \in SUBSET Nat /\ 83 \in S
      BY <1>2 DEF Standard
    <2>2. Min(S) \in S
      BY <2>1, LeastIs
    <2>3. StandardDiskSize(n) = Min(S)
      BY <1>2 DEF StandardDiskSize
    <2> QED
      BY <2>2, <2>3 DEF Standard
  <1> QED
    BY <1>1, <1>2

LEMMA SizeIs == \A code \in 0..3 : Size(code) \in Nat \ {0} /\ (code = 1 => Size(code) = 256)
  BY DEF Size

\* The track that a file's header speaks of.
TrackOf(ns, code, first) ==
    [first |-> first, last |-> first + ns - 1, code |-> code, dden |-> ns # 10]

\* Whatever the header says, q cylinders of h sides have room for all the sectors, of z
\* bytes each, of a file of b bytes; what its sectors fill exactly is divided so, but for
\* one side that is too long.
RoomFor(b, z, nh, ns, q, h) ==
    \A k \in Nat : b = k * z =>
       /\ q * (h * ns) >= k
       /\ \A a \in Nat : k = a * (nh * ns) =>
             IF nh = 1 /\ a >= 88 THEN h = 2 /\ \A c \in Nat : a = 2 * c => q = c
             ELSE q = a /\ h = nh

Division(f, ns, nh, code, first, os9) ==
    \E q \in Nat, h \in 1..2 :
       /\ Divided(f, ns, nh, code, first, os9)
            = Formatted("jvc", q, h, TrackOf(ns, code, first), f.lsn0, os9)
       /\ RoomFor(f.bytes, Size(code), nh, ns, q, h)

LEMMA DividedIs ==
    ASSUME NEW f, f.bytes \in Nat, NEW ns \in 1..64, NEW nh \in 1..2, NEW code \in 0..3,
           NEW first, NEW os9
    PROVE  Division(f, ns, nh, code, first, os9)
  <1> DEFINE z == Size(code)
             b == f.bytes
             bpc == ns * z * nh
             twice == nh = 1 /\ b \div bpc >= 88
             per == IF twice THEN 2 * bpc ELSE bpc
             q == b \div per + (IF b % per >= z THEN 1 ELSE 0)
             h == IF twice THEN 2 ELSE nh
  <1>1. z \in Nat \ {0} /\ b \in Nat
    BY SizeIs
  <1> HIDE DEF z
  <1>2. bpc # 0 /\ ~(ns > 64)
    BY <1>1
  <1>3. Divided(f, ns, nh, code, first, os9)
          = Formatted("jvc", q, h, TrackOf(ns, code, first), f.lsn0, os9)
    BY <1>2 DEF Divided, TrackOf, z
  <1> HIDE DEF b
  <1>4. bpc = (nh * ns) * z
    BY <1>1
  <1>5. nh * ns \in Nat \ {0} /\ h \in 1..2 /\ h * ns \in Nat \ {0}
    OBVIOUS
  <1>6. per = (h * ns) * z
    <2>1. CASE twice
      <3>1. 2 * ((1 * ns) * z) = (2 * ns) * z
        BY <1>1
      <3> QED
        BY <2>1, <1>4, <3>1
    <2>2. CASE ~twice
      BY <2>2, <1>4
    <2> QED
      BY <2>1, <2>2
  <1>7. bpc \in Nat \ {0}
    <2> DEFINE m == nh * ns
    <2> HIDE DEF m
    <2>1. m \in Nat \ {0} => m * z \in Nat \ {0}
      BY <1>1
    <2> QED
      BY <1>4, <1>5, <2>1 DEF m
  <1> HIDE DEF bpc
  <1>8. per \in Nat \ {0}
    BY <1>7
  <1> HIDE DEF per, h
  <1>9. q \in Nat
    BY <1>1, <1>8, Divides
  <1>10. ASSUME NEW k \in Nat, b = k * z
         PROVE  q * (h * ns) >= k
    <2> DEFINE m == h * ns
    <2>1. m \in Nat \ {0}
      BY <1>5
    <2> HIDE DEF m
    <2>2. LET g == (k * z) \div (m * z) + (IF (k * z) % (m * z) >= z THEN 1 ELSE 0)
          IN  g \in Nat /\ g * m >= k
      BY <1>1, <2>1, RoundedUp
    <2>3. per = m * z
      BY <1>6 DEF m
    <2>4. q = (k * z) \div (m * z) + (IF (k * z) % (m * z) >= z THEN 1 ELSE 0)
      BY <1>10, <2>3
    <2> QED
      BY <2>2, <2>4 DEF m
  <1>11. ASSUME NEW k \in Nat, b = k * z, NEW a \in Nat, k = a * (nh * ns)
         PROVE  IF nh = 1 /\ a >= 88 THEN h = 2 /\ \A c \in Nat : a = 2 * c => q = c
                ELSE q = a /\ h = nh
    <2>1. b = a * bpc
      <3> DEFINE m == nh * ns
      <3> HIDE DEF m
      <3>1. m \in Nat => (a * m) * z = a * (m * z)
        BY <1>1
      <3> QED
        BY <1>4, <1>5, <1>11, <3>1 DEF m
    <2>2. b \div bpc = a /\ b % bpc = 0
      BY <1>7, <2>1, DividesWhole
    <2>3. twice <=> nh = 1 /\ a >= 88
      BY <2>2
    <2>4. CASE twice
      <3>1. per = 2 * bpc /\ h = 2
        BY <2>4 DEF per, h
      <3>2. ASSUME NEW c \in Nat, a = 2 * c PROVE q = c
        <4>1. b = c * per
          BY <1>7, <2>1, <3>1, <3>2
        <4>2. b \div per = c /\ b % per = 0
          BY <1>8, <4>1, DividesWhole
        <4> QED
          BY <4>2, <1>1
      <3> QED
        BY <2>3, <2>4, <3>1, <3>2
    <2>5. CASE ~twice
      <3>1. per = bpc /\ h = nh
        BY <2>5 DEF per, h
      <3>2. q = a
        BY <2>2, <3>1, <1>1
      <3> QED
        BY <2>3, <2>5, <3>1, <3>2
    <2> QED
      BY <2>4, <2>5
  <1> HIDE DEF q, twice
  <1>12. RoomFor(b, z, nh, ns, q, h)
    BY <1>10, <1>11 DEF RoomFor
  <1> QED
    BY <1>3, <1>5, <1>9, <1>12 DEF Division, b, z

LEMMA DividedSome ==
    ASSUME NEW f, NEW ns \in Nat, NEW nh \in 0..2, NEW code \in 0..3, NEW first, NEW os9,
           Divided(f, ns, nh, code, first, os9) # NoImage
    PROVE  ns \in 1..64 /\ nh \in 1..2
  <1>1. ns * Size(code) * nh # 0 /\ ns <= 64
    BY DEF Divided
  <1> QED
    BY <1>1, SizeIs

\* A disk of no cylinders has nothing; any other has a side and what is on it.
Whole(d) ==
    /\ d.cyls = 0 => d.heads = 0 /\ d.layouts = {}
    /\ d.cyls > 0 => d.heads > 0 /\ d.layouts # {}

FormattedAs(e, type, cyls, heads, layout, lsn0, os9) ==
    /\ e \in Shapes /\ e # NoImage /\ Whole(e)
    /\ e.type = type /\ e.cyls = cyls /\ e.lsn0 = lsn0 /\ e.headerless_os9 = os9
    /\ ~e.remade
    /\ cyls > 0 => e.heads = heads /\ e.layouts = {layout}

LEMMA FormattedIs ==
    ASSUME NEW type \in {"vdk", "jvc", "dmk"}, NEW cyls \in Nat, NEW heads \in Nat,
           cyls > 0 => heads > 0, NEW layout \in TrackLayouts,
           NEW lsn0 \in FileSystems \union {NoFs}, NEW os9 \in BOOLEAN,
           NEW e, e = Formatted(type, cyls, heads, layout, lsn0, os9),
           e # NoImage \/ (cyls <= 256 /\ heads <= 2)
    PROVE  FormattedAs(e, type, cyls, heads, layout, lsn0, os9)
  <1>1. cyls <= 256 /\ heads <= 2
    BY DEF Formatted
  <1>2. e = [type |-> type, cyls |-> cyls, heads |-> IF cyls = 0 THEN 0 ELSE heads,
             layouts |-> IF cyls = 0 \/ heads = 0 THEN {} ELSE {layout},
             lsn0 |-> lsn0, headerless_os9 |-> os9, remade |-> FALSE]
    BY <1>1 DEF Formatted
  <1>3. /\ e.type = type /\ e.cyls = cyls /\ e.lsn0 = lsn0 /\ e.headerless_os9 = os9
        /\ ~e.remade
        /\ cyls > 0 => e.heads = heads /\ e.layouts = {layout}
        /\ cyls = 0 => e.heads = 0 /\ e.layouts = {}
    BY <1>2
  <1>4. (IF cyls = 0 THEN 0 ELSE heads) \in 0..2
    BY <1>1
  <1>5. (IF cyls = 0 \/ heads = 0 THEN {} ELSE {layout}) \in SUBSET TrackLayouts
    OBVIOUS
  <1>6. e \in Shapes
    BY <1>1, <1>2, <1>4, <1>5 DEF Shapes
  <1> QED
    BY <1>3, <1>6, FormatsAssumption DEF FormattedAs, Whole

-----------------------------------------------------------------------------
(* What vdisk_get_info finds *)

\* The sectors of a disk are numbered from lo to hi.
Spans(d, lo, hi) ==
    /\ \A l \in d.layouts : lo <= l.first /\ l.last <= hi
    /\ \E l \in d.layouts : l.first = lo
    /\ \E l \in d.layouts : l.last = hi

LEMMA OneOf ==
    ASSUME NEW n \in Nat, NEW S \in SUBSET (0..n), NEW c \in S
    PROVE  Cardinality(S) = 1 <=> S = {c}
  <1>1. IsFiniteSet(0..n)
    BY FS_Interval
  <1>2. IsFiniteSet(S)
    BY <1>1, FS_Subset
  <1> QED
    BY <1>2, FS_Singleton

LEMMA InfoIs ==
    ASSUME NEW d \in Shapes, d.cyls > 0, NEW i, i = GetInfo(d), i # NoImage
    PROVE  /\ i.code \in -1..3
           /\ i.code # -1 => \A l \in d.layouts : l.code = i.code
           /\ \E lo \in 0..255, hi \in 0..320 :
                 /\ Spans(d, lo, hi) /\ lo < hi
                 /\ i = [cyls |-> d.cyls, heads |-> d.heads, secs |-> hi + 1 - lo, first |-> lo,
                         code |-> i.code, density |-> i.density]
           /\ i.density \in {"mixed", "one"}
  <1> DEFINE codes == {l.code : l \in d.layouts}
             firsts == {l.first : l \in d.layouts}
             lasts == {l.last : l \in d.layouts}
             lo == Min(firsts)
             hi == Max(lasts)
             code == IF Cardinality(codes) = 1 THEN CHOOSE c \in codes : TRUE ELSE -1
             density == IF Cardinality({l.dden : l \in d.layouts}) = 2 THEN "mixed" ELSE "one"
  <1>1. d.layouts \in SUBSET TrackLayouts
    BY DEF Shapes
  <1>2. \A l \in d.layouts : l.first \in 0..255 /\ l.last \in 0..320 /\ l.code \in 0..3
    BY <1>1 DEF TrackLayouts
  <1>3. d.layouts # {} /\ ~(hi <= lo)
    BY DEF GetInfo
  <1>4. i = [cyls |-> d.cyls, heads |-> d.heads, secs |-> hi + 1 - lo, first |-> lo,
             code |-> code, density |-> density]
    BY <1>3 DEF GetInfo
  <1>5. firsts \in SUBSET (0..255) /\ lasts \in SUBSET (0..320) /\ codes \in SUBSET (0..3)
    BY <1>2
  <1>6. firsts # {} /\ lasts # {} /\ codes # {}
    BY <1>3
  <1>7. lo \in firsts /\ \A y \in firsts : lo <= y
    <2> HIDE DEF firsts
    <2>1. firsts \in SUBSET Nat
      BY <1>5
    <2> QED
      BY <1>6, <2>1, LeastIs
  <1>8. hi \in lasts /\ \A y \in lasts : y <= hi
    <2> HIDE DEF lasts
    <2>1. 320 \in Nat /\ lasts \in SUBSET (0..320)
      BY <1>5
    <2> QED
      BY <1>6, <2>1, GreatestIs
  <1>9. code \in -1..3 /\ (code # -1 => \A l \in d.layouts : l.code = code)
    <2>1. PICK c \in codes : c = CHOOSE x \in codes : TRUE
      BY <1>6
    <2>2. Cardinality(codes) = 1 => codes = {c}
      BY <1>5, OneOf
    <2>3. \A l \in d.layouts : l.code \in codes
      OBVIOUS
    <2> HIDE DEF codes
    <2> QED
      BY <1>5, <2>1, <2>2, <2>3
  <1>10. Spans(d, lo, hi)
    BY <1>7, <1>8 DEF Spans
  <1>11. lo \in 0..255 /\ hi \in 0..320 /\ lo < hi
    <2> HIDE DEF firsts, lasts, lo, hi
    <2>0. firsts \subseteq 0..255 /\ lasts \subseteq 0..320
      BY <1>5
    <2>1. lo \in 0..255 /\ hi \in 0..320
      BY <1>7, <1>8, <2>0
    <2> QED
      BY <1>3, <2>1
  <1>12. density \in {"mixed", "one"}
    OBVIOUS
  <1> HIDE DEF lo, hi, code, density
  <1>13. i.code = code /\ i.density = density
    BY <1>4
  <1> QED
    BY <1>4, <1>9, <1>10, <1>11, <1>12, <1>13

\* A disk all of whose tracks are alike.
LEMMA InfoOfOne ==
    ASSUME NEW d \in Shapes, d.cyls > 0, NEW l \in TrackLayouts, d.layouts = {l}, l.first < l.last
    PROVE  GetInfo(d) = [cyls |-> d.cyls, heads |-> d.heads, secs |-> l.last + 1 - l.first,
                         first |-> l.first, code |-> l.code, density |-> "one"]
  <1> DEFINE codes == {x.code : x \in d.layouts}
             firsts == {x.first : x \in d.layouts}
             lasts == {x.last : x \in d.layouts}
             ddens == {x.dden : x \in d.layouts}
  <1>1. codes = {l.code} /\ firsts = {l.first} /\ lasts = {l.last} /\ ddens = {l.dden}
    OBVIOUS
  <1>2. l.first \in 0..255 /\ l.last \in 0..320
    BY DEF TrackLayouts
  <1>3. Min(firsts) = l.first
    <2>1. firsts \in SUBSET Nat /\ firsts # {}
      BY <1>1, <1>2
    <2> QED
      BY <1>1, <2>1, LeastIs
  <1>4. Max(lasts) = l.last
    <2>1. lasts \in SUBSET (0..320) /\ lasts # {}
      BY <1>1, <1>2
    <2>2. Max(lasts) \in lasts
      BY <2>1, GreatestIs, SMTT(30)
    <2> QED
      BY <1>1, <2>2
  <1>5. Cardinality(codes) = 1 /\ Cardinality(ddens) = 1
    BY <1>1, FS_Singleton
  <1>6. (CHOOSE c \in codes : TRUE) = l.code
    BY <1>1
  <1>7. ~(l.last <= l.first)
    <2>1. \A x \in 0..255, y \in 0..320 : x < y => ~(y <= x)
      OBVIOUS
    <2> QED
      BY <1>2, <2>1
  <1> HIDE DEF codes, firsts, lasts, ddens
  <1>8. d.layouts # {} /\ d.cyls # 0
    OBVIOUS
  <1> QED
    BY <1>3, <1>4, <1>5, <1>6, <1>7, <1>8 DEF GetInfo, codes, firsts, lasts, ddens

-----------------------------------------------------------------------------
(* A JVC file and its disk *)

LEMMA HeaderIs ==
    ASSUME NEW a \in Nat, NEW b \in Nat, NEW c \in Nat, NEW e \in Nat, NEW n \in 0..4,
           NEW h, h = SubSeq(<<a, b, c, e>>, 1, n)
    PROVE  /\ Len(h) = n
           /\ 1 <= n => h[1] = a
           /\ 2 <= n => h[2] = b
           /\ 3 <= n => h[3] = c
           /\ 4 <= n => h[4] = e
           /\ n > 0 => h # <<>>
  <1>1. <<a, b, c, e>> \in Seq(Nat) /\ Len(<<a, b, c, e>>) = 4
    BY SMTT(30)
  <1> QED
    BY <1>1

\* Saved without error, a JVC has sectors of one size under one header.
JvcFile(d, f, lo, hi, code) ==
    /\ Spans(d, lo, hi) /\ lo < hi /\ \A l \in d.layouts : l.code = code
    /\ GetInfo(d) = [cyls |-> d.cyls, heads |-> d.heads, secs |-> hi + 1 - lo, first |-> lo,
                     code |-> code, density |-> "one"]
    /\ f.bytes = (StandardDiskSize(d.cyls) * (d.heads * (hi + 1 - lo))) * Size(code)
    /\ f.lsn0 = (IF lo = 1 /\ code = 1 THEN d.lsn0 ELSE NoFs)

Header(d, f, lo, hi, code) ==
    IF d.headerless_os9 THEN f.head = <<>>
    ELSE /\ (IF Len(f.head) >= 1 THEN f.head[1] ELSE 18) = hi + 1 - lo
         /\ (IF Len(f.head) >= 2 THEN f.head[2] ELSE 1) = d.heads
         /\ (IF Len(f.head) >= 3 THEN f.head[3] ELSE 1) = code
         /\ (IF Len(f.head) >= 4 THEN f.head[4] ELSE 1) = lo

LEMMA SavedJvcIs ==
    ASSUME NEW d \in Shapes, d.cyls > 0, NEW f, f = SavedJvc(d), f # NoImage
    PROVE  \E lo \in 0..255, hi \in 0..320, code \in 0..3 :
              JvcFile(d, f, lo, hi, code) /\ Header(d, f, lo, hi, code)
  <1> DEFINE i == GetInfo(d)
             full == <<i.secs, i.heads, i.code, i.first>>
             n == IF d.headerless_os9 THEN 0 ELSE JvcHeader(i)
  <1>1. i # NoImage /\ i.density # "mixed" /\ i.code # -1
    BY DEF SavedJvc
  <1>2. f = ImageFile("jvc", SubSeq(full, 1, n),
                      StandardDiskSize(i.cyls) * i.heads * i.secs * Size(i.code),
                      FirstSays(d, i))
    BY <1>1 DEF SavedJvc
  <1> HIDE DEF i
  <1>3. /\ i.code \in -1..3
        /\ i.code # -1 => \A l \in d.layouts : l.code = i.code
        /\ \E lo \in 0..255, hi \in 0..320 :
              /\ Spans(d, lo, hi) /\ lo < hi
              /\ i = [cyls |-> d.cyls, heads |-> d.heads, secs |-> hi + 1 - lo, first |-> lo,
                      code |-> i.code, density |-> i.density]
        /\ i.density \in {"mixed", "one"}
    BY <1>1, InfoIs, ZenonT(60) DEF i
  <1>4. PICK lo \in 0..255, hi \in 0..320 :
              /\ Spans(d, lo, hi) /\ lo < hi
              /\ i = [cyls |-> d.cyls, heads |-> d.heads, secs |-> hi + 1 - lo, first |-> lo,
                      code |-> i.code, density |-> i.density]
    BY <1>3
  <1>4a. hi + 1 - lo \in Nat
    <2>1. lo \in 0..255 /\ hi \in 0..320 /\ lo < hi
      BY <1>4
    <2> QED
      BY <2>1
  <1>5. PICK code \in 0..3 : code = i.code
    BY <1>1, <1>3
  <1>6. i.density = "one"
    BY <1>1, <1>3
  <1>7. i = [cyls |-> d.cyls, heads |-> d.heads, secs |-> hi + 1 - lo, first |-> lo,
             code |-> code, density |-> "one"]
    BY <1>4, <1>5, <1>6
  <1>8. i.cyls = d.cyls /\ i.heads = d.heads /\ i.secs = hi + 1 - lo /\ i.first = lo
    BY <1>7
  <1>9. f.head = SubSeq(full, 1, n) /\ f.lsn0 = FirstSays(d, i)
        /\ f.bytes = StandardDiskSize(i.cyls) * i.heads * i.secs * Size(i.code)
    <2> DEFINE x == SubSeq(full, 1, n)
               y == StandardDiskSize(i.cyls) * i.heads * i.secs * Size(i.code)
               w == FirstSays(d, i)
    <2> HIDE DEF x, y, w
    <2>1. f = ImageFile("jvc", x, y, w)
      BY <1>2 DEF x, y, w
    <2>2. f.head = x /\ f.bytes = y /\ f.lsn0 = w
      BY <2>1 DEF ImageFile
    <2> QED
      BY <2>2 DEF x, y, w
  <1>10. d.cyls \in 0..256 /\ d.heads \in 0..2
    BY DEF Shapes
  <1>11. f.bytes = (StandardDiskSize(d.cyls) * (d.heads * (hi + 1 - lo))) * Size(code)
    <2> DEFINE std == StandardDiskSize(d.cyls)
               size == Size(code)
    <2>1. std \in Nat /\ size \in Nat
      BY <1>10, StandardIs, SizeIs
    <2>2. f.bytes = std * d.heads * (hi + 1 - lo) * size
      BY <1>5, <1>8, <1>9
    <2> HIDE DEF std, size
    <2>3. hi + 1 - lo \in Nat
      BY <1>4a
    <2>4. std * d.heads * (hi + 1 - lo) = std * (d.heads * (hi + 1 - lo))
      BY <1>10, <2>1, <2>3
    <2> QED
      BY <2>2, <2>4 DEF std, size
  <1>12. f.lsn0 = (IF lo = 1 /\ code = 1 THEN d.lsn0 ELSE NoFs)
    BY <1>5, <1>8, <1>9 DEF FirstSays
  <1>13. JvcFile(d, f, lo, hi, code)
    BY <1>1, <1>3, <1>4, <1>5, <1>7, <1>11, <1>12 DEF JvcFile, i
  <1>14. Header(d, f, lo, hi, code)
    <2>1. n \in 0..4
      BY DEF JvcHeader
    <2>2. /\ ~d.headerless_os9 => 
                /\ n < 4 => i.first = 1
                /\ n < 3 => i.code = 1
                /\ n < 2 => i.heads = 1
                /\ n < 1 => i.secs = 18
          /\ d.headerless_os9 => n = 0
      BY DEF JvcHeader
    <2> HIDE DEF n
    <2>3. hi + 1 - lo \in Nat
      BY <1>4a
    <2>4. f.head = SubSeq(<<hi + 1 - lo, d.heads, code, lo>>, 1, n)
      BY <1>5, <1>8, <1>9
    <2> DEFINE secs == hi + 1 - lo
    <2> HIDE DEF secs
    <2>5. /\ Len(f.head) = n
          /\ 1 <= n => f.head[1] = secs
          /\ 2 <= n => f.head[2] = d.heads
          /\ 3 <= n => f.head[3] = code
          /\ 4 <= n => f.head[4] = lo
      BY <1>10, <2>1, <2>3, <2>4, HeaderIs DEF secs
    <2>6. CASE d.headerless_os9
      <3>1. f.head = <<>>
        BY <2>1, <2>2, <2>4, <2>6, <2>3, <1>10
      <3> QED
        BY <2>6, <3>1 DEF Header
    <2>7. CASE ~d.headerless_os9
      BY <1>5, <1>8, <2>1, <2>2, <2>5, <2>7 DEF Header, secs
    <2> QED
      BY <2>6, <2>7
  <1> QED
    BY <1>13, <1>14, ZenonT(60)

\* What OS-9 says of the disk it formatted is no more than there is, and is all there is
\* only in its own geometry, or with a second side that was made up of the first.
Fits(d) ==
    \E top \in 1..320 :
       /\ \A l \in d.layouts : l.last <= top
       /\ \E l \in d.layouts : l.last = top
       /\ d.lsn0.tot <= d.cyls * (d.heads * top)
       /\ d.lsn0.tot = d.cyls * (d.heads * top) =>
             /\ d.lsn0.tks = top
             /\ d.lsn0.sides = d.heads \/ (d.heads = 2 /\ d.lsn0.sides = 1 /\ d.cyls >= 44)

Os9Kept(d, os9) ==
    /\ d.headerless_os9 => os9
    /\ d.headerless_os9 /\ ~d.remade /\ d.cyls > 0 =>
          d.lsn0 # NoFs /\ d.layouts = {TrackOf(d.lsn0.tks, 1, 1)}
    /\ os9 /\ d.type = "jvc" /\ d.cyls > 0 /\ d.lsn0 # NoFs => Fits(d)

LEMMA OnlyOneSpan ==
    ASSUME NEW d \in Shapes, NEW lo \in 0..255, NEW hi \in 0..320, Spans(d, lo, hi),
           NEW top \in 1..320, \A l \in d.layouts : l.last <= top,
           \E l \in d.layouts : l.last = top
    PROVE  top = hi
  <1>1. d.layouts \in SUBSET TrackLayouts
    BY DEF Shapes
  <1>2. \A l \in d.layouts : l.last \in 0..320 /\ l.last <= hi /\ l.last <= top
    BY <1>1 DEF TrackLayouts, Spans
  <1>3. \E l \in d.layouts : l.last = hi
    BY DEF Spans
  <1> QED
    BY <1>2, <1>3

\* A file that is read as OS-9 says all there is.
AllSaid(d, f, lo, hi, code) ==
    /\ lo = 1 /\ code = 1 /\ auto
    /\ f.lsn0 = d.lsn0 /\ d.lsn0 # NoFs /\ d.lsn0 \in FileSystems /\ d.lsn0.tks = hi
    /\ StandardDiskSize(d.cyls) = d.cyls /\ d.lsn0.tot = d.cyls * (d.heads * hi)
    /\ f.bytes = (d.cyls * (d.heads * hi)) * Size(1)
    /\ d.lsn0.sides = d.heads \/ (d.heads = 2 /\ d.lsn0.sides = 1 /\ d.cyls >= 44)
    /\ LoadedJvc(f) = Divided(f, d.lsn0.tks, d.lsn0.sides, 1, 1, TRUE)

LEMMA ReadAsOs9 ==
    ASSUME NEW d \in Shapes, Whole(d), Os9Kept(d, auto), d.type = "jvc", d.cyls > 0, NEW f,
           NEW lo \in 0..255, NEW hi \in 0..320, NEW code \in 0..3,
           JvcFile(d, f, lo, hi, code), IsOs9(f)
    PROVE  AllSaid(d, f, lo, hi, code)
  <1> DEFINE std == StandardDiskSize(d.cyls)
             tot == d.lsn0.tot
  <1>1. lo = 1 /\ code = 1 /\ f.lsn0 = d.lsn0 /\ d.lsn0 # NoFs /\ auto /\ tot * 256 >= f.bytes
    BY DEF JvcFile, IsOs9
  <1>2. d.lsn0 \in FileSystems /\ d.cyls \in 0..256 /\ d.heads \in 0..2
    BY <1>1 DEF Shapes
  <1>3. tot \in Nat
    BY <1>2 DEF FileSystems
  <1>4. d.heads \in 1..2
    BY <1>2 DEF Whole
  <1>5. Fits(d)
    BY <1>1, SMTT(30) DEF Os9Kept
  <1>6. PICK top \in 1..320 :
          /\ \A l \in d.layouts : l.last <= top
          /\ \E l \in d.layouts : l.last = top
          /\ tot <= d.cyls * (d.heads * top)
          /\ tot = d.cyls * (d.heads * top) =>
                /\ d.lsn0.tks = top
                /\ d.lsn0.sides = d.heads \/ (d.heads = 2 /\ d.lsn0.sides = 1 /\ d.cyls >= 44)
    BY <1>5, ZenonT(60) DEF Fits
  <1>7. top = hi
    <2>1. Spans(d, lo, hi)
      BY DEF JvcFile
    <2>2. (\A l \in d.layouts : l.last <= top) /\ (\E l \in d.layouts : l.last = top)
      BY <1>6
    <2> QED
      BY <2>1, <2>2, OnlyOneSpan, ZenonT(60)
  <1> DEFINE m == d.heads * hi
  <1>8. m \in Nat \ {0}
    BY <1>4, <1>7
  <1>9. Size(1) = 256
    BY SizeIs
  <1>10. std \in Nat /\ d.cyls <= std
    BY <1>2, StandardIs
  <1>11. f.bytes = (std * m) * 256
    <2>1. hi + 1 - lo = hi
      BY <1>1
    <2> QED
      BY <1>1, <1>9, <2>1 DEF JvcFile
  <1>12. tot <= d.cyls * m
    BY <1>6, <1>7
  <1> HIDE DEF std, tot, m
  <1>13. std * m \in Nat /\ d.cyls * m \in Nat
    BY <1>2, <1>8, <1>10
  <1>14. tot >= std * m
    BY <1>1, <1>3, <1>11, <1>13
  <1>15. d.cyls * m <= std * m /\ (d.cyls * m = std * m => d.cyls = std)
    <2>1. d.cyls \in Nat \ {0}
      BY <1>2
    <2>2. m \in Nat /\ m <= m
      BY <1>8
    <2> QED
      BY <2>1, <2>2, <1>8, <1>10, AsMany, ZenonT(60)
  <1>16. tot = d.cyls * m /\ std = d.cyls
    BY <1>3, <1>12, <1>13, <1>14, <1>15
  <1>17. LoadedJvc(f) = Divided(f, d.lsn0.tks, d.lsn0.sides, 1, 1, TRUE)
    BY <1>1 DEF LoadedJvc
  <1> QED
    BY <1>1, <1>2, <1>6, <1>7, <1>9, <1>11, <1>16, <1>17 DEF AllSaid, std, tot, m

LEMMA ReadByHeader ==
    ASSUME NEW d \in Shapes, NEW f, NEW lo \in 0..255, NEW hi \in 0..320, NEW code \in 0..3,
           Header(d, f, lo, hi, code), ~IsOs9(f)
    PROVE  LoadedJvc(f) = IF d.headerless_os9 THEN Divided(f, 18, 1, 1, 1, FALSE)
                          ELSE Divided(f, hi + 1 - lo, d.heads, code, lo, FALSE)
  <1> DEFINE a == IF Len(f.head) >= 1 THEN f.head[1] ELSE 18
             b == IF Len(f.head) >= 2 THEN f.head[2] ELSE 1
             c == IF Len(f.head) >= 3 THEN f.head[3] ELSE 1
             e == IF Len(f.head) >= 4 THEN f.head[4] ELSE 1
  <1>1. LoadedJvc(f) = Divided(f, a, b, c % 4, e, FALSE)
    BY DEF LoadedJvc
  <1>2. CASE d.headerless_os9
    <2>1. f.head = <<>>
      BY <1>2 DEF Header
    <2>2. a = 18 /\ b = 1 /\ c = 1 /\ e = 1
      BY <2>1
    <2>3. 1 % 4 = 1
      OBVIOUS
    <2> HIDE DEF a, b, c, e
    <2> QED
      BY <1>1, <1>2, <2>2, <2>3
  <1>3. CASE ~d.headerless_os9
    <2>1. a = hi + 1 - lo /\ b = d.heads /\ c = code /\ e = lo
      BY <1>3 DEF Header
    <2>2. code % 4 = code
      OBVIOUS
    <2> HIDE DEF a, b, c, e
    <2> QED
      BY <1>1, <1>3, <2>1, <2>2
  <1> QED
    BY <1>2, <1>3

LEMMA TracksOf ==
    ASSUME NEW ns \in 1..64, NEW code \in 0..3, NEW first \in 0..255
    PROVE  TrackOf(ns, code, first) \in TrackLayouts
  BY DEF TrackOf, TrackLayouts

ReadAs(e, f, ns, nh, code, first, os9) ==
    /\ e \in Shapes /\ Whole(e) /\ ns \in 1..64 /\ nh \in 1..2
    /\ e.type = "jvc" /\ e.lsn0 = f.lsn0 /\ e.headerless_os9 = os9
    /\ e.cyls > 0 => e.layouts = {TrackOf(ns, code, first)}

LEMMA LoadedJvcTyped ==
    ASSUME NEW f, f.bytes \in Nat, f.lsn0 \in FileSystems \union {NoFs},
           NEW ns \in Nat, NEW nh \in 0..2, NEW code \in 0..3, NEW first \in 0..255,
           NEW os9 \in BOOLEAN, NEW e, e = Divided(f, ns, nh, code, first, os9), e # NoImage
    PROVE  ReadAs(e, f, ns, nh, code, first, os9)
  <1>1. ns \in 1..64 /\ nh \in 1..2
    BY DividedSome, SMTT(30)
  <1>2. PICK q \in Nat, h \in 1..2 :
          e = Formatted("jvc", q, h, TrackOf(ns, code, first), f.lsn0, os9)
    BY <1>1, DividedIs, SMTT(30) DEF Division
  <1>3. TrackOf(ns, code, first) \in TrackLayouts
    BY <1>1, TracksOf
  <1> DEFINE t == TrackOf(ns, code, first)
  <1> HIDE DEF t
  <1>4. /\ e \in Shapes /\ e # NoImage /\ Whole(e)
        /\ e.type = "jvc" /\ e.cyls = q /\ e.lsn0 = f.lsn0 /\ e.headerless_os9 = os9
        /\ ~e.remade
        /\ q > 0 => e.heads = h /\ e.layouts = {t}
    <2>1. q \in Nat /\ h \in Nat /\ (q > 0 => h > 0)
      BY SMTT(30)
    <2> QED
      BY <1>2, <1>3, <2>1, FormattedIs DEF FormattedAs, t
  <1> QED
    BY <1>1, <1>4 DEF ReadAs, t

\* What is known of a disk of tracks that are all alike.
LEMMA FitsOne ==
    ASSUME NEW e \in Shapes, NEW ns \in 1..64, NEW code, e.layouts = {TrackOf(ns, code, 1)},
           e.lsn0.tot <= e.cyls * (e.heads * ns),
           e.lsn0.tot = e.cyls * (e.heads * ns) =>
             /\ e.lsn0.tks = ns
             /\ e.lsn0.sides = e.heads \/ (e.heads = 2 /\ e.lsn0.sides = 1 /\ e.cyls >= 44)
    PROVE  Fits(e)
  <1>1. TrackOf(ns, code, 1).last = ns
    BY DEF TrackOf
  <1>2. ns \in 1..320
    OBVIOUS
  <1>3. (\A l \in e.layouts : l.last <= ns) /\ (\E l \in e.layouts : l.last = ns)
    BY <1>1
  <1> QED
    BY <1>2, <1>3 DEF Fits

LEMMA HalfOf ==
    ASSUME NEW q \in Nat, NEW a \in Nat, NEW ns \in Nat \ {0}, q * (2 * ns) >= a * (1 * ns)
    PROVE  2 * q >= a
  <1> SUFFICES ASSUME 2 * q + 1 <= a PROVE FALSE
    OBVIOUS
  <1>1. (2 * q + 1) * ns <= a * ns
    BY NoMore
  <1>2. q * (2 * ns) = (2 * q) * ns /\ (2 * q + 1) * ns = (2 * q) * ns + ns
    OBVIOUS
  <1>3. (2 * q) * ns \in Nat /\ a * ns \in Nat
    OBVIOUS
  <1> QED
    BY <1>1, <1>2, <1>3

\* Whatever its geometry, a disk whose sectors are so many cylinders of the file's sectors
\* has room for what OS-9 says of it, and has only that much if it is in its geometry.
LEMMA ReadFits ==
    ASSUME NEW f, f.lsn0 \in FileSystems, NEW ns \in 1..64, NEW nh \in 1..2, NEW os9 \in BOOLEAN,
           NEW a \in Nat, f.bytes = (a * (nh * ns)) * Size(1),
           NEW e, e = Divided(f, ns, nh, 1, 1, os9), e # NoImage, e.cyls > 0,
           f.lsn0.tot <= a * (nh * ns),
           f.lsn0.tot = a * (nh * ns) =>
              /\ f.lsn0.tks = ns
              /\ f.lsn0.sides = nh \/ (nh = 2 /\ f.lsn0.sides = 1 /\ a >= 44)
    PROVE  Fits(e)
  <1> DEFINE k == a * (nh * ns)
             t == TrackOf(ns, 1, 1)
  <1>1. k \in Nat /\ nh * ns \in Nat \ {0}
    OBVIOUS
  <1>2. f.lsn0.tot \in Nat /\ f.lsn0.sides \in 1..2
    BY DEF FileSystems
  <1>3. PICK q \in Nat, h \in 1..2 :
          e = Formatted("jvc", q, h, t, f.lsn0, os9) /\ RoomFor(f.bytes, Size(1), nh, ns, q, h)
    <2>1. PICK c \in 0..3 : c = 1
      OBVIOUS
    <2>2. f.bytes \in Nat
      BY <1>1, SizeIs
    <2>3. Division(f, ns, nh, c, c, os9)
      BY <2>2, DividedIs, SMTT(30)
    <2> QED
      BY <2>1, <2>3 DEF Division
  <1>4. t \in TrackLayouts
    <2>1. 1 \in 0..3 /\ 1 \in 0..255
      OBVIOUS
    <2> QED
      BY <2>1, TracksOf
  <1> HIDE DEF t
  <1>5. /\ e \in Shapes /\ e.cyls = q /\ e.lsn0 = f.lsn0
        /\ q > 0 => e.heads = h /\ e.layouts = {t}
    <2>1. q \in Nat /\ h \in Nat /\ (q > 0 => h > 0)
      OBVIOUS
    <2> QED
      BY <1>3, <1>4, <2>1, FormattedIs DEF FormattedAs
  <1>6. q * (h * ns) >= k /\ IF nh = 1 /\ a >= 88 THEN h = 2 ELSE q = a /\ h = nh
    BY <1>1, <1>3 DEF RoomFor
  <1> HIDE DEF k
  <1>7. e.lsn0.tot <= e.cyls * (e.heads * ns)
    <2>1. q * (h * ns) \in Nat
      OBVIOUS
    <2> QED
      BY <1>1, <1>2, <1>5, <1>6, <2>1 DEF k
  <1>8. ASSUME e.lsn0.tot = e.cyls * (e.heads * ns)
        PROVE  /\ e.lsn0.tks = ns
               /\ e.lsn0.sides = e.heads \/ (e.heads = 2 /\ e.lsn0.sides = 1 /\ e.cyls >= 44)
    <2>1. f.lsn0.tot = k
      <3>1. q * (h * ns) \in Nat
        OBVIOUS
      <3> QED
        BY <1>1, <1>2, <1>5, <1>6, <1>8, <3>1 DEF k
    <2>2. f.lsn0.tks = ns /\ (f.lsn0.sides = nh \/ (nh = 2 /\ f.lsn0.sides = 1 /\ a >= 44))
      BY <2>1 DEF k
    <2>3. CASE nh = 1 /\ a >= 88
      <3>1. h = 2 /\ f.lsn0.sides = 1
        BY <1>6, <2>2, <2>3
      <3>2. q * (2 * ns) >= a * (1 * ns)
        BY <1>6, <2>3, <3>1 DEF k
      <3>3. 2 * q >= a
        BY <3>2, HalfOf
      <3> QED
        BY <1>5, <2>2, <2>3, <3>1, <3>3
    <2>4. CASE ~(nh = 1 /\ a >= 88)
      BY <1>5, <1>6, <2>2, <2>4
    <2> QED
      BY <2>3, <2>4
  <1> QED
    BY <1>5, <1>7, <1>8, FitsOne DEF t

LEMMA JvcTyped ==
    ASSUME NEW d \in Shapes, Whole(d), d.cyls > 0, NEW f, NEW lo \in 0..255, NEW hi \in 0..320,
           NEW code \in 0..3, JvcFile(d, f, lo, hi, code)
    PROVE  /\ f.bytes \in Nat /\ f.lsn0 \in FileSystems \union {NoFs}
           /\ hi + 1 - lo \in Nat /\ d.heads \in 1..2 /\ d.cyls \in 1..256
           /\ d.cyls * (d.heads * hi) \in Nat
  <1>1. d.heads \in 1..2 /\ d.cyls \in 1..256 /\ d.lsn0 \in FileSystems \union {NoFs}
    BY DEF Shapes, Whole
  <1>2. hi + 1 - lo \in Nat
    BY DEF JvcFile
  <1>3. StandardDiskSize(d.cyls) \in Nat /\ Size(code) \in Nat
    BY <1>1, StandardIs, SizeIs
  <1> DEFINE x == StandardDiskSize(d.cyls)
             y == hi + 1 - lo
             z == Size(code)
             w == d.heads
  <1>4. f.bytes = (x * (w * y)) * z /\ f.lsn0 = (IF lo = 1 /\ code = 1 THEN d.lsn0 ELSE NoFs)
    BY DEF JvcFile
  <1>5. x \in Nat /\ y \in Nat /\ z \in Nat /\ w \in Nat
    BY <1>1, <1>2, <1>3
  <1> HIDE DEF x, y, z, w
  <1>6. f.bytes \in Nat
    BY <1>4, <1>5
  <1>7. \A a, b, c \in Nat : a * (b * c) \in Nat
    OBVIOUS
  <1>8. d.cyls * (d.heads * hi) \in Nat
    <2>1. d.cyls \in Nat /\ d.heads \in Nat /\ hi \in Nat
      BY <1>1, SMTT(30)
    <2> QED
      BY <2>1, <1>7, Zenon
  <1> QED
    BY <1>1, <1>2, <1>4, <1>6, <1>8

\* Read as OS-9, or by its header, or without either, a saved disk is again one of which
\* no more is said than there is.
LEMMA JvcAgain ==
    ASSUME NEW d \in Shapes, Whole(d), Os9Kept(d, auto), d.type = "jvc", d.cyls > 0,
           auto \in BOOLEAN, NEW f, NEW lo \in 0..255, NEW hi \in 0..320, NEW code \in 0..3,
           JvcFile(d, f, lo, hi, code), Header(d, f, lo, hi, code),
           NEW e, e = LoadedJvc(f), e # NoImage
    PROVE  e \in Shapes /\ Whole(e) /\ Os9Kept(e, auto)
  <1>1. /\ f.bytes \in Nat /\ f.lsn0 \in FileSystems \union {NoFs}
        /\ hi + 1 - lo \in Nat /\ d.heads \in 1..2 /\ d.cyls \in 1..256
        /\ d.cyls * (d.heads * hi) \in Nat
    BY JvcTyped, ZenonT(60)
  <1> DEFINE std == StandardDiskSize(d.cyls)
  <1>2. std \in Nat /\ d.cyls <= std /\ std <= 256 /\ (std > 83 => std = d.cyls)
    BY <1>1, StandardIs
  <1> HIDE DEF std
  <1>3. CASE IsOs9(f)
    <2>1. /\ lo = 1 /\ code = 1 /\ auto
          /\ f.lsn0 = d.lsn0 /\ d.lsn0 # NoFs /\ d.lsn0 \in FileSystems /\ d.lsn0.tks = hi
          /\ d.lsn0.tot = d.cyls * (d.heads * hi)
          /\ f.bytes = (d.cyls * (d.heads * hi)) * Size(1)
          /\ d.lsn0.sides = d.heads \/ (d.heads = 2 /\ d.lsn0.sides = 1 /\ d.cyls >= 44)
          /\ LoadedJvc(f) = Divided(f, d.lsn0.tks, d.lsn0.sides, 1, 1, TRUE)
      <3>1. AllSaid(d, f, lo, hi, code)
        BY <1>3, ReadAsOs9, ZenonT(60)
      <3> QED
        BY <3>1 DEF AllSaid
    <2> DEFINE ns == d.lsn0.tks
               nh == d.lsn0.sides
    <2>2. ns \in Nat /\ nh \in 0..2
      BY <2>1 DEF FileSystems
    <2>3. PICK one \in 0..3 : one = 1
      OBVIOUS
    <2>4. e = Divided(f, ns, nh, one, one, TRUE) /\ one \in 0..255
      BY <2>1, <2>3
    <2> HIDE DEF ns, nh
    <2>5. /\ e \in Shapes /\ Whole(e) /\ ns \in 1..64 /\ nh \in 1..2
          /\ e.type = "jvc" /\ e.lsn0 = f.lsn0 /\ e.headerless_os9 = TRUE
          /\ e.cyls > 0 => e.layouts = {TrackOf(ns, one, one)}
      <3>1. TRUE \in BOOLEAN
        OBVIOUS
      <3>2. ReadAs(e, f, ns, nh, one, one, TRUE)
        BY <1>1, <2>2, <2>4, <3>1, LoadedJvcTyped
      <3> QED
        BY <3>2 DEF ReadAs
    <2>6. ASSUME e.cyls > 0 PROVE Fits(e)
      <3>1. PICK a \in Nat : /\ a * (nh * ns) = d.cyls * (d.heads * hi)
                             /\ nh = d.heads \/ (nh = 2 /\ a >= 44) \/ (nh = 1 /\ a >= 88)
        <4>1. CASE d.lsn0.sides = d.heads
          <5>1. d.cyls \in Nat /\ nh = d.heads /\ ns = hi
            BY <1>1, <2>1, <4>1 DEF ns, nh
          <5>2. d.cyls * (nh * ns) = d.cyls * (d.heads * hi)
            BY <5>1
          <5> QED
            BY <5>1, <5>2
        <4>2. CASE d.heads = 2 /\ d.lsn0.sides = 1 /\ d.cyls >= 44
          <5>1. 2 * d.cyls \in Nat /\ 2 * d.cyls >= 88
            BY <1>1, <4>2
          <5>2. (2 * d.cyls) * (1 * hi) = d.cyls * (2 * hi)
            BY <1>1
          <5> QED
            BY <2>1, <4>2, <5>1, <5>2 DEF ns, nh
        <4> QED
          BY <2>1, <4>1, <4>2
      <3>2. /\ f.bytes = (a * (nh * ns)) * Size(1)
            /\ f.lsn0.tot = a * (nh * ns) /\ f.lsn0.tks = ns /\ f.lsn0.sides = nh
        BY <2>1, <3>1 DEF ns, nh
      <3>3. f.lsn0.tot <= a * (nh * ns)
        BY <1>1, <3>1, <3>2
      <3>4. e = Divided(f, ns, nh, 1, 1, TRUE) /\ f.lsn0 \in FileSystems
        BY <2>1, <2>3, <2>4
      <3>5. TRUE \in BOOLEAN
        OBVIOUS
      <3> QED
        BY <2>5, <2>6, <3>2, <3>3, <3>4, <3>5, ReadFits
    <2>7. e.cyls > 0 => e.layouts = {TrackOf(e.lsn0.tks, 1, 1)}
      <3>1. e.lsn0.tks = ns
        BY <2>1, <2>5 DEF ns
      <3> QED
        BY <2>3, <2>5, <3>1
    <2> QED
      BY <2>1, <2>5, <2>6, <2>7 DEF Os9Kept
  <1>4. CASE ~IsOs9(f) /\ ~d.headerless_os9
    <2> DEFINE ns == hi + 1 - lo
    <2>1. e = Divided(f, ns, d.heads, code, lo, FALSE)
      BY <1>4, ReadByHeader, ZenonT(60)
    <2>2. ns \in Nat /\ d.heads \in 0..2
      BY <1>1
    <2> HIDE DEF ns
    <2>3. /\ e \in Shapes /\ Whole(e) /\ ns \in 1..64
          /\ e.type = "jvc" /\ e.lsn0 = f.lsn0 /\ e.headerless_os9 = FALSE
      <3>1. FALSE \in BOOLEAN
        OBVIOUS
      <3>2. ReadAs(e, f, ns, d.heads, code, lo, FALSE)
        BY <1>1, <2>1, <2>2, <3>1, LoadedJvcTyped, ZenonT(60)
      <3> QED
        BY <3>2 DEF ReadAs
    <2>4. ASSUME auto, e.cyls > 0, e.lsn0 # NoFs PROVE Fits(e)
      <3>1. lo = 1 /\ code = 1 /\ f.lsn0 = d.lsn0 /\ d.lsn0 # NoFs /\ f.lsn0 \in FileSystems
        BY <1>1, <2>3, <2>4 DEF JvcFile
      <3>2. ns = hi
        BY <3>1 DEF ns
      <3>3. PICK top \in 1..320 :
              /\ \A l \in d.layouts : l.last <= top
              /\ \E l \in d.layouts : l.last = top
              /\ d.lsn0.tot <= d.cyls * (d.heads * top)
              /\ d.lsn0.tot = d.cyls * (d.heads * top) =>
                    /\ d.lsn0.tks = top
                    /\ d.lsn0.sides = d.heads \/ (d.heads = 2 /\ d.lsn0.sides = 1 /\ d.cyls >= 44)
        BY <2>4, <3>1, ZenonT(60) DEF Os9Kept, Fits
      <3>4. top = hi
        <4>1. Spans(d, lo, hi)
          BY DEF JvcFile
        <4>2. (\A l \in d.layouts : l.last <= top) /\ (\E l \in d.layouts : l.last = top)
          BY <3>3
        <4> QED
          BY <4>1, <4>2, OnlyOneSpan, ZenonT(60)
      <3> DEFINE m == d.heads * ns
      <3>5. m \in Nat \ {0}
        BY <1>1, <2>3
      <3>6. f.bytes = (std * m) * Size(1)
        BY <3>1, <3>2 DEF JvcFile, std, ns
      <3>7. /\ f.lsn0.tot <= d.cyls * m
            /\ f.lsn0.tot = d.cyls * m =>
                 /\ f.lsn0.tks = ns
                 /\ f.lsn0.sides = d.heads \/ (d.heads = 2 /\ f.lsn0.sides = 1 /\ d.cyls >= 44)
        BY <3>1, <3>2, <3>3, <3>4
      <3> HIDE DEF m
      <3>8. d.cyls * m <= std * m /\ (d.cyls * m = std * m => d.cyls = std)
        <4>1. PICK c \in Nat \ {0}, x \in Nat, y \in Nat :
                c = d.cyls /\ x = std /\ y = m /\ c <= x /\ m <= y
          BY <1>1, <1>2, <3>5
        <4>2. c * m <= x * y /\ (c * m = x * y => c = x /\ m = y)
          BY <3>5, <4>1, AsMany, ZenonT(60)
        <4> QED
          BY <4>1, <4>2
      <3>9. f.lsn0.tot \in Nat /\ d.cyls * m \in Nat /\ std * m \in Nat
        BY <1>1, <1>2, <3>1, <3>5 DEF FileSystems
      <3>10. f.lsn0.tot <= std * m /\ (f.lsn0.tot = std * m => f.lsn0.tot = d.cyls * m)
        BY <3>7, <3>8, <3>9
      <3>11. f.lsn0.tot = std * m =>
                 /\ f.lsn0.tks = ns
                 /\ f.lsn0.sides = d.heads \/ (d.heads = 2 /\ f.lsn0.sides = 1 /\ std >= 44)
        BY <1>1, <1>2, <3>7, <3>10
      <3>12. e = Divided(f, ns, d.heads, 1, 1, FALSE)
        BY <2>1, <3>1
      <3>13. FALSE \in BOOLEAN
        OBVIOUS
      <3>14. /\ f.bytes = (std * (d.heads * ns)) * Size(1)
             /\ f.lsn0.tot <= std * (d.heads * ns)
             /\ f.lsn0.tot = std * (d.heads * ns) =>
                 /\ f.lsn0.tks = ns
                 /\ f.lsn0.sides = d.heads \/ (d.heads = 2 /\ f.lsn0.sides = 1 /\ std >= 44)
        BY <3>6, <3>10, <3>11 DEF m
      <3> QED
        BY <1>1, <1>2, <2>3, <2>4, <3>1, <3>12, <3>13, <3>14, ReadFits
    <2> QED
      BY <2>3, <2>4 DEF Os9Kept
  <1>5. CASE ~IsOs9(f) /\ d.headerless_os9
    <2>1. e = Divided(f, 18, 1, 1, 1, FALSE)
      BY <1>5, ReadByHeader, ZenonT(60)
    <2>2. PICK one \in 0..3, ns \in 1..64 : one = 1 /\ ns = 18
      OBVIOUS
    <2>3. e = Divided(f, ns, one, one, one, FALSE) /\ one \in 0..255 /\ one \in 0..2 /\ ns \in Nat
      BY <2>1, <2>2
    <2>4. /\ e \in Shapes /\ Whole(e)
          /\ e.type = "jvc" /\ e.lsn0 = f.lsn0 /\ e.headerless_os9 = FALSE
          /\ e.cyls > 0 => e.layouts = {TrackOf(ns, one, one)}
      <3>1. FALSE \in BOOLEAN
        OBVIOUS
      <3>2. ReadAs(e, f, ns, one, one, one, FALSE)
        BY <1>1, <2>3, <3>1, LoadedJvcTyped
      <3> QED
        BY <3>2 DEF ReadAs
    <2>5. ASSUME auto, e.cyls > 0, e.lsn0 # NoFs PROVE Fits(e)
      <3>1. lo = 1 /\ code = 1 /\ f.lsn0 = d.lsn0 /\ f.lsn0 # NoFs /\ f.lsn0 \in FileSystems
        BY <1>1, <2>4, <2>5 DEF JvcFile
      <3> DEFINE k == std * (d.heads * hi)
      <3>2. f.bytes = k * Size(1)
        <4>1. hi + 1 - lo = hi
          BY <3>1
        <4> QED
          BY <3>1, <4>1 DEF JvcFile, std
      <3>3. k \in Nat
        <4>1. \A a, b, c \in Nat : a * (b * c) \in Nat
          OBVIOUS
        <4> QED
          BY <1>1, <1>2, <4>1
      <3> HIDE DEF k
      <3>4. Size(1) = 256
        BY SizeIs
      <3>5. f.head = <<>>
        BY <1>5 DEF Header
      <3>6. f.lsn0.tot \in Nat /\ f.lsn0.tks > 0
        BY <3>1 DEF FileSystems
      <3>7. ~(f.lsn0.tot * 256 >= f.bytes)
        BY <1>5, <2>5, <3>1, <3>5, <3>6 DEF IsOs9
      <3>8. f.lsn0.tot < k
        BY <1>1, <3>2, <3>3, <3>4, <3>6, <3>7
      <3>9. Division(f, ns, one, one, one, FALSE)
        <4>1. one \in 1..2
          BY <2>2
        <4> QED
          BY <1>1, <4>1, DividedIs
      <3>10. PICK q \in Nat, h \in 1..2 :
                e = Formatted("jvc", q, h, TrackOf(ns, one, one), f.lsn0, FALSE)
                /\ RoomFor(f.bytes, Size(one), one, ns, q, h)
        BY <2>3, <3>9 DEF Division
      <3>11. q * (h * ns) >= k
        BY <2>2, <3>2, <3>3, <3>10 DEF RoomFor
      <3>12. e.cyls = q /\ e.heads = h
        <4>1. TrackOf(ns, one, one) \in TrackLayouts
          BY <2>3, TracksOf
        <4>2. h \in Nat /\ (q > 0 => h > 0)
          OBVIOUS
        <4> DEFINE t == TrackOf(ns, one, one)
        <4>3. t \in TrackLayouts /\ e = Formatted("jvc", q, h, t, f.lsn0, FALSE)
          BY <3>10, <4>1
        <4>4. "jvc" \in {"vdk", "jvc", "dmk"} /\ FALSE \in BOOLEAN
          OBVIOUS
        <4> HIDE DEF t
        <4>5. FormattedAs(e, "jvc", q, h, t, f.lsn0, FALSE)
          BY <1>1, <4>2, <4>3, <4>4, FormattedIs
        <4>6. e.cyls = q /\ (q > 0 => e.heads = h)
          BY <4>5 DEF FormattedAs
        <4> QED
          BY <2>5, <4>6, SMTT(30)
      <3>13. e.lsn0.tot < e.cyls * (e.heads * ns)
        <4>1. q * (h * ns) \in Nat
          OBVIOUS
        <4> QED
          BY <2>4, <3>3, <3>6, <3>8, <3>11, <3>12, <4>1
      <3>14. e.layouts = {TrackOf(ns, one, 1)}
        BY <2>2, <2>4, <2>5
      <3>15. e.cyls * (e.heads * ns) \in Nat /\ e.lsn0.tot \in Nat
        BY <2>4, <3>6, <3>12
      <3>16. /\ e.lsn0.tot <= e.cyls * (e.heads * ns)
             /\ e.lsn0.tot # e.cyls * (e.heads * ns)
        BY <3>13, <3>15
      <3> QED
        BY <2>4, <3>14, <3>16, FitsOne
    <2> QED
      BY <2>4, <2>5, SMTT(30) DEF Os9Kept
  <1> QED
    BY <1>3, <1>4, <1>5

\* A disk is read back: where its sectors were, they are.
Found(d, e) ==
    /\ e # NoImage /\ GetInfo(e) # NoImage
    /\ GetInfo(e) = [GetInfo(d) EXCEPT !.cyls = GetInfo(e).cyls]
    /\ GetInfo(e).cyls >= GetInfo(d).cyls

Tells(d, lo, hi, code) ==
    GetInfo(d) = [cyls |-> d.cyls, heads |-> d.heads, secs |-> hi + 1 - lo, first |-> lo,
                  code |-> code, density |-> "one"]

LEMMA FoundIn ==
    ASSUME NEW d \in Shapes, Whole(d), d.cyls > 0, NEW l \in TrackLayouts, l.first < l.last,
           Tells(d, l.first, l.last, l.code),
           NEW e \in Shapes, e # NoImage, e.cyls >= d.cyls, e.heads = d.heads, e.layouts = {l}
    PROVE  Found(d, e)
  <1>1. d.heads \in 1..2 /\ d.cyls \in 1..256 /\ e.cyls \in 0..256
    BY DEF Shapes, Whole
  <1>2. e.cyls > 0
    BY <1>1
  <1>3. GetInfo(e) = [cyls |-> e.cyls, heads |-> d.heads, secs |-> l.last + 1 - l.first,
                      first |-> l.first, code |-> l.code, density |-> "one"]
    BY <1>1, <1>2, InfoOfOne
  <1>4. /\ l.last + 1 - l.first \in Nat /\ l.first \in Nat /\ l.code \in -1..3
        /\ d.heads \in Nat /\ e.cyls \in Nat
    <2>1. l.first \in 0..255 /\ l.last \in 0..320 /\ l.code \in 0..3
      BY DEF TrackLayouts
    <2>2. \A x \in 0..255, y \in 0..320 : x < y => y + 1 - x \in Nat
      OBVIOUS
    <2>3. l.last + 1 - l.first \in Nat
      BY <2>1, <2>2, ZenonT(60)
    <2> QED
      BY <1>1, <2>1, <2>3
  <1>5. GetInfo(e) # NoImage
    BY <1>3, <1>4, FormatsAssumption DEF Infos
  <1>6. GetInfo(e).cyls = e.cyls /\ GetInfo(d).cyls = d.cyls
    BY <1>3 DEF Tells
  <1>7. GetInfo(e) = [GetInfo(d) EXCEPT !.cyls = e.cyls]
    BY <1>3 DEF Tells
  <1> QED
    BY <1>5, <1>6, <1>7 DEF Found

LEMMA JvcReloaded ==
    ASSUME NEW d \in Shapes, Whole(d), Os9Kept(d, auto), d.type = "jvc", d.cyls > 0,
           auto \in BOOLEAN, ~Unsayable(d),
           NEW f, NEW lo \in 0..255, NEW hi \in 0..320, NEW code \in 0..3,
           JvcFile(d, f, lo, hi, code), Header(d, f, lo, hi, code),
           NEW e, e = LoadedJvc(f)
    PROVE  Found(d, e)
  <1>1. /\ f.bytes \in Nat /\ f.lsn0 \in FileSystems \union {NoFs}
        /\ hi + 1 - lo \in Nat /\ d.heads \in 1..2 /\ d.cyls \in 1..256
        /\ d.cyls * (d.heads * hi) \in Nat
    BY JvcTyped
  <1> DEFINE std == StandardDiskSize(d.cyls)
             ns == hi + 1 - lo
  <1>2. std \in Nat /\ d.cyls <= std /\ std <= 256 /\ (std > 83 => std = d.cyls)
    BY <1>1, StandardIs
  <1>3. ~(d.heads = 1 /\ d.cyls >= 88)
    BY DEF Unsayable
  <1>4. lo < hi
    BY DEF JvcFile
  <1>5. ns \in 1..64
    <2>1. PICK l \in d.layouts, m \in d.layouts : l.last = hi /\ m.first = lo
      BY DEF JvcFile, Spans
    <2>2. ~(l.last - m.first >= 64)
      BY DEF Unsayable
    <2>3. ~(hi - lo >= 64)
      BY <2>1, <2>2
    <2>4. \A x \in 0..255, y \in 0..320 : x < y /\ ~(y - x >= 64) => y + 1 - x \in 1..64
      OBVIOUS
    <2>5. lo \in 0..255 /\ hi \in 0..320
      OBVIOUS
    <2> QED
      BY <1>4, <2>3, <2>4, <2>5, Zenon
  <1> HIDE DEF std
  <1>6. \E q \in Nat, b \in BOOLEAN :
          /\ q >= d.cyls /\ q <= 256
          /\ e = Formatted("jvc", q, d.heads, TrackOf(ns, code, lo), f.lsn0, b)
    <2>1. CASE IsOs9(f)
      <3>1. AllSaid(d, f, lo, hi, code)
        BY <2>1, ReadAsOs9
      <3> DEFINE nh == d.lsn0.sides
      <3>2. lo = 1 /\ code = 1 /\ ns = hi
        BY <3>1 DEF AllSaid
      <3>3. nh \in 1..2
        BY <3>1 DEF AllSaid, FileSystems
      <3>4. e = Divided(f, ns, nh, code, lo, TRUE)
        BY <3>1, <3>2 DEF AllSaid
      <3> HIDE DEF ns, nh
      <3>5. Division(f, ns, nh, code, lo, TRUE)
        BY <1>1, <1>5, <3>3, DividedIs
      <3>6. PICK q \in Nat, h \in 1..2 :
              e = Formatted("jvc", q, h, TrackOf(ns, code, lo), f.lsn0, TRUE)
              /\ RoomFor(f.bytes, Size(code), nh, ns, q, h)
        BY <3>4, <3>5 DEF Division
      <3>7. f.bytes = (d.cyls * (d.heads * ns)) * Size(code)
        BY <3>1, <3>2 DEF AllSaid
      <3>8. \A a \in Nat : d.cyls * (d.heads * ns) = a * (nh * ns) =>
             IF nh = 1 /\ a >= 88 THEN h = 2 /\ \A c \in Nat : a = 2 * c => q = c
             ELSE q = a /\ h = nh
        <4> DEFINE k == d.cyls * (d.heads * ns)
        <4>1. k \in Nat
          BY <1>1, <3>2
        <4> HIDE DEF k
        <4>2. f.bytes = k * Size(code)
          BY <3>7 DEF k
        <4>3. \A a \in Nat : k = a * (nh * ns) =>
               IF nh = 1 /\ a >= 88 THEN h = 2 /\ \A c \in Nat : a = 2 * c => q = c
               ELSE q = a /\ h = nh
          BY <3>6, <4>1, <4>2 DEF RoomFor
        <4> QED
          BY <4>3 DEF k
      <3>9. q = d.cyls /\ h = d.heads
        <4>1. CASE nh = d.heads
          <5>1. d.cyls \in Nat /\ d.cyls * (d.heads * ns) = d.cyls * (nh * ns)
            BY <1>1, <4>1
          <5> QED
            BY <1>3, <3>8, <4>1, <5>1
        <4>2. CASE d.heads = 2 /\ nh = 1 /\ d.cyls >= 44
          <5>1. 2 * d.cyls \in Nat /\ 2 * d.cyls >= 88 /\ d.cyls \in Nat
            BY <1>1, <4>2
          <5>2. d.cyls * (d.heads * ns) = (2 * d.cyls) * (nh * ns)
            BY <1>1, <1>5, <4>2
          <5> QED
            BY <3>8, <4>2, <5>1, <5>2
        <4> QED
          BY <3>1, <4>1, <4>2 DEF AllSaid, nh
      <3>10. e = Formatted("jvc", q, d.heads, TrackOf(ns, code, lo), f.lsn0, TRUE)
        BY <3>6, <3>9
      <3>11. q >= d.cyls /\ q <= 256 /\ TRUE \in BOOLEAN
        BY <1>1, <3>9
      <3> QED
        BY <3>10, <3>11
    <2>2. CASE ~IsOs9(f) /\ ~d.headerless_os9
      <3>1. e = Divided(f, ns, d.heads, code, lo, FALSE)
        BY <2>2, ReadByHeader, ZenonT(60)
      <3> HIDE DEF ns
      <3>2. Division(f, ns, d.heads, code, lo, FALSE)
        BY <1>1, <1>5, DividedIs
      <3>3. PICK q \in Nat, h \in 1..2 :
              e = Formatted("jvc", q, h, TrackOf(ns, code, lo), f.lsn0, FALSE)
              /\ RoomFor(f.bytes, Size(code), d.heads, ns, q, h)
        BY <3>1, <3>2 DEF Division
      <3>4. f.bytes = (std * (d.heads * ns)) * Size(code)
        BY DEF JvcFile, std, ns
      <3>5. q = std /\ h = d.heads
        <4> DEFINE k == std * (d.heads * ns)
        <4>1. k \in Nat
          BY <1>1, <1>2, <1>5
        <4> HIDE DEF k
        <4>2. f.bytes = k * Size(code)
          BY <3>4 DEF k
        <4>3. \A a \in Nat : k = a * (d.heads * ns) =>
               IF d.heads = 1 /\ a >= 88 THEN h = 2 /\ \A c \in Nat : a = 2 * c => q = c
               ELSE q = a /\ h = d.heads
          BY <3>3, <4>1, <4>2 DEF RoomFor
        <4>4. IF d.heads = 1 /\ std >= 88 THEN h = 2 /\ \A c \in Nat : std = 2 * c => q = c
              ELSE q = std /\ h = d.heads
          BY <1>2, <4>3 DEF k
        <4>5. ~(d.heads = 1 /\ std >= 88)
          BY <1>1, <1>2, <1>3
        <4> QED
          BY <4>4, <4>5
      <3> QED
        BY <1>2, <3>3, <3>5
    <2>3. CASE d.headerless_os9 /\ ~IsOs9(f)
      <3>1. /\ ~d.remade /\ std = d.cyls /\ ~(d.lsn0.tot < d.cyls * d.heads * d.lsn0.tks)
        BY <2>3 DEF Unsayable, std
      <3>2. auto /\ d.lsn0 # NoFs /\ d.layouts = {TrackOf(d.lsn0.tks, 1, 1)}
        BY <2>3, <3>1 DEF Os9Kept
      <3>3. d.lsn0 \in FileSystems
        BY <3>2 DEF Shapes
      <3>4. d.lsn0.tot \in Nat /\ d.lsn0.tks \in Nat /\ d.lsn0.tks > 0
        BY <3>3 DEF FileSystems
      <3> DEFINE t == TrackOf(d.lsn0.tks, 1, 1)
      <3>5. t.first = 1 /\ t.last = d.lsn0.tks /\ t.code = 1
        BY <3>4 DEF TrackOf
      <3> HIDE DEF t
      <3>6. /\ \A l \in d.layouts : l.code = code
            /\ \E l \in d.layouts : l.first = lo
            /\ \E l \in d.layouts : l.last = hi
        BY DEF JvcFile, Spans
      <3>7. lo = 1 /\ hi = d.lsn0.tks /\ code = 1
        BY <3>2, <3>5, <3>6 DEF t
      <3>8. f.lsn0 = d.lsn0 /\ f.head = <<>>
        BY <2>3, <3>7 DEF JvcFile, Header
      <3>9. f.bytes = (d.cyls * (d.heads * d.lsn0.tks)) * 256
        <4>1. hi + 1 - lo = d.lsn0.tks
          BY <3>4, <3>7
        <4>2. Size(code) = 256
          BY <3>7, SizeIs
        <4> QED
          BY <3>1, <4>1, <4>2 DEF JvcFile, std
      <3> DEFINE k == d.cyls * (d.heads * d.lsn0.tks)
      <3>10. k \in Nat /\ d.cyls * d.heads * d.lsn0.tks = k
        <4>1. \A a, b, c \in Nat : a * (b * c) \in Nat /\ a * b * c = a * (b * c)
          OBVIOUS
        <4>2. d.cyls \in Nat /\ d.heads \in Nat
          BY <1>1
        <4> QED
          BY <3>4, <4>1, <4>2, ZenonT(60)
      <3> HIDE DEF k
      <3>11. f.lsn0.tot * 256 >= f.bytes
        <4>1. f.bytes = k * 256
          BY <3>9 DEF k
        <4>2. d.lsn0.tot >= k
          BY <3>1, <3>4, <3>10
        <4> QED
          BY <3>4, <3>8, <3>10, <4>1, <4>2
      <3> QED
        BY <2>3, <3>2, <3>4, <3>8, <3>11 DEF IsOs9
    <2> QED
      BY <2>1, <2>2, <2>3
  <1>7. PICK q \in Nat, b \in BOOLEAN :
          /\ q >= d.cyls /\ q <= 256
          /\ e = Formatted("jvc", q, d.heads, TrackOf(ns, code, lo), f.lsn0, b)
    BY <1>6
  <1> DEFINE l == TrackOf(ns, code, lo)
  <1>8. l \in TrackLayouts /\ l.first = lo /\ l.last = hi /\ l.code = code
    <2>1. l \in TrackLayouts
      BY <1>5, TracksOf
    <2>2. lo + ns - 1 = hi
      BY <1>1
    <2> QED
      BY <2>1, <2>2 DEF TrackOf
  <1>9. "jvc" \in {"vdk", "jvc", "dmk"}
    OBVIOUS
  <1>10. Tells(d, lo, hi, code)
    BY DEF JvcFile, Tells
  <1>11. e = Formatted("jvc", q, d.heads, l, f.lsn0, b)
    BY <1>7
  <1> HIDE DEF l, ns
  <1>12. FormattedAs(e, "jvc", q, d.heads, l, f.lsn0, b)
    <2>1. d.heads \in Nat /\ d.heads <= 2 /\ (q > 0 => d.heads > 0)
      BY <1>1
    <2> QED
      BY <1>1, <1>7, <1>8, <1>9, <1>11, <2>1, FormattedIs, ZenonT(60)
  <1>13. /\ e \in Shapes /\ e # NoImage /\ e.cyls >= d.cyls /\ e.heads = d.heads
         /\ e.layouts = {l}
    BY <1>1, <1>7, <1>12 DEF FormattedAs
  <1>14. l.first < l.last /\ Tells(d, l.first, l.last, l.code)
    BY <1>4, <1>8, <1>10
  <1> QED
    BY <1>8, <1>13, <1>14, FoundIn, SMTT(30)

-----------------------------------------------------------------------------
(* VDK and DMK files, and a JVC of no cylinders *)

LEMMA SavedVdkIs ==
    ASSUME NEW d \in Shapes, NEW f, f = SavedVdk(d), f # NoImage
    PROVE  /\ d.cyls > 0 /\ f.type = "vdk"
           /\ f.head = <<d.cyls % 256, d.heads>> /\ f.lsn0 \in FileSystems \union {NoFs}
           /\ \E lo \in 0..255, hi \in 0..320, code \in 0..3 :
                 /\ lo < hi /\ hi + 1 - lo = 18 /\ code = 1
                 /\ Spans(d, lo, hi) /\ Tells(d, lo, hi, code)
  <1> DEFINE i == GetInfo(d)
  <1>1. i # NoImage /\ i.density # "mixed" /\ i.code = 1 /\ i.secs = 18
    BY DEF SavedVdk
  <1>2. f = ImageFile("vdk", <<i.cyls % 256, i.heads>>,
                      StandardDiskSize(i.cyls) * i.heads * 18 * 256, FirstSays(d, i))
    BY <1>1 DEF SavedVdk
  <1>3. d.cyls \in 0..256 /\ d.heads \in 0..2 /\ d.lsn0 \in FileSystems \union {NoFs}
    BY DEF Shapes
  <1>4. d.cyls > 0
    <2> SUFFICES ASSUME d.cyls = 0 PROVE FALSE
      BY <1>3
    <2>1. i.secs = 0
      BY SMTT(30) DEF GetInfo
    <2> QED
      BY <1>1, <2>1
  <1> HIDE DEF i
  <1>5. /\ i.code \in -1..3
        /\ i.code # -1 => \A l \in d.layouts : l.code = i.code
        /\ \E lo \in 0..255, hi \in 0..320 :
              /\ Spans(d, lo, hi) /\ lo < hi
              /\ i = [cyls |-> d.cyls, heads |-> d.heads, secs |-> hi + 1 - lo, first |-> lo,
                      code |-> i.code, density |-> i.density]
        /\ i.density \in {"mixed", "one"}
    BY <1>1, <1>4, InfoIs, ZenonT(60) DEF i
  <1>6. PICK lo \in 0..255, hi \in 0..320 :
              /\ Spans(d, lo, hi) /\ lo < hi
              /\ i = [cyls |-> d.cyls, heads |-> d.heads, secs |-> hi + 1 - lo, first |-> lo,
                      code |-> i.code, density |-> i.density]
    BY <1>5
  <1>7. PICK code \in 0..3 : code = 1
    OBVIOUS
  <1>8. i.density = "one" /\ i.code = code
    BY <1>1, <1>5, <1>7
  <1>9. i = [cyls |-> d.cyls, heads |-> d.heads, secs |-> hi + 1 - lo, first |-> lo,
             code |-> code, density |-> "one"]
    BY <1>6, <1>8
  <1>10. i.cyls = d.cyls /\ i.heads = d.heads /\ hi + 1 - lo = 18
    BY <1>1, <1>9
  <1>11. Tells(d, lo, hi, code)
    BY <1>9 DEF Tells, i
  <1>12. f.type = "vdk" /\ f.head = <<d.cyls % 256, d.heads>> /\ f.lsn0 = FirstSays(d, i)
    <2> DEFINE x == <<i.cyls % 256, i.heads>>
               y == StandardDiskSize(i.cyls) * i.heads * 18 * 256
               w == FirstSays(d, i)
    <2>1. x = <<d.cyls % 256, d.heads>>
      BY <1>10
    <2> HIDE DEF x, y, w
    <2>2. f = ImageFile("vdk", x, y, w)
      BY <1>2 DEF x, y, w
    <2>3. f.type = "vdk" /\ f.head = x /\ f.lsn0 = w
      BY <2>2 DEF ImageFile
    <2> QED
      BY <2>1, <2>3 DEF w
  <1>13. f.lsn0 \in FileSystems \union {NoFs}
    BY <1>3, <1>12 DEF FirstSays
  <1> QED
    BY <1>4, <1>6, <1>7, <1>10, <1>11, <1>12, <1>13

LEMMA VdkAgain ==
    ASSUME NEW d \in Shapes, Whole(d), d.type = "vdk", NEW f, f = SavedVdk(d), f # NoImage,
           NEW e, e = LoadedVdk(f)
    PROVE  /\ e # NoImage => e \in Shapes /\ Whole(e) /\ Os9Kept(e, auto)
           /\ ~Unsayable(d) => Found(d, e)
  <1> DEFINE l == [first |-> 1, last |-> 18, code |-> 1, dden |-> TRUE]
             c == d.cyls % 256
  <1>1. /\ d.cyls > 0 /\ f.head = <<c, d.heads>> /\ f.lsn0 \in FileSystems \union {NoFs}
        /\ \E lo \in 0..255, hi \in 0..320, code \in 0..3 :
                 /\ lo < hi /\ hi + 1 - lo = 18 /\ code = 1
                 /\ Spans(d, lo, hi) /\ Tells(d, lo, hi, code)
    BY SavedVdkIs
  <1>2. l \in TrackLayouts /\ l.first = 1 /\ l.last = 18 /\ l.code = 1
    BY DEF TrackLayouts
  <1>3. d.cyls \in 1..256 /\ d.heads \in 1..2
    BY <1>1 DEF Shapes, Whole
  <1>4. c \in 0..255 /\ (d.cyls # 256 => c = d.cyls)
    BY <1>3
  <1> HIDE DEF c
  <1>5. e = Formatted("vdk", c, d.heads, l, f.lsn0, FALSE)
    BY <1>1 DEF LoadedVdk
  <1> HIDE DEF l
  <1>6. FormattedAs(e, "vdk", c, d.heads, l, f.lsn0, FALSE)
    <2>1. d.heads \in Nat /\ d.heads <= 2 /\ (c > 0 => d.heads > 0) /\ c \in Nat /\ c <= 256
      BY <1>3, <1>4
    <2>2. "vdk" \in {"vdk", "jvc", "dmk"} /\ FALSE \in BOOLEAN
      OBVIOUS
    <2> QED
      BY <1>1, <1>2, <1>5, <2>1, <2>2, FormattedIs
  <1>7. e \in Shapes /\ Whole(e) /\ e # NoImage /\ e.type = "vdk" /\ ~e.headerless_os9
    BY <1>6 DEF FormattedAs
  <1>8. Os9Kept(e, auto)
    BY <1>7 DEF Os9Kept
  <1>9. ASSUME ~Unsayable(d) PROVE Found(d, e)
    <2>1. (\A x \in d.layouts : x.first = 1) /\ d.cyls # 256
      BY <1>9 DEF Unsayable
    <2>2. PICK lo \in 0..255, hi \in 0..320, code \in 0..3 :
                 /\ lo < hi /\ hi + 1 - lo = 18 /\ code = 1
                 /\ Spans(d, lo, hi) /\ Tells(d, lo, hi, code)
      BY <1>1
    <2>3. lo = 1
      BY <2>1, <2>2 DEF Spans
    <2>4. hi = 18
      BY <2>2, <2>3
    <2>5. e.cyls >= d.cyls /\ e.heads = d.heads /\ e.layouts = {l}
      BY <1>3, <1>4, <1>6, <2>1 DEF FormattedAs
    <2>6. l.first < l.last /\ Tells(d, l.first, l.last, l.code)
      BY <1>2, <2>2, <2>3, <2>4
    <2>7. l \in TrackLayouts /\ e \in Shapes /\ e # NoImage /\ d.cyls > 0
      BY <1>1, <1>2, <1>7
    <2> QED
      BY <2>5, <2>6, <2>7, FoundIn
  <1> QED
    BY <1>7, <1>8, <1>9

LEMMA DmkAgain ==
    ASSUME NEW d \in Shapes, Whole(d), d.type = "dmk", NEW f, f = SavedDmk(d),
           NEW e, e = LoadedDmk(f)
    PROVE  /\ e \in Shapes /\ Whole(e) /\ Os9Kept(e, auto) /\ e # NoImage
           /\ ~Unsayable(d) => e.cyls = d.cyls /\ e.heads = d.heads /\ e.layouts = d.layouts
  <1> DEFINE c == d.cyls % 256
             any == CHOOSE l \in Layouts : TRUE
  <1>1. d.cyls \in 0..256 /\ d.heads \in 0..2 /\ d.layouts \in SUBSET TrackLayouts
        /\ d.lsn0 \in FileSystems \union {NoFs}
    BY DEF Shapes
  <1>2. c \in 0..255 /\ (d.cyls # 256 => c = d.cyls) /\ (d.cyls = 0 => c = 0)
    BY <1>1
  <1> HIDE DEF c, any
  <1>3. f.head[1] = c /\ f.head[2] = d.heads /\ f.lsn0 = d.lsn0 /\ f.tracks = d.layouts
    BY DEF SavedDmk, c
  <1>4. e = [Formatted("dmk", c, d.heads, any, d.lsn0, FALSE)
               EXCEPT !.layouts = IF c = 0 THEN {} ELSE d.layouts]
    BY <1>3 DEF LoadedDmk, any
  <1>5. Formatted("dmk", c, d.heads, any, d.lsn0, FALSE)
          = [type |-> "dmk", cyls |-> c, heads |-> IF c = 0 THEN 0 ELSE d.heads,
             layouts |-> IF c = 0 \/ d.heads = 0 THEN {} ELSE {any},
             lsn0 |-> d.lsn0, headerless_os9 |-> FALSE, remade |-> FALSE]
    <2>1. ~(c > 256 \/ d.heads > 2)
      BY <1>1, <1>2
    <2> QED
      BY <2>1 DEF Formatted
  <1>6. e = [type |-> "dmk", cyls |-> c, heads |-> IF c = 0 THEN 0 ELSE d.heads,
             layouts |-> IF c = 0 THEN {} ELSE d.layouts,
             lsn0 |-> d.lsn0, headerless_os9 |-> FALSE, remade |-> FALSE]
    <2> DEFINE blank == Formatted("dmk", c, d.heads, any, d.lsn0, FALSE)
               heads == IF c = 0 THEN 0 ELSE d.heads
               none == IF c = 0 \/ d.heads = 0 THEN {} ELSE {any}
               layouts == IF c = 0 THEN {} ELSE d.layouts
    <2>1. e = [blank EXCEPT !.layouts = layouts]
      BY <1>4
    <2>2. blank = [type |-> "dmk", cyls |-> c, heads |-> heads, layouts |-> none,
                   lsn0 |-> d.lsn0, headerless_os9 |-> FALSE, remade |-> FALSE]
      BY <1>5
    <2> HIDE DEF blank, heads, none, layouts
    <2>3. e = [type |-> "dmk", cyls |-> c, heads |-> heads, layouts |-> layouts,
               lsn0 |-> d.lsn0, headerless_os9 |-> FALSE, remade |-> FALSE]
      BY <2>1, <2>2
    <2> QED
      BY <2>3 DEF heads, layouts
  <1>7. e \in Shapes
    <2>1. (IF c = 0 THEN 0 ELSE d.heads) \in 0..2
          /\ (IF c = 0 THEN {} ELSE d.layouts) \in SUBSET TrackLayouts
      BY <1>1
    <2>2. c \in 0..256
      BY <1>2
    <2> QED
      BY <1>1, <1>6, <2>1, <2>2 DEF Shapes
  <1>8. e.type = "dmk" /\ e.cyls = c /\ ~e.headerless_os9
        /\ (c = 0 => e.heads = 0 /\ e.layouts = {})
        /\ (c # 0 => e.heads = d.heads /\ e.layouts = d.layouts)
    BY <1>6
  <1>9. Whole(e)
    BY <1>1, <1>2, <1>8 DEF Whole
  <1>10. Os9Kept(e, auto)
    BY <1>8 DEF Os9Kept
  <1>11. ASSUME ~Unsayable(d) PROVE e.cyls = d.cyls /\ e.heads = d.heads /\ e.layouts = d.layouts
    <2>1. d.cyls # 256
      BY <1>11 DEF Unsayable
    <2> QED
      BY <1>1, <1>2, <1>8, <2>1 DEF Whole
  <1> QED
    BY <1>7, <1>9, <1>10, <1>11, FormatsAssumption

LEMMA ReadWithout ==
    ASSUME NEW f, f.bytes \in Nat, f.lsn0 \in FileSystems \union {NoFs},
           NEW e, e = Divided(f, 18, 1, 1, 1, FALSE), e # NoImage
    PROVE  ReadAs(e, f, 18, 1, 1, 1, FALSE)
  <1>1. PICK one \in 0..3, ns \in 1..64 : one = 1 /\ ns = 18
    OBVIOUS
  <1>2. e = Divided(f, ns, one, one, one, FALSE) /\ one \in 0..255 /\ one \in 0..2 /\ ns \in Nat
    BY <1>1
  <1>3. FALSE \in BOOLEAN
    OBVIOUS
  <1>4. ReadAs(e, f, ns, one, one, one, FALSE)
    BY <1>2, <1>3, LoadedJvcTyped
  <1> QED
    BY <1>1, <1>4

LEMMA EmptyJvcAgain ==
    ASSUME NEW d \in Shapes, d.cyls = 0, NEW f, f = SavedJvc(d), f # NoImage,
           NEW e, e = LoadedJvc(f), e # NoImage
    PROVE  e \in Shapes /\ Whole(e) /\ Os9Kept(e, auto)
  <1> DEFINE i == GetInfo(d)
             n == IF d.headerless_os9 THEN 0 ELSE JvcHeader(i)
  <1>1. i = [cyls |-> 0, heads |-> 0, secs |-> 0, first |-> 0, code |-> 0,
             density |-> "unknown"]
    BY DEF GetInfo
  <1>2. i.cyls = 0 /\ i.heads = 0 /\ i.secs = 0 /\ i.first = 0 /\ i.code = 0
    BY <1>1
  <1> HIDE DEF i
  <1>3. i # NoImage
    BY DEF SavedJvc, i
  <1>4. f = ImageFile("jvc", SubSeq(<<i.secs, i.heads, i.code, i.first>>, 1, n),
                      StandardDiskSize(i.cyls) * i.heads * i.secs * Size(i.code),
                      FirstSays(d, i))
    <2>1. i.density = "unknown"
      BY <1>1
    <2>2. i.code # -1
      BY <1>2
    <2> QED
      BY <1>3, <2>1, <2>2 DEF SavedJvc, i
  <1>5. n = (IF d.headerless_os9 THEN 0 ELSE 4)
    BY <1>2 DEF JvcHeader
  <1> HIDE DEF n
  <1> DEFINE head == SubSeq(<<0, 0, 0, 0>>, 1, n)
  <1>6. f.head = head /\ f.bytes = 0 /\ f.lsn0 = NoFs
    <2> DEFINE y == StandardDiskSize(i.cyls) * i.heads * i.secs * Size(i.code)
               w == FirstSays(d, i)
    <2>1. f = ImageFile("jvc", head, y, w)
      BY <1>2, <1>4
    <2>2. w = NoFs
      BY <1>2 DEF FirstSays
    <2>3. y = 0
      <3>1. StandardDiskSize(0) \in Nat /\ Size(0) \in Nat
        <4>1. 0 \in 0..256 /\ 0 \in 0..3
          OBVIOUS
        <4> QED
          BY <4>1, StandardIs, SizeIs
      <3> QED
        BY <1>2, <3>1
    <2> HIDE DEF y, w, head
    <2> QED
      BY <2>1, <2>2, <2>3 DEF ImageFile
  <1>7. ~IsOs9(f)
    BY <1>6 DEF IsOs9
  <1>8. n \in 0..4
    BY <1>5
  <1>9. Len(head) = n /\ (1 <= n => head[1] = 0) /\ (2 <= n => head[2] = 0)
        /\ (3 <= n => head[3] = 0)
    BY <1>8, HeaderIs
  <1> DEFINE a == IF Len(f.head) >= 1 THEN f.head[1] ELSE 18
             b == IF Len(f.head) >= 2 THEN f.head[2] ELSE 1
             c == IF Len(f.head) >= 3 THEN f.head[3] ELSE 1
             g == IF Len(f.head) >= 4 THEN f.head[4] ELSE 1
  <1>10. e = Divided(f, a, b, c % 4, g, FALSE)
    BY <1>7 DEF LoadedJvc
  <1> HIDE DEF head
  <1>11. d.headerless_os9
    <2> SUFFICES ASSUME ~d.headerless_os9 PROVE FALSE
      OBVIOUS
    <2>1. a = 0 /\ b = 0 /\ c = 0
      BY <1>5, <1>6, <1>9
    <2> HIDE DEF a, b, c, g
    <2>2. c % 4 = 0
      BY <2>1
    <2>3. e = Divided(f, 0, 0, 0, g, FALSE)
      BY <1>10, <2>1, <2>2
    <2>4. 0 * Size(0) * 0 = 0
      <3>1. PICK z \in 0..3 : z = 0
        OBVIOUS
      <3>2. Size(z) \in Nat
        BY SizeIs
      <3> QED
        BY <3>1, <3>2
    <2> QED
      BY <2>3, <2>4 DEF Divided
  <1>12. a = 18 /\ b = 1 /\ c = 1 /\ g = 1
    BY <1>5, <1>6, <1>9, <1>11
  <1> HIDE DEF a, b, c, g
  <1>13. e = Divided(f, 18, 1, 1, 1, FALSE)
    <2>1. 1 % 4 = 1
      OBVIOUS
    <2> QED
      BY <1>10, <1>12, <2>1
  <1>14. f.bytes \in Nat /\ f.lsn0 \in FileSystems \union {NoFs}
    BY <1>6
  <1>15. ReadAs(e, f, 18, 1, 1, 1, FALSE)
    BY <1>13, <1>14, ReadWithout
  <1>16. e \in Shapes /\ Whole(e) /\ e.lsn0 = NoFs /\ e.headerless_os9 = FALSE
    BY <1>6, <1>15 DEF ReadAs
  <1> QED
    BY <1>16 DEF Os9Kept

-----------------------------------------------------------------------------
(* What the machine does to a disk *)

LEMMA ShapeIs ==
    ASSUME NEW type \in {"vdk", "jvc", "dmk"}, NEW cyls \in 0..256, NEW heads \in 0..2,
           NEW layouts \in SUBSET TrackLayouts, NEW lsn0 \in FileSystems \union {NoFs},
           NEW os9 \in BOOLEAN, NEW remade \in BOOLEAN
    PROVE  [type |-> type, cyls |-> cyls, heads |-> heads, layouts |-> layouts, lsn0 |-> lsn0,
            headerless_os9 |-> os9, remade |-> remade] \in Shapes
  BY DEF Shapes

LEMMA WiderIs ==
    ASSUME NEW n \in Nat, NEW x \in 0..n, NEW y \in 1..n
    PROVE  Wider(x, y) \in 1..n /\ y <= Wider(x, y)
  <1>1. CASE x > y
    BY <1>1 DEF Wider
  <1>2. CASE ~(x > y)
    BY <1>2 DEF Wider
  <1> QED
    BY <1>1, <1>2

\* A disk formatted with l has no more sectors than it has room for.
LEMMA FormatKeeps ==
    ASSUME NEW d \in Shapes, Whole(d), NEW os9 \in BOOLEAN, Os9Kept(d, os9),
           NEW l \in Layouts, NEW cyls \in CylCounts, cyls > 0, NEW heads \in 1..2,
           NEW lsn0 \in Os9Of(l, cyls, heads), NEW layouts, layouts \in {{l}, d.layouts \union {l}},
           NEW e, e = [d EXCEPT !.layouts = layouts, !.cyls = Wider(@, cyls),
                                !.heads = Wider(@, heads), !.lsn0 = lsn0, !.remade = TRUE]
    PROVE  e \in Shapes /\ Whole(e) /\ Os9Kept(e, os9)
  <1> DEFINE c == Wider(d.cyls, cyls)
             h == Wider(d.heads, heads)
  <1>1. /\ d.cyls \in 0..256 /\ d.heads \in 0..2 /\ d.layouts \in SUBSET TrackLayouts
        /\ d.type \in {"vdk", "jvc", "dmk"} /\ d.headerless_os9 \in BOOLEAN
    BY DEF Shapes
  <1>2. cyls \in 1..256 /\ l \in TrackLayouts
    BY FormatsAssumption
  <1>3. l.first \in 0..255 /\ l.last \in 0..320
    BY <1>2 DEF TrackLayouts
  <1>4. c \in 1..256 /\ cyls <= c /\ h \in 1..2 /\ heads <= h
    <2>1. c \in 1..256 /\ cyls <= c
      <3>1. PICK n \in Nat : n = 256
        OBVIOUS
      <3>2. d.cyls \in 0..n /\ cyls \in 1..n
        BY <1>1, <1>2, <3>1
      <3>3. c \in 1..n /\ cyls <= c
        BY <3>2, WiderIs
      <3> QED
        BY <3>1, <3>3
    <2>2. h \in 1..2 /\ heads <= h
      BY <1>1, WiderIs
    <2> QED
      BY <2>1, <2>2
  <1>5. layouts \in SUBSET TrackLayouts /\ l \in layouts
    BY <1>1, <1>2
  <1>6. e.type = d.type /\ e.cyls = c /\ e.heads = h /\ e.layouts = layouts /\ e.lsn0 = lsn0
        /\ e.headerless_os9 = d.headerless_os9 /\ e.remade = TRUE
    BY DEF Shapes
  <1>7. lsn0 # NoFs =>
          /\ l.first = 1 /\ l.last \in Nat \ {0}
          /\ lsn0 = [tot |-> cyls * heads * l.last, tks |-> l.last, sides |-> heads]
    <2> SUFFICES ASSUME lsn0 # NoFs
                 PROVE  /\ l.first = 1 /\ l.last \in Nat \ {0}
                        /\ lsn0 = [tot |-> cyls * heads * l.last, tks |-> l.last, sides |-> heads]
      OBVIOUS
    <2>1. l.first = 1 /\ lsn0 = [tot |-> cyls * heads * l.last, tks |-> l.last, sides |-> heads]
      BY DEF Os9Of
    <2>2. l.last \in l.first..255
      BY FormatsAssumption
    <2> QED
      BY <2>1, <2>2
  <1> HIDE DEF c, h
  <1>8. lsn0 \in FileSystems \union {NoFs}
    <2> SUFFICES ASSUME lsn0 # NoFs PROVE lsn0 \in FileSystems
      OBVIOUS
    <2>1. cyls * heads * l.last \in Nat
      <3>1. \A x, y, z \in Nat : x * y * z \in Nat
        OBVIOUS
      <3>2. cyls \in Nat /\ heads \in Nat /\ l.last \in Nat
        BY <1>2, <1>3
      <3> QED
        BY <3>1, <3>2, Zenon
    <2> DEFINE tot == cyls * heads * l.last
    <2> HIDE DEF tot
    <2>2. tot \in Nat /\ lsn0 = [tot |-> tot, tks |-> l.last, sides |-> heads]
      BY <1>7, <2>1 DEF tot
    <2> QED
      BY <1>7, <2>2 DEF FileSystems
  <1>9. e \in Shapes
    <2>1. e = [type |-> d.type, cyls |-> c, heads |-> h, layouts |-> layouts, lsn0 |-> lsn0,
               headerless_os9 |-> d.headerless_os9, remade |-> TRUE]
      BY DEF Shapes, c, h
    <2>2. c \in 0..256 /\ h \in 0..2 /\ TRUE \in BOOLEAN
      BY <1>4
    <2>3. layouts \in SUBSET TrackLayouts
      BY <1>5
    <2>4. d.type \in {"vdk", "jvc", "dmk"} /\ d.headerless_os9 \in BOOLEAN
      BY <1>1
    <2> HIDE DEF c, h
    <2>5. PICK yes \in BOOLEAN : yes = TRUE
      OBVIOUS
    <2>6. PICK type \in {"vdk", "jvc", "dmk"} : type = d.type
      BY <2>4, Zenon
    <2>7. PICK headerless \in BOOLEAN : headerless = d.headerless_os9
      BY <2>4, Zenon
    <2>8. [type |-> type, cyls |-> c, heads |-> h, layouts |-> layouts, lsn0 |-> lsn0,
           headerless_os9 |-> headerless, remade |-> yes] \in Shapes
      BY <1>8, <2>2, <2>3, ShapeIs
    <2> QED
      BY <2>1, <2>5, <2>6, <2>7, <2>8
  <1>10. Whole(e)
    BY <1>4, <1>5, <1>6 DEF Whole
  <1>11. ASSUME lsn0 # NoFs PROVE Fits(e)
    <2> DEFINE S == {x.last : x \in layouts}
    <2>1. \A x \in layouts : x.last \in 0..320
      BY <1>5 DEF TrackLayouts
    <2>2. S \in SUBSET (0..320) /\ l.last \in S
      BY <1>5, <2>1
    <2>3. PICK top \in S : \A y \in S : y <= top
      <3> HIDE DEF S
      <3>1. 320 \in Nat
        OBVIOUS
      <3> QED
        BY <2>2, <3>1, GreatestIs, ZenonT(60)
    <2>5. (\A x \in layouts : x.last <= top) /\ (\E x \in layouts : x.last = top)
      BY <2>3
    <2> HIDE DEF S
    <2>4. top \in 1..320 /\ l.last <= top
      <3>1. top \in 0..320 /\ l.last <= top
        BY <2>2, <2>3
      <3>2. l.last \in Nat /\ l.last # 0
        BY <1>7, <1>11
      <3> QED
        BY <3>1, <3>2
    <2>6. lsn0.tot = cyls * (heads * l.last) /\ lsn0.tks = l.last /\ lsn0.sides = heads
      <3>1. \A x, y, z \in Nat : x * y * z = x * (y * z)
        OBVIOUS
      <3>2. cyls \in Nat /\ heads \in Nat /\ l.last \in Nat
        BY <1>2, <1>3
      <3>3. cyls * heads * l.last = cyls * (heads * l.last)
        BY <3>1, <3>2, Zenon
      <3> QED
        BY <1>7, <1>11, <3>3
    <2>7. /\ cyls * (heads * l.last) <= c * (h * top)
          /\ cyls * (heads * l.last) = c * (h * top) => cyls = c /\ heads = h /\ l.last = top
      <3>1. cyls \in Nat \ {0} /\ heads \in Nat \ {0} /\ l.last \in Nat \ {0}
        BY <1>2, <1>7, <1>11
      <3>2. c \in Nat /\ h \in Nat /\ top \in Nat /\ cyls <= c /\ heads <= h /\ l.last <= top
        BY <1>4, <2>4
      <3>3. PICK n \in Nat \ {0} : n = l.last
        BY <3>1
      <3>4. /\ cyls * (heads * n) <= c * (h * top)
            /\ cyls * (heads * n) = c * (h * top) => cyls = c /\ heads = h /\ n = top
        BY <3>1, <3>2, <3>3, AsManyOfThree, SMTT(30)
      <3> QED
        BY <3>3, <3>4
    <2>8. e.lsn0.tot <= e.cyls * (e.heads * top)
      BY <1>6, <2>6, <2>7
    <2>9. ASSUME e.lsn0.tot = e.cyls * (e.heads * top)
          PROVE  e.lsn0.tks = top /\ e.lsn0.sides = e.heads
      BY <1>6, <2>6, <2>7, <2>9
    <2> QED
      BY <1>6, <2>4, <2>5, <2>8, <2>9, ZenonT(60) DEF Fits
  <1>12. Os9Kept(e, os9)
    BY <1>6, <1>11 DEF Os9Kept
  <1> QED
    BY <1>9, <1>10, <1>12

\* A layout of the constants is that of a track.
LEMMA LayoutIs ==
    ASSUME NEW l \in Layouts
    PROVE  l \in TrackLayouts /\ l.first \in 0..255 /\ l.last \in 0..255 /\ l.first <= l.last
  <1>1. l \in TrackLayouts /\ l.last \in l.first..255
    BY FormatsAssumption
  <1>2. l.first \in 0..255
    BY <1>1 DEF TrackLayouts
  <1> QED
    BY <1>1, <1>2

\* What is formatted with l, or is now longer, has more room than before.
\* e is d with more cylinders, or with tracks formatted otherwise.
Grown(d, e) ==
    /\ d.cyls \in 1..256 /\ d.heads \in 1..2 /\ d.lsn0.tot \in Nat
    /\ \A l \in d.layouts : l.last \in 0..320
    /\ e.cyls \in 1..256 /\ d.cyls <= e.cyls /\ e.heads = d.heads /\ e.lsn0 = d.lsn0
    /\ \/ e.layouts = d.layouts
       \/ \E l \in TrackLayouts : e.layouts = d.layouts \union {l}

LEMMA WiderFits ==
    ASSUME NEW d, NEW e, Fits(d), Grown(d, e)
    PROVE  Fits(e)
  <1>0. /\ d.cyls \in 1..256 /\ d.heads \in 1..2 /\ d.lsn0.tot \in Nat
        /\ e.cyls \in 1..256 /\ d.cyls <= e.cyls /\ e.heads = d.heads /\ e.lsn0 = d.lsn0
    BY SMTT(30) DEF Grown
  <1>1. PICK top \in 1..320 :
          /\ \A l \in d.layouts : l.last <= top
          /\ \E l \in d.layouts : l.last = top
          /\ d.lsn0.tot <= d.cyls * (d.heads * top)
          /\ d.lsn0.tot = d.cyls * (d.heads * top) =>
                /\ d.lsn0.tks = top
                /\ d.lsn0.sides = d.heads \/ (d.heads = 2 /\ d.lsn0.sides = 1 /\ d.cyls >= 44)
    BY DEF Fits
  <1>2. ASSUME NEW new \in 1..320, top <= new, \A l \in e.layouts : l.last <= new,
               \E l \in e.layouts : l.last = new
        PROVE  Fits(e)
    <2>1. /\ d.cyls * (d.heads * top) <= e.cyls * (e.heads * new)
          /\ d.cyls * (d.heads * top) = e.cyls * (e.heads * new) =>
               d.cyls = e.cyls /\ d.heads = e.heads /\ top = new
      <3>a. /\ d.cyls \in Nat \ {0} /\ d.heads \in Nat \ {0} /\ top \in Nat \ {0}
            /\ e.cyls \in Nat /\ e.heads \in Nat /\ new \in Nat
        BY <1>0
      <3>1. PICK c \in Nat \ {0}, h \in Nat \ {0}, t \in Nat \ {0} :
              c = d.cyls /\ h = d.heads /\ t = top
        BY <3>a, Zenon
      <3>2. PICK x \in Nat, y \in Nat, w \in Nat : x = e.cyls /\ y = e.heads /\ w = new
        BY <3>a, Zenon
      <3>3. c <= x /\ h <= y /\ t <= w
        BY <1>0, <1>2, <3>1, <3>2
      <3>4. /\ c * (h * t) <= x * (y * w)
            /\ c * (h * t) = x * (y * w) => c = x /\ h = y /\ t = w
        BY <3>3, AsManyOfThree
      <3> QED
        BY <3>1, <3>2, <3>4
    <2> DEFINE was == d.cyls * (d.heads * top)
               is == e.cyls * (e.heads * new)
    <2>2. was \in Nat /\ is \in Nat
      <3>1. \A a, b, c \in Nat : a * (b * c) \in Nat
        OBVIOUS
      <3>2. d.cyls \in Nat /\ d.heads \in Nat /\ top \in Nat /\ e.cyls \in Nat /\ e.heads \in Nat
            /\ new \in Nat
        BY <1>0
      <3> QED
        BY <3>1, <3>2, Zenon
    <2>3. /\ was <= is /\ (was = is => d.cyls = e.cyls /\ top = new)
          /\ d.lsn0.tot <= was
          /\ d.lsn0.tot = was =>
                /\ d.lsn0.tks = top
                /\ d.lsn0.sides = d.heads \/ (d.heads = 2 /\ d.lsn0.sides = 1 /\ d.cyls >= 44)
      BY <1>1, <2>1
    <2> HIDE DEF was, is
    <2>4. e.lsn0.tot <= is
      BY <1>0, <2>2, <2>3
    <2>5. ASSUME e.lsn0.tot = is
          PROVE  /\ e.lsn0.tks = new
                 /\ e.lsn0.sides = e.heads \/ (e.heads = 2 /\ e.lsn0.sides = 1 /\ e.cyls >= 44)
      <3>1. was = is /\ d.lsn0.tot = was
        BY <1>0, <2>2, <2>3, <2>5, SMTT(30)
      <3> QED
        BY <1>0, <2>3, <3>1
    <2> QED
      BY <1>2, <2>4, <2>5 DEF Fits, is
  <1>3. CASE e.layouts = d.layouts
    BY <1>1, <1>2, <1>3
  <1>4. ASSUME NEW l \in TrackLayouts, e.layouts = d.layouts \union {l} PROVE Fits(e)
    <2>1. l.last \in 0..320
      BY DEF TrackLayouts
    <2>2. CASE l.last <= top
      BY <1>1, <1>2, <1>4, <2>2
    <2>3. CASE ~(l.last <= top)
      <3>1. l.last \in 1..320 /\ top <= l.last
        BY <2>1, <2>3
      <3>2. ASSUME NEW x \in d.layouts PROVE x.last <= l.last
        <4>1. x.last \in 0..320 /\ x.last <= top
          BY <1>1 DEF Grown
        <4>2. \A i, j, k \in 0..320 : i <= j /\ j <= k => i <= k
          OBVIOUS
        <4>3. l.last \in 0..320 /\ top \in 0..320
          BY <2>1
        <4> QED
          BY <3>1, <4>1, <4>2, <4>3, ZenonT(60)
      <3>3. l.last <= l.last
        BY <2>1
      <3> QED
        BY <1>2, <1>4, <3>1, <3>2, <3>3
    <2> QED
      BY <2>2, <2>3
  <1> QED
    BY <1>3, <1>4 DEF Grown

LEMMA FormatRestKeeps ==
    ASSUME NEW d \in Shapes, Whole(d), NEW os9 \in BOOLEAN, Os9Kept(d, os9), d.cyls > 0,
           NEW l \in Layouts,
           NEW e, e = [d EXCEPT !.layouts = @ \union {l}, !.remade = TRUE]
    PROVE  e \in Shapes /\ Whole(e) /\ Os9Kept(e, os9)
  <1>1. /\ d.cyls \in 0..256 /\ d.heads \in 0..2 /\ d.layouts \in SUBSET TrackLayouts
        /\ d.lsn0 \in FileSystems \union {NoFs} /\ d.type \in {"vdk", "jvc", "dmk"}
        /\ d.headerless_os9 \in BOOLEAN
    BY DEF Shapes
  <1>2. l \in TrackLayouts /\ l.last \in 0..320
    BY LayoutIs
  <1>3. /\ e.type = d.type /\ e.cyls = d.cyls /\ e.heads = d.heads /\ e.lsn0 = d.lsn0
        /\ e.headerless_os9 = d.headerless_os9 /\ e.remade = TRUE
        /\ e.layouts = d.layouts \union {l}
    BY DEF Shapes
  <1>4. e \in Shapes
    <2>1. d.layouts \union {l} \in SUBSET TrackLayouts /\ TRUE \in BOOLEAN
      BY <1>1, <1>2
    <2> QED
      BY <2>1 DEF Shapes
  <1>5. Whole(e)
    BY <1>1, <1>3 DEF Whole
  <1>6. ASSUME os9, d.type = "jvc", d.lsn0 # NoFs PROVE Fits(e)
    <2>1. d.cyls \in 1..256 /\ d.heads \in 1..2
      BY <1>1 DEF Whole
    <2>2. Fits(d)
      BY <1>6 DEF Os9Kept
    <2>3. d.lsn0.tot \in Nat
      BY <1>1, <1>6 DEF FileSystems
    <2>4. \A x \in d.layouts : x.last \in 0..320
      BY <1>1 DEF TrackLayouts
    <2>5. e.cyls \in 1..256 /\ d.cyls <= e.cyls
      BY <1>3, <2>1
    <2>6. Grown(d, e)
      BY <1>2, <1>3, <2>1, <2>3, <2>4, <2>5 DEF Grown
    <2> QED
      BY <2>2, <2>6, WiderFits
  <1>7. Os9Kept(e, os9)
    BY <1>3, <1>6 DEF Os9Kept
  <1> QED
    BY <1>4, <1>5, <1>7

LEMMA ExtendKeeps ==
    ASSUME NEW d \in Shapes, Whole(d), NEW os9 \in BOOLEAN, Os9Kept(d, os9), d.cyls > 0,
           d.cyls + 1 \in CylCounts, NEW e, e = [d EXCEPT !.cyls = @ + 1, !.remade = TRUE]
    PROVE  e \in Shapes /\ Whole(e) /\ Os9Kept(e, os9)
  <1>1. /\ d.cyls \in 0..256 /\ d.heads \in 0..2 /\ d.layouts \in SUBSET TrackLayouts
        /\ d.lsn0 \in FileSystems \union {NoFs} /\ d.type \in {"vdk", "jvc", "dmk"}
        /\ d.headerless_os9 \in BOOLEAN
    BY DEF Shapes
  <1>2. d.cyls + 1 \in 1..256
    <2>1. d.cyls + 1 \in 0..256
      BY FormatsAssumption
    <2> QED
      BY <1>1, <2>1
  <1>3. /\ e.type = d.type /\ e.cyls = d.cyls + 1 /\ e.heads = d.heads /\ e.lsn0 = d.lsn0
        /\ e.headerless_os9 = d.headerless_os9 /\ e.remade = TRUE /\ e.layouts = d.layouts
    BY DEF Shapes
  <1>4. e \in Shapes
    <2>1. d.cyls + 1 \in 0..256 /\ TRUE \in BOOLEAN
      BY <1>2
    <2> QED
      BY <2>1, ZenonT(60) DEF Shapes
  <1>5. Whole(e)
    BY <1>1, <1>3 DEF Whole
  <1>6. ASSUME os9, d.type = "jvc", d.lsn0 # NoFs PROVE Fits(e)
    <2>1. d.cyls \in 1..256 /\ d.heads \in 1..2
      BY <1>1 DEF Whole
    <2>2. Fits(d)
      BY <1>6 DEF Os9Kept
    <2>3. d.lsn0.tot \in Nat
      BY <1>1, <1>6 DEF FileSystems
    <2>4. \A x \in d.layouts : x.last \in 0..320
      BY <1>1 DEF TrackLayouts
    <2>5. e.cyls \in 1..256 /\ d.cyls <= e.cyls
      BY <1>2, <1>3, <2>1
    <2>6. Grown(d, e)
      BY <1>3, <2>1, <2>3, <2>4, <2>5 DEF Grown
    <2> QED
      BY <2>2, <2>6, WiderFits
  <1>7. Os9Kept(e, os9)
    BY <1>3, <1>6 DEF Os9Kept
  <1> QED
    BY <1>4, <1>5, <1>7

-----------------------------------------------------------------------------
(* What a file from elsewhere is *)

\* A JVC without header is an OS-9 disk of its own geometry, or what 18 sectors make of it.
LEMMA ElsewhereKeeps ==
    ASSUME auto \in BOOLEAN, NEW l \in Layouts, NEW cyls \in CylCounts, NEW heads \in 1..2,
           NEW lsn0 \in Os9Of(l, cyls, heads), lsn0 # NoFs,
           NEW e, e = LoadedJvc(ImageFile("jvc", <<>>, cyls * heads * l.last * 256, lsn0)),
           e # NoImage
    PROVE  e \in Shapes /\ Whole(e) /\ Os9Kept(e, auto)
  <1> DEFINE f == ImageFile("jvc", <<>>, cyls * heads * l.last * 256, lsn0)
             ns == l.last
  <1>1. cyls \in 0..256 /\ l \in TrackLayouts /\ l.first \in 0..255 /\ ns \in 0..255 /\ l.first <= ns
    BY LayoutIs, FormatsAssumption
  <1>2. /\ l.first = 1
        /\ lsn0 = [tot |-> cyls * heads * ns, tks |-> ns, sides |-> heads]
    BY DEF Os9Of
  <1>3. ns \in 1..255
    BY <1>1, <1>2
  <1> DEFINE k == cyls * (heads * ns)
  <1>4. k \in Nat /\ cyls * heads * ns = k
    <2>1. \A x, y, z \in Nat : x * (y * z) \in Nat /\ x * y * z = x * (y * z)
      OBVIOUS
    <2> HIDE DEF ns
    <2>2. cyls \in Nat
      BY <1>1
    <2>3. heads \in Nat
      OBVIOUS
    <2>4. ns \in Nat
      BY <1>3
    <2> QED
      BY <2>1, <2>2, <2>3, <2>4, Zenon
  <1>5. lsn0.tot = k /\ lsn0.tks = ns /\ lsn0.sides = heads /\ lsn0 \in FileSystems
    <2> HIDE DEF k, ns
    <2>1. lsn0 = [tot |-> k, tks |-> ns, sides |-> heads]
      BY <1>2, <1>4
    <2>2. k \in Nat /\ ns \in Nat \ {0}
      BY <1>3, <1>4
    <2> QED
      BY <2>1, <2>2 DEF FileSystems
  <1>6. f.head = <<>> /\ f.bytes = k * 256 /\ f.lsn0 = lsn0
    <2> DEFINE b == cyls * heads * l.last * 256
    <2>1. b = k * 256
      BY <1>4
    <2> HIDE DEF b, k
    <2>2. f = ImageFile("jvc", <<>>, b, lsn0)
      BY DEF b
    <2>3. f.head = <<>> /\ f.bytes = b /\ f.lsn0 = lsn0
      BY <2>2 DEF ImageFile
    <2> QED
      BY <2>1, <2>3
  <1>7. e = LoadedJvc(f)
    OBVIOUS
  <1> HIDE DEF f, k, ns
  <1>8. f.bytes \in Nat /\ f.lsn0 \in FileSystems \union {NoFs}
    BY <1>4, <1>5, <1>6
  <1>9. IsOs9(f) <=> auto
    <2>1. f.lsn0.tot * 256 >= f.bytes /\ f.lsn0.tks > 0
      <3>1. k * 256 >= k * 256
        BY <1>4
      <3>2. f.lsn0.tot * 256 >= f.bytes
        BY <1>5, <1>6, <3>1
      <3>3. f.lsn0.tks > 0
        BY <1>3, <1>5, <1>6
      <3> QED
        BY <3>2, <3>3
    <2> QED
      BY <1>6, <2>1 DEF IsOs9
  <1>10. CASE auto
    <2>1. e = Divided(f, ns, heads, 1, 1, TRUE)
      BY <1>5, <1>6, <1>7, <1>9, <1>10, ZenonT(60) DEF LoadedJvc
    <2>2. PICK one \in 0..3 : one = 1
      OBVIOUS
    <2>3. e = Divided(f, ns, heads, one, one, TRUE) /\ one \in 0..255
      <3>1. e = Divided(f, ns, heads, one, one, TRUE)
        BY <2>1, <2>2, Zenon
      <3>2. one \in 0..255
        BY SMTT(30)
      <3> QED
        BY <3>1, <3>2
    <2>4. ReadAs(e, f, ns, heads, one, one, TRUE)
      <3>1. TRUE \in BOOLEAN
        OBVIOUS
      <3>2. ns \in Nat
        BY <1>3
      <3>3. heads \in 0..2
        OBVIOUS
      <3> QED
        BY <1>8, <2>3, <3>1, <3>2, <3>3, LoadedJvcTyped, ZenonT(60)
    <2>5. /\ e \in Shapes /\ Whole(e) /\ ns \in 1..64 /\ e.lsn0 = lsn0
          /\ e.cyls > 0 => e.layouts = {TrackOf(ns, 1, 1)}
      BY <1>6, <2>2, <2>4, SMTT(30) DEF ReadAs
    <2>6. ASSUME e.cyls > 0 PROVE Fits(e)
      <3>1. f.bytes = (cyls * (heads * ns)) * Size(1)
        <4>1. Size(1) = 256
          BY SizeIs
        <4> QED
          BY <1>6, <4>1 DEF k
      <3>2. /\ f.lsn0 \in FileSystems /\ f.lsn0.tot <= cyls * (heads * ns)
            /\ f.lsn0.tks = ns /\ f.lsn0.sides = heads
        BY <1>4, <1>5, <1>6 DEF k
      <3>3. cyls \in Nat
        BY <1>1
      <3>4. TRUE \in BOOLEAN
        OBVIOUS
      <3> QED
        BY <2>1, <2>5, <2>6, <3>1, <3>2, <3>3, <3>4, ReadFits, ZenonT(60)
    <2> QED
      BY <1>5, <1>10, <2>5, <2>6 DEF Os9Kept
  <1>11. CASE ~auto
    <2>1. e = Divided(f, 18, 1, 1, 1, FALSE)
      <3>1. Len(f.head) = 0
        BY <1>6
      <3>2. 1 % 4 = 1
        OBVIOUS
      <3> DEFINE n == Len(f.head)
      <3>3. ~(n >= 1) /\ ~(n >= 2) /\ ~(n >= 3) /\ ~(n >= 4)
        BY <3>1
      <3> QED
        BY <1>7, <1>9, <1>11, <3>2, <3>3 DEF LoadedJvc
    <2>2. ReadAs(e, f, 18, 1, 1, 1, FALSE)
      BY <1>8, <2>1, ReadWithout
    <2>3. e \in Shapes /\ Whole(e) /\ ~e.headerless_os9
      BY <2>2 DEF ReadAs
    <2> QED
      BY <1>11, <2>3 DEF Os9Kept
  <1> QED
    BY <1>10, <1>11

-----------------------------------------------------------------------------
(* The formats *)

\* The file has the disk in it, and the disk is one that can be had.
FormatsInv ==
    /\ shape \in Shapes /\ auto \in BOOLEAN
    /\ Whole(shape) /\ Os9Kept(shape, auto)
    /\ stored # NoImage => stored = SavedAs(shape)

LEMMA SavedType ==
    ASSUME NEW d \in Shapes
    PROVE  /\ d.type = "vdk" => SavedAs(d) = SavedVdk(d)
           /\ d.type = "jvc" => SavedAs(d) = SavedJvc(d)
           /\ d.type = "dmk" => SavedAs(d) = SavedDmk(d)
           /\ SavedAs(d) # NoImage => SavedAs(d).type = d.type
  <1>1. CASE d.type = "vdk"
    <2>1. SavedAs(d) = SavedVdk(d)
      BY <1>1 DEF SavedAs
    <2>2. SavedVdk(d) # NoImage => SavedVdk(d).type = "vdk"
      BY SavedVdkIs
    <2> QED
      BY <1>1, <2>1, <2>2
  <1>2. CASE d.type = "jvc"
    <2>1. SavedAs(d) = SavedJvc(d)
      BY <1>2 DEF SavedAs
    <2>2. ASSUME SavedJvc(d) # NoImage PROVE SavedJvc(d).type = "jvc"
      <3> DEFINE i == GetInfo(d)
                 full == <<i.secs, i.heads, i.code, i.first>>
                 x == SubSeq(full, 1, IF d.headerless_os9 THEN 0 ELSE JvcHeader(i))
                 y == StandardDiskSize(i.cyls) * i.heads * i.secs * Size(i.code)
                 w == FirstSays(d, i)
      <3>1. SavedJvc(d) = ImageFile("jvc", x, y, w)
        BY <2>2 DEF SavedJvc
      <3> HIDE DEF x, y, w
      <3> QED
        BY <3>1 DEF ImageFile
    <2> QED
      BY <1>2, <2>1, <2>2
  <1>3. CASE d.type = "dmk"
    <2>1. SavedAs(d) = SavedDmk(d)
      BY <1>3 DEF SavedAs
    <2>2. SavedDmk(d).type = "dmk"
      BY DEF SavedDmk
    <2> QED
      BY <1>3, <2>1, <2>2
  <1>4. d.type \in {"vdk", "jvc", "dmk"}
    BY DEF Shapes
  <1> QED
    BY <1>1, <1>2, <1>3, <1>4

LEMMA LoadedType ==
    ASSUME NEW f
    PROVE  /\ f.type = "vdk" => LoadedAs(f) = LoadedVdk(f)
           /\ f.type = "jvc" => LoadedAs(f) = LoadedJvc(f)
           /\ f.type = "dmk" => LoadedAs(f) = LoadedDmk(f)
  BY DEF LoadedAs

LEMMA LoadKeeps ==
    ASSUME FormatsInv, stored # NoImage, NEW e, e = LoadedAs(stored), e # NoImage
    PROVE  e \in Shapes /\ Whole(e) /\ Os9Kept(e, auto)
  <1>1. /\ shape \in Shapes /\ auto \in BOOLEAN /\ Whole(shape) /\ Os9Kept(shape, auto)
        /\ stored = SavedAs(shape)
    BY DEF FormatsInv
  <1>2. shape.type \in {"vdk", "jvc", "dmk"} /\ shape.cyls \in 0..256
    BY <1>1 DEF Shapes
  <1>3. stored.type = shape.type
    BY <1>1, SavedType
  <1>4. CASE shape.type = "vdk"
    <2>1. stored = SavedVdk(shape) /\ e = LoadedVdk(stored)
      BY <1>1, <1>3, <1>4, SavedType, LoadedType
    <2> QED
      BY <1>1, <1>4, <2>1, VdkAgain
  <1>5. CASE shape.type = "dmk"
    <2>1. stored = SavedDmk(shape) /\ e = LoadedDmk(stored)
      BY <1>1, <1>3, <1>5, SavedType, LoadedType
    <2> QED
      BY <1>1, <1>5, <2>1, DmkAgain
  <1>6. CASE shape.type = "jvc"
    <2>1. stored = SavedJvc(shape) /\ e = LoadedJvc(stored)
      BY <1>1, <1>3, <1>6, SavedType, LoadedType
    <2>2. CASE shape.cyls = 0
      BY <1>1, <2>1, <2>2, EmptyJvcAgain, SMTT(30)
    <2>3. CASE shape.cyls # 0
      <3>1. shape.cyls > 0
        BY <1>2, <2>3
      <3>2. PICK lo \in 0..255, hi \in 0..320, code \in 0..3 :
              JvcFile(shape, stored, lo, hi, code) /\ Header(shape, stored, lo, hi, code)
        BY <1>1, <2>1, <3>1, SavedJvcIs, ZenonT(60)
      <3> QED
        BY <1>1, <1>6, <2>1, <3>1, <3>2, JvcAgain, ZenonT(60)
    <2> QED
      BY <2>2, <2>3
  <1> QED
    BY <1>2, <1>4, <1>5, <1>6

LEMMA FormatsStarts == FormatsInit => FormatsInv
  <1> SUFFICES ASSUME FormatsInit PROVE FormatsInv
    OBVIOUS
  <1>1. auto \in BOOLEAN /\ stored = NoImage
    BY FormatsAssumption DEF FormatsInit
  <1>2. ASSUME NEW type \in FormatTypes,
               shape = [type |-> type, cyls |-> 0, heads |-> 0, layouts |-> {}, lsn0 |-> NoFs,
                        headerless_os9 |-> FALSE, remade |-> FALSE]
        PROVE  shape \in Shapes /\ Whole(shape) /\ Os9Kept(shape, auto)
    <2>1. type \in {"vdk", "jvc", "dmk"}
      BY FormatsAssumption
    <2>2. /\ shape.cyls = 0 /\ shape.heads = 0 /\ shape.layouts = {}
          /\ shape.headerless_os9 = FALSE
      BY <1>2
    <2>3. shape \in Shapes
      BY <1>2, <2>1 DEF Shapes
    <2>4. Whole(shape) /\ Os9Kept(shape, auto)
      BY <2>2 DEF Whole, Os9Kept
    <2> QED
      BY <2>3, <2>4
  <1>3. ASSUME NEW l \in Layouts, NEW cyls \in CylCounts, NEW heads \in 1..2,
               NEW lsn0 \in Os9Of(l, cyls, heads) \ {NoFs},
               shape = LoadedJvc(ImageFile("jvc", <<>>, cyls * heads * l.last * 256, lsn0)),
               shape # NoImage
        PROVE  shape \in Shapes /\ Whole(shape) /\ Os9Kept(shape, auto)
    <2>1. lsn0 \in Os9Of(l, cyls, heads) /\ lsn0 # NoFs
      OBVIOUS
    <2> QED
      BY <1>1, <1>3, <2>1, ElsewhereKeeps
  <1>4. shape \in Shapes /\ Whole(shape) /\ Os9Kept(shape, auto)
    BY <1>2, <1>3 DEF FormatsInit
  <1> QED
    BY <1>1, <1>4 DEF FormatsInv

LEMMA FormatsGoesOn == FormatsInv /\ [FormatsNext]_formatVars => FormatsInv'
  <1> SUFFICES ASSUME FormatsInv, [FormatsNext]_formatVars PROVE FormatsInv'
    OBVIOUS
  <1>1. /\ shape \in Shapes /\ auto \in BOOLEAN /\ Whole(shape) /\ Os9Kept(shape, auto)
        /\ stored # NoImage => stored = SavedAs(shape)
    BY DEF FormatsInv
  <1>2. ASSUME auto' = auto, stored' = NoImage,
               shape' \in Shapes /\ Whole(shape') /\ Os9Kept(shape', auto)
        PROVE  FormatsInv'
    BY <1>1, <1>2 DEF FormatsInv
  <1>3. CASE SaveShape
    <2>1. shape' = shape /\ auto' = auto /\ stored' = SavedAs(shape)
      BY <1>3 DEF SaveShape
    <2> QED
      BY <1>1, <2>1 DEF FormatsInv
  <1>4. CASE LoadShape
    <2>1. /\ stored # NoImage /\ shape' = LoadedAs(stored) /\ shape' # NoImage
          /\ stored' = NoImage /\ auto' = auto
      BY <1>4 DEF LoadShape
    <2>2. shape' \in Shapes /\ Whole(shape') /\ Os9Kept(shape', auto)
      BY <2>1, LoadKeeps
    <2> QED
      BY <1>2, <2>1, <2>2
  <1>5. CASE ExtendShape
    <2>1. /\ shape.cyls > 0 /\ shape.cyls + 1 \in CylCounts /\ stored' = NoImage /\ auto' = auto
          /\ shape' = [shape EXCEPT !.cyls = @ + 1, !.remade = TRUE]
      BY <1>5 DEF ExtendShape
    <2>2. shape' \in Shapes /\ Whole(shape') /\ Os9Kept(shape', auto)
      BY <1>1, <2>1, ExtendKeeps
    <2> QED
      BY <1>2, <2>1, <2>2
  <1>6. ASSUME NEW l \in Layouts, FormatRest(l) PROVE FormatsInv'
    <2>1. /\ shape.cyls > 0 /\ stored' = NoImage /\ auto' = auto
          /\ shape' = [shape EXCEPT !.layouts = @ \union {l}, !.remade = TRUE]
      BY <1>6 DEF FormatRest
    <2>2. shape' \in Shapes /\ Whole(shape') /\ Os9Kept(shape', auto)
      BY <1>1, <2>1, FormatRestKeeps
    <2> QED
      BY <1>2, <2>1, <2>2
  <1>7. ASSUME NEW l \in Layouts, NEW cyls \in CylCounts, NEW heads \in 1..2,
               FormatDisk(l, cyls, heads)
        PROVE  FormatsInv'
    <2>1. cyls > 0 /\ stored' = NoImage /\ auto' = auto
      BY <1>7 DEF FormatDisk
    <2>2. PICK lsn0 \in Os9Of(l, cyls, heads) :
             shape' = [shape EXCEPT !.layouts = IF cyls >= shape.cyls /\ heads >= shape.heads
                                                THEN {l} ELSE @ \union {l},
                                    !.cyls = Wider(@, cyls), !.heads = Wider(@, heads),
                                    !.lsn0 = lsn0, !.remade = TRUE]
      BY <1>7 DEF FormatDisk
    <2>3. PICK layouts \in {{l}, shape.layouts \union {l}} :
             shape' = [shape EXCEPT !.layouts = layouts,
                                    !.cyls = Wider(@, cyls), !.heads = Wider(@, heads),
                                    !.lsn0 = lsn0, !.remade = TRUE]
      BY <2>2
    <2>4. shape' \in Shapes /\ Whole(shape') /\ Os9Kept(shape', auto)
      BY <1>1, <2>1, <2>3, FormatKeeps, ZenonT(60)
    <2> QED
      BY <1>2, <2>1, <2>4
  <1>8. CASE UNCHANGED formatVars
    BY <1>1, <1>8 DEF FormatsInv, formatVars
  <1> QED
    BY <1>3, <1>4, <1>5, <1>6, <1>7, <1>8 DEF FormatsNext

LEMMA FormatsFind == FormatsInv => SectorsReloaded
  <1> SUFFICES ASSUME FormatsInv PROVE SectorsReloaded
    OBVIOUS
  <1>1. /\ shape \in Shapes /\ auto \in BOOLEAN /\ Whole(shape) /\ Os9Kept(shape, auto)
        /\ stored # NoImage => stored = SavedAs(shape)
    BY DEF FormatsInv
  <1>2. shape.type \in {"vdk", "jvc", "dmk"} /\ shape.cyls \in 0..256
    BY <1>1 DEF Shapes
  <1>3. ASSUME stored # NoImage, ~Unsayable(shape)
        PROVE  /\ shape.type # "dmk" => Found(shape, LoadedAs(stored))
               /\ shape.type = "dmk" =>
                    /\ LoadedAs(stored) # NoImage
                    /\ LoadedAs(stored).cyls = shape.cyls
                    /\ LoadedAs(stored).heads = shape.heads
                    /\ LoadedAs(stored).layouts = shape.layouts
    <2>1. stored = SavedAs(shape) /\ stored.type = shape.type
      BY <1>1, <1>3, SavedType
    <2>2. CASE shape.type = "vdk"
      <3>1. stored = SavedVdk(shape) /\ LoadedAs(stored) = LoadedVdk(stored)
        BY <1>1, <2>1, <2>2, SavedType, LoadedType
      <3>2. Found(shape, LoadedAs(stored))
        BY <1>1, <1>3, <2>2, <3>1, VdkAgain
      <3> QED
        BY <2>2, <3>2
    <2>3. CASE shape.type = "dmk"
      <3>1. stored = SavedDmk(shape) /\ LoadedAs(stored) = LoadedDmk(stored)
        BY <1>1, <2>1, <2>3, SavedType, LoadedType
      <3> QED
        BY <1>1, <1>3, <2>3, <3>1, DmkAgain
    <2>4. CASE shape.type = "jvc"
      <3>1. stored = SavedJvc(shape) /\ LoadedAs(stored) = LoadedJvc(stored)
        BY <1>1, <2>1, <2>4, SavedType, LoadedType
      <3>2. shape.cyls > 0
        <4>1. shape.cyls # 0
          BY <1>3, <2>4 DEF Unsayable
        <4> QED
          BY <1>2, <4>1
      <3>3. PICK lo \in 0..255, hi \in 0..320, code \in 0..3 :
              JvcFile(shape, stored, lo, hi, code) /\ Header(shape, stored, lo, hi, code)
        BY <1>1, <1>3, <3>1, <3>2, SavedJvcIs, ZenonT(60)
      <3>4. Found(shape, LoadedAs(stored))
        BY <1>1, <1>3, <2>4, <3>1, <3>2, <3>3, JvcReloaded, ZenonT(60)
      <3> QED
        BY <2>4, <3>4
    <2> QED
      BY <1>2, <2>2, <2>3, <2>4
  <1>4. FormatsOK
    BY <1>1 DEF FormatsOK
  <1> QED
    BY <1>3, <1>4 DEF SectorsReloaded, Found

\* However a disk was loaded and has been formatted since, what is saved without error is
\* read back with every sector where it was: vdisk_save_vdk, vdisk_save_jvc and
\* vdisk_save_dmk against their vdisk_load_, but for what Unsayable names.
THEOREM SectorsAreReloaded == FormatsSpec => []SectorsReloaded
  <1>1. FormatsSpec => []FormatsInv
    BY FormatsStarts, FormatsGoesOn, PTL DEF FormatsSpec
  <1> QED
    BY <1>1, FormatsFind, PTL
================================================================================
