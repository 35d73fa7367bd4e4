-------------------------------- MODULE Images --------------------------------
(***************************************************************************)
(* Image files and the copies of them in the drives, vdisk.c with its      *)
(* callers in vdrive.c and xroar.c.  A disk is loaded into memory, written *)
(* there by the machine, and saved over its file when it is ejected,       *)
(* flushed or about to be replaced; the first save of a disk that came     *)
(* from a file moves that file to a backup.                                *)
(*                                                                         *)
(* What a file or a disk holds is the number of the write that made it.    *)
(* The host may refuse to open a file, run out of room, or end the process *)
(* in the middle of a save.                                                *)
(***************************************************************************)
EXTENDS Integers, FiniteSets

CONSTANTS
    ImageDrives, Files,
    Sectored,     \* the files of a format that holds sectors only (VDK, JVC)
    LastWrite,    \* bounds the writes of a behaviour
    Failures,     \* what the host may do to a save: "open", "short", "crash"
    LoadedBack,   \* the settings of write-back a loaded disk may have
    NoCopy, Absent, Torn

ASSUME FilesAssumption ==
    /\ Sectored \subseteq Files /\ LoadedBack \subseteq BOOLEAN
    /\ LastWrite \in Nat
    /\ Failures \subseteq {"open", "short", "crash"}
    /\ Absent \notin Nat /\ Torn \notin Nat /\ Absent # Torn

Contents == (0..LastWrite) \union {Torn}

Copies == [file : Files, data : Contents,
           dirty : BOOLEAN, back : BOOLEAN,   \* dirty, write_back
           new : BOOLEAN,                     \* new_disk
           blank : BOOLEAN,                   \* it has no tracks yet
           fits : BOOLEAN]                    \* its file's format can hold it

ASSUME NoCopyAssumption == NoCopy \notin Copies

VARIABLES
    file, bak, \* what each file, and the backup beside it, holds
    disk,      \* the disk in each drive
    todo,      \* the drives a flush has yet to come to
    writes,    \* the number of the last write
    orig,      \* what each file held when it was first seen
    renamed,   \* the files whose names the user has given to new disks
    shared,    \* the files inserted while a drive, perhaps the same, held them
    cut,       \* the files whose last write ran out of room unnoticed
    host       \* what the host did to the last save, "ok" if it did it

imageVars == <<file, bak, disk, todo, writes, orig, renamed, shared, cut, host>>

-----------------------------------------------------------------------------
\* The outcomes of a save: file, backup, disk, and the host's part.
Store == [file |-> file, bak |-> bak, disk |-> disk, cut |-> cut, host |-> "ok"]

Holds(s, f, c) == [s EXCEPT !.file[f] = c, !.cut = @ \ {f}]

\* (Slip: the file is moved on every save.)
BackUpAlways(s, f) ==
    IF s.file[f] # Absent THEN [s EXCEPT !.bak[f] = s.file[f], !.file[f] = Absent] ELSE s

\* The file becomes the backup, unless there is one already.
BackUp(s, f) ==
    IF s.bak[f] = Absent /\ s.file[f] # Absent
      THEN [s EXCEPT !.bak[f] = s.file[f], !.file[f] = Absent]
      ELSE s

\* (Slip: the disk is clean whatever became of the file.)
WrittenOverClean(s, d) ==
    LET k == s.disk[d]
        clean == [s EXCEPT !.disk[d].dirty = FALSE]
    IN  {IF k.fits THEN Holds(clean, k.file, k.data) ELSE [clean EXCEPT !.file[k.file] = Torn]}
        \union (IF "open" \in Failures THEN {[clean EXCEPT !.host = "open"]} ELSE {})

\* vdisk_save_vdk, _jvc and _dmk: the file is emptied when it is opened, and only
\* then is the disk looked at; what fwrite says is not.  A JVC of a blank disk is a
\* header that cannot be loaded, and no failure.
WrittenOver(s, d) ==
    LET k == s.disk[d]
        torn == Holds(s, k.file, Torn)
    IN  {IF k.fits THEN [Holds(s, k.file, k.data) EXCEPT !.disk[d].dirty = FALSE] ELSE torn}
        \union (IF k.blank /\ ~k.fits THEN {[torn EXCEPT !.disk[d].dirty = FALSE]} ELSE {})
        \union (IF "open" \in Failures THEN {[s EXCEPT !.host = "open"]} ELSE {})
        \union (IF "short" \in Failures /\ k.fits
                  THEN {[torn EXCEPT !.disk[d].dirty = FALSE, !.cut = @ \union {k.file},
                                !.host = "short"]} ELSE {})
        \union (IF "crash" \in Failures
                  THEN {[t EXCEPT !.host = "crash"] : t \in {s, torn}} ELSE {})

\* vdisk_save: nothing to do for a clean disk, or without write-back; a disk that
\* did not start as a new one is backed up.
Saved(s, d) ==
    IF s.disk[d] = NoCopy THEN {s}
    ELSE IF ~s.disk[d].dirty \/ ~s.disk[d].back THEN {s}
    ELSE WrittenOver(IF s.disk[d].new THEN s ELSE BackUp(s, s.disk[d].file), d)

\* vdrive_eject_disk takes no notice of a failed save.
Ejected(s, d) ==
    {IF t.host = "crash" THEN t ELSE [t EXCEPT !.disk[d] = NoCopy] : t \in Saved(s, d)}

\* vdisk_load, and what may come of it.
Loaded(f) ==
    IF file[f] = Absent THEN {NoCopy}
    ELSE [file : {f}, data : {file[f]}, dirty : {FALSE}, back : LoadedBack,
          new : {FALSE}, blank : {FALSE}, fits : {TRUE}]
         \union (IF file[f] = Torn THEN {NoCopy} ELSE {})

\* vdrive_insert_disk, of a disk or of the nothing a failed load gives.
Inserted(s, d, k) ==
    {IF t.host = "crash" THEN t ELSE [t EXCEPT !.disk[d] = k] : t \in Ejected(s, d)}

-----------------------------------------------------------------------------
\* A save and what follows it, with `left' the drives a flush has still to come
\* to: a crash leaves the files, and no disk in any drive.
Becomes(s, left) ==
    /\ file' = s.file /\ bak' = s.bak /\ cut' = s.cut /\ host' = s.host
    /\ disk' = IF s.host = "crash" THEN [d \in ImageDrives |-> NoCopy] ELSE s.disk
    /\ todo' = IF s.host = "crash" THEN {} ELSE left

Held(f) == \E d \in ImageDrives : disk[d] # NoCopy /\ disk[d].file = f

Inserts(f) == shared' = IF Held(f) THEN shared \union {f} ELSE shared

\* xroar_insert_disk_file: the new disk is loaded before the old one is saved.
InsertFile(d, f) ==
    /\ todo = {} /\ Inserts(f)
    /\ \E k \in Loaded(f) : \E s \in Inserted(Store, d, k) : Becomes(s, {})
    /\ UNCHANGED <<writes, orig, renamed>>

\* xroar_insert_disk: the old disk is saved, and then the user asked, who may have
\* thought better of it.
InsertDialog(d) ==
    /\ todo = {}
    /\ \E s \in Saved(Store, d) : Becomes(s, {})
    /\ UNCHANGED <<writes, orig, renamed, shared>>

EjectDisk(d) ==
    /\ todo = {}
    /\ \E s \in Ejected(Store, d) : Becomes(s, {})
    /\ UNCHANGED <<writes, orig, renamed, shared>>

\* xroar_new_disk and wasm_new_disk: unformatted, and so not to be held by a
\* format of sectors.
NewDisk(d, f) ==
    /\ todo = {} /\ Inserts(f) /\ writes < LastWrite
    /\ LET k == [file |-> f, data |-> writes + 1, dirty |-> TRUE, back |-> TRUE,
                 new |-> TRUE, blank |-> TRUE, fits |-> f \notin Sectored]
       IN  \E s \in Inserted(Store, d, k) : Becomes(s, {})
    /\ writes' = writes + 1
    /\ renamed' = renamed \union {f}
    /\ UNCHANGED orig

\* The machine writes; what it formats may be more than sectors can say.
MachineWrites(d) ==
    /\ todo = {} /\ disk[d] # NoCopy /\ writes < LastWrite
    /\ writes' = writes + 1
    /\ \E fits \in (IF disk[d].file \in Sectored THEN BOOLEAN ELSE {TRUE}) :
          disk' = [disk EXCEPT ![d].data = writes + 1, ![d].dirty = TRUE, ![d].blank = FALSE,
                                 ![d].fits = fits]
    /\ host' = "ok"
    /\ UNCHANGED <<file, bak, cut, todo, orig, renamed, shared>>

SetWriteBack(d) ==
    /\ todo = {} /\ disk[d] # NoCopy
    /\ disk' = [disk EXCEPT ![d].back = ~@]
    /\ host' = "ok"
    /\ UNCHANGED <<file, bak, cut, todo, writes, orig, renamed, shared>>

\* vdrive_flush goes through the drives, in any order here.
FlushAll ==
    /\ todo = {} /\ todo' = {d \in ImageDrives : disk[d] # NoCopy} /\ todo' # {}
    /\ host' = "ok"
    /\ UNCHANGED <<file, bak, cut, disk, writes, orig, renamed, shared>>

FlushNext(d) ==
    /\ d \in todo
    /\ \E s \in Saved(Store, d) : Becomes(s, todo \ {d})
    /\ UNCHANGED <<writes, orig, renamed, shared>>

\* The process ends between two operations, and is started again.
Crash ==
    /\ "crash" \in Failures
    /\ disk' = [d \in ImageDrives |-> NoCopy] /\ todo' = {} /\ host' = "crash"
    /\ UNCHANGED <<file, bak, cut, writes, orig, renamed, shared>>

ImagesInit ==
    /\ file \in [Files -> {Absent, 0}] /\ orig = file
    /\ bak = [f \in Files |-> Absent]
    /\ disk = [d \in ImageDrives |-> NoCopy]
    /\ todo = {} /\ writes = 0 /\ renamed = {} /\ shared = {} /\ cut = {} /\ host = "ok"

ImagesNext ==
    \/ \E d \in ImageDrives :
          \/ \E f \in Files : InsertFile(d, f) \/ NewDisk(d, f)
          \/ InsertDialog(d) \/ EjectDisk(d) \/ MachineWrites(d) \/ SetWriteBack(d)
          \/ FlushNext(d)
    \/ FlushAll \/ Crash

ImagesSpec == ImagesInit /\ [][ImagesNext]_imageVars

-----------------------------------------------------------------------------
ImagesOK ==
    /\ file \in [Files -> Contents \union {Absent}]
    /\ bak \in [Files -> Contents \union {Absent}]
    /\ disk \in [ImageDrives -> Copies \union {NoCopy}]
    /\ todo \in SUBSET ImageDrives
    /\ writes \in 0..LastWrite
    /\ orig \in [Files -> {Absent, 0}]
    /\ renamed \in SUBSET Files /\ shared \in SUBSET Files /\ cut \in SUBSET Files
    /\ host \in {"ok", "open", "short", "crash"}

\* Whatever is saved over a file, in whichever drive, and wherever the process or
\* the host gives up, what the file first held is in it or in its backup: unless
\* the user gave its name to a new disk, which is not backed up (vdisk.c:223-231).
OriginalKept ==
    /\ ImagesOK
    /\ \A f \in Files \ renamed : orig[f] \in {file[f], bak[f]}

\* "The image is written back to the file when ejected (or you quit the emulator)"
\* (doc/xroar.texi:680): when a disk leaves its drive its file holds what the disk
\* did, also when it was thought clean because "RAM should now reflect the state of
\* the image" (vdisk.c:182-183): unless write-back was off or the file's format could
\* not hold it, or the host failed, or the file was
\* inserted while a drive held it: it is loaded before what is there is saved.
EjectedMeansSaved ==
    [][\A d \in ImageDrives :
          LET k == disk[d]
          IN  k # NoCopy /\ host' = "ok" /\ (disk'[d] = NoCopy \/ disk'[d].file # k.file)
                /\ k.file \notin shared =>
                  ((k.dirty => k.back) /\ k.fits =>
                      file'[k.file] = k.data \/ k.file \in cut)]_imageVars
=============================================================================
