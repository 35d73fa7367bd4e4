------------------------------- MODULE Library -------------------------------
(***************************************************************************)
(* The ROMs of the Android application: a directory that MainActivity.kt    *)
(* fills from a folder the user picks, and the page (index.html) that lists *)
(* the directory as it loads, reads the ROMs it listed before the emulator  *)
(* starts, and reloads itself when they have changed.  Folders are copied   *)
(* on the application's main thread while the page's own thread runs on;    *)
(* the application may be killed at any moment.                             *)
(*                                                                         *)
(* A ROM is the number of the import it came from, 0 if there is none, and  *)
(* negative while only part of it is there.                                 *)
(***************************************************************************)
EXTENDS Integers

CONSTANTS
    Roms,
    LastImport \* bounds the folders picked

ASSUME LibraryAssumption == LastImport \in Nat

VARIABLES
    lib,         \* what is in the directory
    import,      \* "no", "picking" a folder, "clearing", or "copying" it
    folder,      \* the ROMs of the folder yet to be copied
    found,       \* one has been
    imports,     \* the number of the last import
    told,        \* the page is being told of an import that found something
    page,        \* "gone", "loaded", "reading" or "booted"
    plan,        \* bootPlan.roms, and in preRun those yet to be read
    has,         \* what the emulator's file system holds
    reload,      \* the page will reload itself
    silent,      \* an import since the page loaded found nothing
    interrupted  \* the application was killed while it copied

libraryVars == <<lib, import, folder, found, imports, told, page, plan, has, reload,
                 silent, interrupted>>

Nothing == [r \in Roms |-> 0]

\* The page runs one script at a time; it answers between them.
Answers == page \in {"loaded", "booted"}

-----------------------------------------------------------------------------
\* pickRomFolder
PickFolder ==
    /\ import = "no" /\ Answers
    /\ import' = "picking"
    /\ UNCHANGED <<lib, folder, found, imports, told, page, plan, has, reload, silent, interrupted>>

\* No folder, or none that can be read: the page has nothing to do.
PickCancelled ==
    /\ import = "picking"
    /\ import' = "no"
    /\ UNCHANGED <<lib, folder, found, imports, told, page, plan, has, reload, silent, interrupted>>

\* importTree
Picked(roms) ==
    /\ import = "picking" /\ imports < LastImport
    /\ import' = "clearing" /\ folder' = roms /\ found' = FALSE
    /\ imports' = imports + 1
    /\ UNCHANGED <<lib, told, page, plan, has, reload, silent, interrupted>>

ClearFile(r) ==
    /\ import = "clearing" /\ lib[r] # 0
    /\ lib' = [lib EXCEPT ![r] = 0]
    /\ UNCHANGED <<import, folder, found, imports, told, page, plan, has, reload, silent,
                   interrupted>>

Cleared ==
    /\ import = "clearing" /\ lib = Nothing
    /\ import' = "copying" /\ interrupted' = FALSE
    /\ UNCHANGED <<lib, folder, found, imports, told, page, plan, has, reload, silent>>

CopyStarts(r) ==
    /\ import = "copying" /\ r \in folder /\ \A q \in Roms : lib[q] >= 0
    /\ lib' = [lib EXCEPT ![r] = -imports]
    /\ UNCHANGED <<import, folder, found, imports, told, page, plan, has, reload, silent,
                   interrupted>>

CopyEnds(r) ==
    /\ import = "copying" /\ r \in folder /\ lib[r] < 0
    /\ lib' = [lib EXCEPT ![r] = imports]
    /\ folder' = folder \ {r} /\ found' = TRUE
    /\ UNCHANGED <<import, imports, told, page, plan, has, reload, silent, interrupted>>

\* The end of importDocumentTree, and the message to the page; a page that is not
\* there gets none, and one that is told of no ROMs has nothing to do.
ImportDone ==
    /\ import = "copying" /\ folder = {}
    /\ import' = "no"
    /\ told' = (told \/ found)
    /\ silent' = (silent \/ ~found)
    /\ UNCHANGED <<lib, folder, found, imports, page, plan, has, reload, interrupted>>

-----------------------------------------------------------------------------
\* (Slip: the page shows the message, and goes on as it is.)
ShowImportComplete ==
    /\ told /\ Answers
    /\ told' = FALSE
    /\ UNCHANGED <<lib, import, folder, found, imports, page, plan, has, reload, silent,
                   interrupted>>

OnRomImportComplete ==
    /\ told /\ Answers
    /\ told' = FALSE /\ reload' = TRUE
    /\ UNCHANGED <<lib, import, folder, found, imports, page, plan, has, silent, interrupted>>

\* The message comes before the page's script has run, or after it has gone.
MessageLost ==
    /\ told /\ page = "gone"
    /\ told' = FALSE
    /\ UNCHANGED <<lib, import, folder, found, imports, page, plan, has, reload, silent,
                   interrupted>>

\* While a folder is being copied the user cannot press anything.
ClearRomLibrary ==
    /\ import = "no" /\ Answers
    /\ lib' = Nothing /\ interrupted' = FALSE
    /\ reload' = TRUE
    /\ UNCHANGED <<import, folder, found, imports, told, page, plan, has, silent>>

ApplyConfigured ==
    /\ import = "no" /\ Answers
    /\ reload' = TRUE
    /\ UNCHANGED <<lib, import, folder, found, imports, told, page, plan, has, silent, interrupted>>

Reload ==
    /\ reload /\ Answers
    /\ page' = "gone" /\ reload' = FALSE
    /\ plan' = {} /\ has' = Nothing
    /\ UNCHANGED <<lib, import, folder, found, imports, told, silent, interrupted>>

\* The page's script: buildBootPlan.
Load ==
    /\ page = "gone"
    /\ page' = "loaded" /\ plan' = {r \in Roms : lib[r] # 0}
    /\ silent' = FALSE
    /\ UNCHANGED <<lib, import, folder, found, imports, told, has, reload, interrupted>>

\* preloadImportedRoms, in preRun: what has gone since is skipped.
PreRun ==
    /\ page = "loaded"
    /\ page' = "reading"
    /\ UNCHANGED <<lib, import, folder, found, imports, told, plan, has, reload, silent, interrupted>>

ReadRom(r) ==
    /\ page = "reading" /\ r \in plan
    /\ plan' = plan \ {r}
    /\ has' = [has EXCEPT ![r] = lib[r]]
    /\ UNCHANGED <<lib, import, folder, found, imports, told, page, reload, silent, interrupted>>

\* onRuntimeInitialized calls wasm_boot.
WasmBoot ==
    /\ page = "reading" /\ plan = {}
    /\ page' = "booted"
    /\ UNCHANGED <<lib, import, folder, found, imports, told, plan, has, reload, silent, interrupted>>

\* The application is killed, and started again; the picker may outlive it.
Killed ==
    /\ import' \in {"no"} \union ({import} \intersect {"picking"})
    /\ interrupted' = (interrupted \/ import = "copying")
    /\ told' = FALSE /\ reload' = FALSE
    /\ page' = "gone" /\ plan' = {} /\ has' = Nothing
    /\ folder' = {} /\ found' = FALSE
    /\ UNCHANGED <<lib, imports, silent>>

LibraryInit ==
    /\ lib = Nothing /\ import = "no" /\ folder = {} /\ found = FALSE /\ imports = 0
    /\ told = FALSE /\ page = "gone" /\ plan = {} /\ has = Nothing
    /\ reload = FALSE /\ silent = FALSE /\ interrupted = FALSE

LibraryNext ==
    \/ PickFolder \/ PickCancelled \/ Cleared \/ ImportDone
    \/ \E roms \in SUBSET Roms : Picked(roms)
    \/ \E r \in Roms : ClearFile(r) \/ CopyStarts(r) \/ CopyEnds(r) \/ ReadRom(r)
    \/ OnRomImportComplete \/ MessageLost \/ ClearRomLibrary \/ ApplyConfigured
    \/ Reload \/ Load \/ PreRun \/ WasmBoot \/ Killed

LibrarySpec == LibraryInit /\ [][LibraryNext]_libraryVars

-----------------------------------------------------------------------------
LibraryOK ==
    /\ lib \in [Roms -> -LastImport..LastImport]
    /\ has \in [Roms -> -LastImport..LastImport]
    /\ import \in {"no", "picking", "clearing", "copying"}
    /\ page \in {"gone", "loaded", "reading", "booted"}
    /\ folder \subseteq Roms /\ plan \subseteq Roms
    /\ imports \in 0..LastImport
    /\ found \in BOOLEAN /\ told \in BOOLEAN /\ reload \in BOOLEAN
    /\ silent \in BOOLEAN /\ interrupted \in BOOLEAN

\* "After ROM import or reload completes" (README.md:86) the emulator runs with the
\* ROMs of the library, all of them and whole, however the copying, the page's own
\* reading, its reloads and its restarts fell together: unless an import found
\* nothing, which empties the library and reloads no page, or the application was
\* killed within a copy, which leaves part of a ROM.
BootedFromLibrary ==
    /\ LibraryOK
    /\ page = "booted" /\ import \in {"no", "picking"} /\ ~told /\ ~reload /\ ~silent =>
          /\ has = lib
          /\ (\E r \in Roms : lib[r] < 0) => interrupted
=============================================================================
