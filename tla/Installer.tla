------------------------------ MODULE Installer ------------------------------
(***************************************************************************)
(* The installer of source/installer.c and the data patch of                *)
(* source/credits_patch.c, with crashes and failing file operations.        *)
(*                                                                          *)
(* A file is known by its role and has the content of one version of the    *)
(* game, or is missing.  A temporary file is always written from the start  *)
(* before it is renamed and never read otherwise, so it has no state; the   *)
(* two steps of every replacement, remove and rename, are separate.  What a *)
(* rename has put in place survives a crash.                                *)
(*                                                                          *)
(* Sizes are compared by the code where two versions may differ only in     *)
(* content: any two versions of a file have the same size here.             *)
(***************************************************************************)
EXTENDS Naturals

CONSTANTS
  Versions,   \* versions of the game, in order, each with its own unity_app_guid
  Patchable,  \* those whose data file has the size the patch expects
  Checked,    \* the files runtime_files_present looks for
  Managed     \* the files copied to the il2cpp cache

ASSUME InstallerAssumption ==
  /\ Versions \subseteq Nat \ {0} /\ Patchable \subseteq Versions
  /\ {"data", "guid"} \subseteq Checked
  /\ {"manifest", "english"} \cap (Checked \cup Managed) = {}

Missing == 0   \* the content of a file that does not exist

Files == Checked \cup Managed \cup {"manifest", "english"}
Cached == Managed \cup {"english"}

VARIABLES
  files,     \* the extracted files
  patched,   \* whether the data file has been patched
  bak,       \* data.unity3d.portbak
  cache,     \* the runtime caches
  unityVer,  \* il2cpp/unity.ver
  marker,    \* INSTALL_MARKER exists
  apk,       \* game.apk
  pc,        \* where the program is
  todo, cur, \* what is left to extract or copy, and the file being replaced
  fast,      \* the program found an installation
  damaged,   \* history: an installed data file was lost in the patch
  calm       \* from now on nothing fails and nobody interferes

disk == <<files, patched, bak, cache, unityVer, marker, apk>>
local == <<todo, cur, fast>>
vars == <<disk, pc, local, damaged, calm>>

Init ==
  /\ files = [f \in Files |-> Missing] /\ patched = FALSE /\ bak = Missing
  /\ cache = [f \in Cached |-> Missing] /\ unityVer = Missing
  /\ marker = FALSE /\ apk = Missing
  /\ pc = "off" /\ todo = {} /\ cur = "data" /\ fast = FALSE
  /\ damaged = FALSE /\ calm = FALSE

NoLocals == todo' = {} /\ cur' = "data" /\ fast' = FALSE

At(where) == pc = where
Goto(where) == pc' = where

\* An operation fails and the program gives up with an error.
Fault == ~calm /\ Goto("failed") /\ NoLocals /\ UNCHANGED <<disk, damaged, calm>>

RuntimeFilesPresent == \A f \in Checked : files[f] # Missing

-----------------------------------------------------------------------------
(***************************************************************************)
(* installer_prepare_game_files: which of the two ways, and extraction.     *)
(***************************************************************************)
\* Mutant: the marker is not looked at.
InstalledByFiles == RuntimeFilesPresent

Installed == marker /\ RuntimeFilesPresent

\* Mutant: an interrupted extraction is resumed with the files still missing.
LaunchResumes ==
  /\ At("off")
  /\ fast' = Installed
  /\ Goto(IF Installed THEN "manifest" ELSE IF apk = Missing THEN "failed" ELSE "extract")
  /\ todo' = IF Installed THEN {} ELSE {f \in Files : files[f] = Missing}
  /\ UNCHANGED <<disk, cur, damaged, calm>>

Launch ==
  /\ At("off")
  /\ fast' = Installed
  /\ Goto(IF Installed THEN "manifest" ELSE IF apk = Missing THEN "failed" ELSE "extract")
  /\ todo' = IF Installed THEN {} ELSE Files
  /\ UNCHANGED <<disk, cur, damaged, calm>>

\* The archive, the space check or the writing of a temporary file fails.
ExtractFault == At("extract") /\ Fault

\* The temporary file is complete; remove(target).  The order is the archive's.
ExtractRemove(f) ==
  /\ At("extract") /\ f \in todo
  /\ files' = [files EXCEPT ![f] = Missing]
  /\ patched' = (patched /\ f # "data")
  /\ cur' = f
  /\ Goto("rename")
  /\ UNCHANGED <<bak, cache, unityVer, marker, apk, todo, fast, damaged, calm>>

\* rename(tmp, target).
ExtractRename ==
  /\ At("rename")
  /\ files' = [files EXCEPT ![cur] = apk]
  /\ todo' = todo \ {cur}
  /\ Goto("extract")
  /\ UNCHANGED <<patched, bak, cache, unityVer, marker, apk, cur, fast, damaged, calm>>

RenameFault == At("rename") /\ Fault

ExtractDone ==
  /\ At("extract") /\ todo = {}
  /\ Goto(IF RuntimeFilesPresent THEN "manifest" ELSE "failed")
  /\ UNCHANGED <<disk, local, damaged, calm>>

\* load_manifest_metadata may still take it from the APK; then it is parsed.
Manifest ==
  /\ At("manifest")
  /\ files' = IF files["manifest"] = Missing THEN [files EXCEPT !["manifest"] = apk] ELSE files
  /\ Goto(IF files'["manifest"] = Missing THEN "failed" ELSE "cache")
  /\ UNCHANGED <<patched, bak, cache, unityVer, marker, apk, local, damaged, calm>>

ManifestFault == At("manifest") /\ Fault

-----------------------------------------------------------------------------
(***************************************************************************)
(* prepare_il2cpp_cache and seed_english_localization_cache.                *)
(***************************************************************************)
SameSize(f) == files[f] # Missing /\ cache[f] # Missing

\* Mutant: unity.ver is not compared.
CacheReadyBySize == \A f \in Managed : SameSize(f)

CacheReady == unityVer = files["guid"] /\ \A f \in Managed : SameSize(f)

CacheCheck ==
  /\ At("cache")
  /\ IF CacheReady THEN Goto("english") /\ UNCHANGED todo
                   ELSE Goto("copy") /\ todo' = Managed
  /\ UNCHANGED <<disk, cur, fast, damaged, calm>>

\* copy_file_atomic up to remove(dst); a source that is missing is an error.
CopyRemove(f) ==
  /\ At("copy") /\ f \in todo
  /\ IF files[f] = Missing THEN Goto("failed") /\ UNCHANGED <<cache, cur>>
     ELSE Goto("copyrename") /\ cur' = f /\ cache' = [cache EXCEPT ![f] = Missing]
  /\ UNCHANGED <<files, patched, bak, unityVer, marker, apk, todo, fast, damaged, calm>>

CopyRename ==
  /\ At("copyrename")
  /\ cache' = [cache EXCEPT ![cur] = files[cur]]
  /\ todo' = todo \ {cur}
  /\ Goto("copy")
  /\ UNCHANGED <<files, patched, bak, unityVer, marker, apk, cur, fast, damaged, calm>>

\* All copied: the old unity.ver is removed and the new one renamed into place.
VerRemove ==
  /\ At("copy") /\ todo = {}
  /\ unityVer' = Missing
  /\ Goto("verrename")
  /\ UNCHANGED <<files, patched, bak, cache, marker, apk, local, damaged, calm>>

VerRename ==
  /\ At("verrename")
  /\ unityVer' = files["guid"]
  /\ Goto("english")
  /\ UNCHANGED <<files, patched, bak, cache, marker, apk, local, damaged, calm>>

English ==
  /\ At("english")
  /\ IF files["english"] = Missing THEN Goto("failed") /\ UNCHANGED cache
     ELSE IF SameSize("english") THEN Goto("patch") /\ UNCHANGED cache
     ELSE Goto("englishrename") /\ cache' = [cache EXCEPT !["english"] = Missing]
  /\ UNCHANGED <<files, patched, bak, unityVer, marker, apk, local, damaged, calm>>

EnglishRename ==
  /\ At("englishrename")
  /\ cache' = [cache EXCEPT !["english"] = files["english"]]
  /\ Goto("patch")
  /\ UNCHANGED <<files, patched, bak, unityVer, marker, apk, local, damaged, calm>>

CacheFault == pc \in {"cache", "copy", "copyrename", "verrename", "english", "englishrename"} /\ Fault

-----------------------------------------------------------------------------
(***************************************************************************)
(* credits_patch_apply: whatever happens, the program goes on.              *)
(***************************************************************************)
AfterPatch == IF fast THEN "media" ELSE "marker"

PatchApplies == files["data"] \in Patchable /\ ~patched

\* Nothing to patch, or the patched copy cannot be made.
PatchSkipped ==
  /\ At("patch") /\ (~PatchApplies \/ ~calm)
  /\ bak' \in IF PatchApplies THEN {bak, Missing} ELSE {bak}
  /\ Goto(AfterPatch)
  /\ UNCHANGED <<files, patched, cache, unityVer, marker, apk, local, damaged, calm>>

\* rename(path, bak).
PatchBackup ==
  /\ At("patch") /\ PatchApplies
  /\ bak' = files["data"]
  /\ files' = [files EXCEPT !["data"] = Missing]
  /\ Goto("patchrename")
  /\ UNCHANGED <<patched, cache, unityVer, marker, apk, local, damaged, calm>>

\* rename(tmp, path).
PatchRename ==
  /\ At("patchrename")
  /\ files' = [files EXCEPT !["data"] = bak]
  /\ patched' = TRUE
  /\ Goto("patchend")
  /\ UNCHANGED <<bak, cache, unityVer, marker, apk, local, damaged, calm>>

\* It fails, and rename(bak, path) restores the file or fails as well.
PatchRestore ==
  /\ At("patchrename") /\ ~calm
  /\ \/ files' = [files EXCEPT !["data"] = bak] /\ bak' = Missing /\ UNCHANGED damaged
     \/ damaged' = TRUE /\ UNCHANGED <<files, bak>>
  /\ Goto(AfterPatch)
  /\ UNCHANGED <<patched, cache, unityVer, marker, apk, local, calm>>

PatchEnd ==
  /\ At("patchend")
  /\ bak' = Missing
  /\ Goto(AfterPatch)
  /\ UNCHANGED <<files, patched, cache, unityVer, marker, apk, local, damaged, calm>>

-----------------------------------------------------------------------------
(***************************************************************************)
(* write_runtime_install_marker and remove_install_media_if_safe.           *)
(***************************************************************************)
MarkerRemove ==
  /\ At("marker")
  /\ marker' = FALSE
  /\ Goto("markerrename")
  /\ UNCHANGED <<files, patched, bak, cache, unityVer, apk, local, damaged, calm>>

MarkerRename ==
  /\ At("markerrename")
  /\ marker' = TRUE
  /\ Goto("media")
  /\ UNCHANGED <<files, patched, bak, cache, unityVer, apk, local, damaged, calm>>

MarkerFault == pc \in {"marker", "markerrename"} /\ Fault

\* Mutant: the APK goes before the marker is in place.
RemoveMediaEarly ==
  /\ pc \in {"markerrename", "media"}
  /\ apk' = Missing
  /\ pc' = IF pc = "media" THEN "started" ELSE pc
  /\ UNCHANGED <<files, patched, bak, cache, unityVer, marker, local, damaged, calm>>

\* The removal may fail.
RemoveMedia ==
  /\ At("media")
  /\ apk' \in IF Installed /\ files["manifest"] # Missing
                THEN {Missing} \cup (IF calm THEN {} ELSE {apk}) ELSE {apk}
  /\ Goto("started")
  /\ UNCHANGED <<files, patched, bak, cache, unityVer, marker, local, damaged, calm>>

-----------------------------------------------------------------------------
(***************************************************************************)
(* The user and the console.                                                *)
(***************************************************************************)
\* The game ends, or the error was shown; the program can be started again.
End ==
  /\ pc \in {"started", "failed"}
  /\ Goto("off")
  /\ NoLocals
  /\ UNCHANGED <<disk, damaged, calm>>

\* Power loss, or the application is closed.
Crash ==
  /\ pc \notin {"off", "started", "failed"} /\ ~calm
  /\ damaged' = (damaged \/ (At("patchrename") /\ fast))
  /\ Goto("off")
  /\ NoLocals
  /\ UNCHANGED <<disk, calm>>

\* The user does not go back to an older version than one that is on the card.
PlaceApk(v) ==
  /\ At("off") /\ ~calm
  /\ \A f \in Files : files[f] <= v
  /\ \A f \in Cached : cache[f] <= v
  /\ apk <= v
  /\ apk' = v
  /\ UNCHANGED <<files, patched, bak, cache, unityVer, marker, pc, local, damaged, calm>>

BecomeCalm ==
  /\ ~calm /\ calm' = TRUE
  /\ UNCHANGED <<disk, pc, local, damaged>>

Program ==
  \/ Launch \/ ExtractDone \/ ExtractRename \/ Manifest
  \/ CacheCheck \/ CopyRename \/ VerRemove \/ VerRename \/ English \/ EnglishRename
  \/ PatchSkipped \/ PatchBackup \/ PatchRename \/ PatchRestore \/ PatchEnd
  \/ MarkerRemove \/ MarkerRename \/ RemoveMedia \/ End
  \/ \E f \in Files : ExtractRemove(f)
  \/ \E f \in Managed : CopyRemove(f)

Next ==
  \/ Program
  \/ ExtractFault \/ RenameFault \/ ManifestFault \/ CacheFault \/ MarkerFault
  \/ Crash \/ BecomeCalm \/ \E v \in Versions : PlaceApk(v)

Spec == Init /\ [][Next]_vars

\* The program runs, and the user starts it again when it has ended.
FairSpec == Spec /\ WF_vars(Program)

-----------------------------------------------------------------------------
(***************************************************************************)
(* Properties.                                                              *)
(***************************************************************************)
Content == Versions \cup {Missing}

\* The type invariant; only the data file the patch was made for is patched.
TypeOK ==
  /\ files \in [Files -> Content] /\ patched \in BOOLEAN /\ bak \in Content
  /\ cache \in [Cached -> Content] /\ unityVer \in Content
  /\ marker \in BOOLEAN /\ apk \in Content
  /\ pc \in {"off", "extract", "rename", "manifest", "cache", "copy", "copyrename", "verrename",
             "english", "englishrename", "patch", "patchrename", "patchend", "marker",
             "markerrename", "media", "started", "failed"}
  /\ todo \subseteq Files /\ cur \in Files
  /\ fast \in BOOLEAN /\ damaged \in BOOLEAN /\ calm \in BOOLEAN
  /\ patched => files["data"] \in Patchable
  /\ pc \in {"rename", "copyrename"} => cur \in todo

\* All files are there and belong to one version of the game.
Complete == \E v \in Versions : \A f \in Files : files[f] = v

\* The marker of an installation stands for all of its files, whatever crashes and
\* failures came before it, except while the patch replaces the data file.
MarkerMeansComplete ==
  marker /\ ~damaged /\ pc # "patchrename" => Complete

\* The game starts with all files of one version and with caches made from them.
StartedComplete ==
  At("started") /\ ~damaged =>
    /\ Complete
    /\ \A f \in Managed : cache[f] = files[f]
    /\ cache["english"] # Missing /\ unityVer = files["guid"]

\* Until the marker is written the APK, once supplied, is kept: what has been
\* extracted can always be made again.
MediaKept ==
  ~damaged /\ apk = Missing => marker \/ \A f \in Files : files[f] = Missing

\* Once nothing fails any more, an installation or an APK is enough for the game to
\* start, if no installed data file was lost.
StartsUnlessDamaged ==
  (calm /\ ~damaged /\ (marker \/ apk # Missing)) ~> At("started")

\* README.md: with the APK in place, launching the program prepares the files.
LaunchPrepares ==
  (calm /\ apk # Missing) ~> At("started")
=============================================================================
