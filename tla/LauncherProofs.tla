---------------------------- MODULE LauncherProofs ----------------------------
(***************************************************************************)
(* From the SD card to a frame.  For any versions and files the marker of   *)
(* an installation stands for all of its files; for any heap the arenas     *)
(* fit, and nothing runs half made; for any threads and descriptors a       *)
(* wake-up is kept; for any callbacks, table and clock the game's time      *)
(* never runs backwards and an accepted callback runs exactly once; a       *)
(* failed GL call is seen by the thread that made it; and the game is told  *)
(* of one pointer.                                                          *)
(***************************************************************************)
EXTENDS Installer, Boot, Waiting, FrameClock, GfxReclaim, PointerInput, FiniteSetTheorems, TLAPS

-----------------------------------------------------------------------------
(***************************************************************************)
(* The installer.                                                           *)
(***************************************************************************)
\* Where the program has all files.
Prepared == {"manifest", "cache", "copy", "copyrename", "verrename", "english", "englishrename",
             "patch", "patchend", "marker", "markerrename", "media", "started"}

\* What an extraction has done is of the version of the APK, and there is no marker.
Extracting ==
  pc \in {"extract", "rename"} =>
    /\ ~marker /\ apk \in Versions
    /\ \A f \in Files \ todo : files[f] = apk

\* In the middle of the patch the data file is the backup.
Patching ==
  pc = "patchrename" =>
    /\ bak \in Versions
    /\ \A f \in Files \ {"data"} : files[f] = bak

\* The marker is only there before the program writes it if it was found.
MarkerFound ==
  pc \in (Prepared \cup {"patchrename"}) \ {"media", "started", "marker", "markerrename"} /\ marker => fast

\* An installation in progress has its APK.
Supplied ==
  /\ apk = Missing => marker \/ \A f \in Files : files[f] = Missing
  /\ pc \in (Prepared \cup {"patchrename"}) \ {"media", "started"} /\ ~fast => apk # Missing
  /\ pc \in {"marker", "markerrename"} => apk # Missing

\* The strengthening of MarkerMeansComplete and MediaKept that every step keeps.
Undamaged ==
  /\ MarkerMeansComplete
  /\ Supplied
  /\ pc \in Prepared => Complete
  /\ Extracting
  /\ Patching
  /\ MarkerFound

\* Where the data file is being replaced it does not count as patched.
PatchState ==
  /\ pc = "rename" /\ cur = "data" => ~patched
  /\ pc = "patchrename" => ~patched /\ bak \in Patchable

TypeInv == TypeOK /\ PatchState

\* Where all caches of the library's files have been copied.
AfterCopy == {"verrename", "english", "englishrename", "patch", "patchrename", "patchend",
              "marker", "markerrename", "media", "started"}

\* Every cache, and unity.ver, is of version v or an older one.
NotNewer(v) == unityVer <= v /\ \A f \in Cached : cache[f] <= v

\* Nothing on the card is newer than the APK there is, nor a cache newer than the
\* files of an installation.
Ordered ==
  /\ apk # Missing => NotNewer(apk) /\ files["guid"] <= apk
  /\ marker \/ apk = Missing \/ pc \in Prepared \cup {"patchrename"} => NotNewer(files["guid"])

\* No cache is older than unity.ver: copies are made before it is replaced.
UnityVerOldest == \A f \in Managed : cache[f] # Missing => unityVer <= cache[f]

\* What the program has copied so far.
Copied ==
  /\ pc \in {"copy", "copyrename"} => \A f \in Managed \ todo : cache[f] = files["guid"]
  /\ pc \in AfterCopy => \A f \in Managed : cache[f] = files["guid"]
  /\ pc \in AfterCopy \ {"verrename"} => unityVer = files["guid"]
  /\ pc \in AfterCopy \ {"verrename", "english", "englishrename"} => cache["english"] # Missing

\* The strengthening of the cache part of StartedComplete.
CacheInv == Ordered /\ UnityVerOldest /\ Copied

IInv == TypeInv /\ (~damaged => Undamaged /\ CacheInv)

\* The files the steps name are files.
LEMMA FileNames == "data" \in Files /\ "guid" \in Files /\ Managed \subseteq Files
                   /\ Checked \subseteq Files /\ Cached \subseteq Files
                   /\ "manifest" \in Files /\ "english" \in Cached /\ Managed \subseteq Cached
  BY InstallerAssumption DEF Files, Cached

\* Every step keeps the types and the state of the patch.
LEMMA TypeStep ==
  ASSUME TypeInv, [Next]_vars
  PROVE  TypeInv'
<1> USE FileNames, InstallerAssumption DEF TypeInv, PatchState, TypeOK, Content, Missing
<1>1. CASE Launch
  BY <1>1 DEF Launch, Installed, At, Goto, NoLocals, disk, local
<1>2. CASE ExtractDone
  BY <1>2 DEF ExtractDone, RuntimeFilesPresent, At, Goto, NoLocals, disk, local
<1>3. CASE ExtractRename
  BY <1>3 DEF ExtractRename, At, Goto, NoLocals, disk, local
<1>4. CASE Manifest
  BY <1>4 DEF Manifest, At, Goto, NoLocals, disk, local
<1>5. CASE CacheCheck
  BY <1>5 DEF CacheCheck, CacheReady, At, Goto, NoLocals, disk, local
<1>6. CASE CopyRename
  BY <1>6 DEF CopyRename, At, Goto, NoLocals, disk, local
<1>7. CASE VerRemove
  BY <1>7 DEF VerRemove, At, Goto, NoLocals, disk, local
<1>8. CASE VerRename
  BY <1>8 DEF VerRename, At, Goto, NoLocals, disk, local
<1>9. CASE English
  BY <1>9 DEF English, At, Goto, NoLocals, disk, local
<1>10. CASE EnglishRename
  BY <1>10 DEF EnglishRename, At, Goto, NoLocals, disk, local
<1>11. CASE PatchSkipped
  BY <1>11 DEF PatchSkipped, PatchApplies, AfterPatch, At, Goto, NoLocals, disk, local
<1>12. CASE PatchBackup
  BY <1>12 DEF PatchBackup, PatchApplies, At, Goto, NoLocals, disk, local
<1>13. CASE PatchRename
  BY <1>13 DEF PatchRename, At, Goto, NoLocals, disk, local
<1>14. CASE PatchRestore
  BY <1>14 DEF PatchRestore, AfterPatch, At, Goto, NoLocals, disk, local
<1>15. CASE PatchEnd
  BY <1>15 DEF PatchEnd, AfterPatch, At, Goto, NoLocals, disk, local
<1>16. CASE MarkerRemove
  BY <1>16 DEF MarkerRemove, At, Goto, NoLocals, disk, local
<1>17. CASE MarkerRename
  BY <1>17 DEF MarkerRename, At, Goto, NoLocals, disk, local
<1>18. CASE RemoveMedia
  BY <1>18 DEF RemoveMedia, Installed, At, Goto, NoLocals, disk, local
<1>19. CASE End
  BY <1>19 DEF End, At, Goto, NoLocals, disk, local
<1>20. CASE ExtractFault
  BY <1>20 DEF ExtractFault, Fault, At, Goto, NoLocals, disk, local
<1>21. CASE RenameFault
  BY <1>21 DEF RenameFault, Fault, At, Goto, NoLocals, disk, local
<1>22. CASE ManifestFault
  BY <1>22 DEF ManifestFault, Fault, At, Goto, NoLocals, disk, local
<1>23. CASE CacheFault
  BY <1>23 DEF CacheFault, Fault, At, Goto, NoLocals, disk, local
<1>24. CASE MarkerFault
  BY <1>24 DEF MarkerFault, Fault, At, Goto, NoLocals, disk, local
<1>25. CASE Crash
  BY <1>25 DEF Crash, At, Goto, NoLocals, disk, local
<1>26. CASE BecomeCalm
  BY <1>26 DEF BecomeCalm, At, Goto, NoLocals, disk, local
<1>27. CASE \E f \in Files : ExtractRemove(f)
  BY <1>27 DEF ExtractRemove, At, Goto, NoLocals, disk, local
<1>28. CASE \E f \in Managed : CopyRemove(f)
  BY <1>28 DEF CopyRemove, At, Goto, NoLocals, disk, local
<1>29. CASE \E v \in Versions : PlaceApk(v)
  BY <1>29 DEF PlaceApk, At, Goto, NoLocals, disk, local
<1>30. CASE UNCHANGED vars
  BY <1>30 DEF vars, At, Goto, NoLocals, disk, local
<1> QED
  BY <1>1, <1>2, <1>3, <1>4, <1>5, <1>6, <1>7, <1>8, <1>9, <1>10, <1>11, <1>12, <1>13, <1>14,
     <1>15, <1>16, <1>17, <1>18, <1>19, <1>20, <1>21, <1>22, <1>23, <1>24, <1>25, <1>26, <1>27, <1>28, <1>29, <1>30 DEF Next, Program

\* The type invariant, for all versions and files.
THEOREM TypeCorrect == Spec => []TypeOK
<1>1. Init => TypeInv
  BY FileNames, InstallerAssumption DEF Init, TypeInv, PatchState, TypeOK, Content, Missing
<1>2. TypeInv => TypeOK
  BY DEF TypeInv
<1> QED
  BY <1>1, <1>2, TypeStep, PTL DEF Spec

\* While no installed data file was lost, a step keeps the marker and the files so.
LEMMA UndamagedStep ==
  ASSUME TypeInv, Undamaged, [Next]_vars, ~damaged'
  PROVE  Undamaged'
<1> USE FileNames, InstallerAssumption DEF TypeInv, PatchState, TypeOK, Content, Missing,
                                           Undamaged,
        MarkerMeansComplete, Prepared, Supplied, Extracting, Patching, MarkerFound, Complete
<1>1. CASE Launch
  BY <1>1 DEF Launch, Installed, RuntimeFilesPresent, At, Goto, NoLocals, disk, local
<1>2. CASE ExtractDone
  BY <1>2 DEF ExtractDone, RuntimeFilesPresent, At, Goto, NoLocals, disk, local
<1>3. CASE ExtractRename
  BY <1>3 DEF ExtractRename, At, Goto, NoLocals, disk, local
<1>4. CASE Manifest
  BY <1>4 DEF Manifest, At, Goto, NoLocals, disk, local
<1>5. CASE CacheCheck
  BY <1>5 DEF CacheCheck, CacheReady, At, Goto, NoLocals, disk, local
<1>6. CASE CopyRename
  BY <1>6 DEF CopyRename, At, Goto, NoLocals, disk, local
<1>7. CASE VerRemove
  BY <1>7 DEF VerRemove, At, Goto, NoLocals, disk, local
<1>8. CASE VerRename
  BY <1>8 DEF VerRename, At, Goto, NoLocals, disk, local
<1>9. CASE English
  BY <1>9 DEF English, At, Goto, NoLocals, disk, local
<1>10. CASE EnglishRename
  BY <1>10 DEF EnglishRename, At, Goto, NoLocals, disk, local
<1>11. CASE PatchSkipped
  BY <1>11 DEF PatchSkipped, PatchApplies, AfterPatch, At, Goto, NoLocals, disk, local
<1>12. CASE PatchBackup
  BY <1>12 DEF PatchBackup, PatchApplies, At, Goto, NoLocals, disk, local
<1>13. CASE PatchRename
  BY <1>13 DEF PatchRename, At, Goto, NoLocals, disk, local
<1>14. CASE PatchRestore
  BY <1>14 DEF PatchRestore, AfterPatch, At, Goto, NoLocals, disk, local
<1>15. CASE PatchEnd
  BY <1>15 DEF PatchEnd, AfterPatch, At, Goto, NoLocals, disk, local
<1>16. CASE MarkerRemove
  BY <1>16 DEF MarkerRemove, At, Goto, NoLocals, disk, local
<1>17. CASE MarkerRename
  BY <1>17 DEF MarkerRename, At, Goto, NoLocals, disk, local
<1>18. CASE RemoveMedia
  BY <1>18 DEF RemoveMedia, Installed, At, Goto, NoLocals, disk, local
<1>19. CASE End
  BY <1>19 DEF End, At, Goto, NoLocals, disk, local
<1>20. CASE ExtractFault
  BY <1>20 DEF ExtractFault, Fault, At, Goto, NoLocals, disk, local
<1>21. CASE RenameFault
  BY <1>21 DEF RenameFault, Fault, At, Goto, NoLocals, disk, local
<1>22. CASE ManifestFault
  BY <1>22 DEF ManifestFault, Fault, At, Goto, NoLocals, disk, local
<1>23. CASE CacheFault
  BY <1>23 DEF CacheFault, Fault, At, Goto, NoLocals, disk, local
<1>24. CASE MarkerFault
  BY <1>24 DEF MarkerFault, Fault, At, Goto, NoLocals, disk, local
<1>25. CASE Crash
  BY <1>25 DEF Crash, At, Goto, NoLocals, disk, local
<1>26. CASE BecomeCalm
  BY <1>26 DEF BecomeCalm, At, Goto, NoLocals, disk, local
<1>27. CASE \E f \in Files : ExtractRemove(f)
  BY <1>27 DEF ExtractRemove, At, Goto, NoLocals, disk, local
<1>28. CASE \E f \in Managed : CopyRemove(f)
  BY <1>28 DEF CopyRemove, At, Goto, NoLocals, disk, local
<1>29. CASE \E v \in Versions : PlaceApk(v)
  BY <1>29 DEF PlaceApk, At, Goto, NoLocals, disk, local
<1>30. CASE UNCHANGED vars
  BY <1>30 DEF vars, At, Goto, NoLocals, disk, local
<1> QED
  BY <1>1, <1>2, <1>3, <1>4, <1>5, <1>6, <1>7, <1>8, <1>9, <1>10, <1>11, <1>12, <1>13, <1>14,
     <1>15, <1>16, <1>17, <1>18, <1>19, <1>20, <1>21, <1>22, <1>23, <1>24, <1>25, <1>26, <1>27, <1>28, <1>29, <1>30 DEF Next, Program

\* The versions of the caches are numbers.
LEMMA CacheNumbers ==
  ASSUME TypeInv
  PROVE  \A f \in Cached : cache[f] \in Nat
<1>1. Content \subseteq Nat
  BY InstallerAssumption DEF Content, Missing
<1>2. cache \in [Cached -> Content]
  BY DEF TypeInv, TypeOK
<1> QED
  BY <1>1, <1>2

\* While no installed data file was lost, a step keeps the caches in step with the files.
LEMMA CacheStep ==
  ASSUME TypeInv, Undamaged, CacheInv, [Next]_vars, ~damaged'
  PROVE  CacheInv'
<1> USE FileNames, InstallerAssumption DEF TypeInv, PatchState, TypeOK, Content, Missing,
                                           Undamaged,
        MarkerMeansComplete, Prepared, Supplied, Extracting, Patching, MarkerFound, Complete,
        AfterCopy, NotNewer, Ordered, UnityVerOldest, Copied, CacheInv
<1>1. CASE Launch
  BY <1>1 DEF Launch, Installed, RuntimeFilesPresent, At, Goto, NoLocals, disk, local
<1>2. CASE ExtractDone
  BY <1>2 DEF ExtractDone, RuntimeFilesPresent, At, Goto, NoLocals, disk, local
<1>3. CASE ExtractRename
  BY <1>3 DEF ExtractRename, At, Goto, NoLocals, disk, local
<1>4. CASE Manifest
  BY <1>4 DEF Manifest, At, Goto, NoLocals, disk, local
<1>5. CASE CacheCheck
  <2>1. UNCHANGED disk /\ pc = "cache" /\ pc' \in {"english", "copy"}
    BY <1>5 DEF CacheCheck, At, Goto
  <2>2. unityVer <= files["guid"] /\ \A f \in Managed : cache[f] \in Nat /\ cache[f] <= files["guid"]
    <3>1. \A f \in Cached : cache[f] \in Nat
      BY CacheNumbers
    <3>2. NotNewer(files["guid"])
      BY <2>1 DEF CacheInv, Ordered, Prepared
    <3> QED
      BY <3>1, <3>2, FileNames DEF NotNewer
  <2>3. CASE CacheReady
    <3>1. \A f \in Managed : cache[f] = files["guid"]
      BY <2>2, <2>3 DEF CacheReady, SameSize
    <3>2. unityVer = files["guid"] /\ pc' = "english"
      BY <1>5, <2>3 DEF CacheCheck, CacheReady, Goto
    <3> QED
      BY <2>1, <3>1, <3>2 DEF disk
  <2>4. CASE ~CacheReady
    <3>1. pc' = "copy" /\ todo' = Managed
      BY <1>5, <2>4 DEF CacheCheck, Goto
    <3> QED
      BY <2>1, <3>1 DEF disk
  <2> QED
    BY <2>3, <2>4
<1>6. CASE CopyRename
  BY <1>6 DEF CopyRename, At, Goto, NoLocals, disk, local
<1>7. CASE VerRemove
  BY <1>7 DEF VerRemove, At, Goto, NoLocals, disk, local
<1>8. CASE VerRename
  BY <1>8 DEF VerRename, At, Goto, NoLocals, disk, local
<1>9. CASE English
  BY <1>9 DEF English, SameSize, At, Goto, NoLocals, disk, local
<1>10. CASE EnglishRename
  BY <1>10 DEF EnglishRename, At, Goto, NoLocals, disk, local
<1>11. CASE PatchSkipped
  BY <1>11 DEF PatchSkipped, PatchApplies, AfterPatch, At, Goto, NoLocals, disk, local
<1>12. CASE PatchBackup
  BY <1>12 DEF PatchBackup, PatchApplies, At, Goto, NoLocals, disk, local
<1>13. CASE PatchRename
  BY <1>13 DEF PatchRename, At, Goto, NoLocals, disk, local
<1>14. CASE PatchRestore
  BY <1>14 DEF PatchRestore, AfterPatch, At, Goto, NoLocals, disk, local
<1>15. CASE PatchEnd
  BY <1>15 DEF PatchEnd, AfterPatch, At, Goto, NoLocals, disk, local
<1>16. CASE MarkerRemove
  BY <1>16 DEF MarkerRemove, At, Goto, NoLocals, disk, local
<1>17. CASE MarkerRename
  BY <1>17 DEF MarkerRename, At, Goto, NoLocals, disk, local
<1>18. CASE RemoveMedia
  BY <1>18 DEF RemoveMedia, Installed, At, Goto, NoLocals, disk, local
<1>19. CASE End
  BY <1>19 DEF End, At, Goto, NoLocals, disk, local
<1>20. CASE ExtractFault
  BY <1>20 DEF ExtractFault, Fault, At, Goto, NoLocals, disk, local
<1>21. CASE RenameFault
  BY <1>21 DEF RenameFault, Fault, At, Goto, NoLocals, disk, local
<1>22. CASE ManifestFault
  BY <1>22 DEF ManifestFault, Fault, At, Goto, NoLocals, disk, local
<1>23. CASE CacheFault
  BY <1>23 DEF CacheFault, Fault, At, Goto, NoLocals, disk, local
<1>24. CASE MarkerFault
  BY <1>24 DEF MarkerFault, Fault, At, Goto, NoLocals, disk, local
<1>25. CASE Crash
  BY <1>25 DEF Crash, At, Goto, NoLocals, disk, local
<1>26. CASE BecomeCalm
  BY <1>26 DEF BecomeCalm, At, Goto, NoLocals, disk, local
<1>27. CASE \E f \in Files : ExtractRemove(f)
  BY <1>27 DEF ExtractRemove, At, Goto, NoLocals, disk, local
<1>28. CASE \E f \in Managed : CopyRemove(f)
  BY <1>28 DEF CopyRemove, At, Goto, NoLocals, disk, local
<1>29. CASE \E v \in Versions : PlaceApk(v)
  BY <1>29 DEF PlaceApk, At, Goto, NoLocals, disk, local
<1>30. CASE UNCHANGED vars
  BY <1>30 DEF vars, At, Goto, NoLocals, disk, local
<1> QED
  BY <1>1, <1>2, <1>3, <1>4, <1>5, <1>6, <1>7, <1>8, <1>9, <1>10, <1>11, <1>12, <1>13, <1>14,
     <1>15, <1>16, <1>17, <1>18, <1>19, <1>20, <1>21, <1>22, <1>23, <1>24, <1>25, <1>26, <1>27, <1>28, <1>29, <1>30 DEF Next, Program

\* What is lost stays recorded.
LEMMA DamageLasts ==
  ASSUME TypeInv, [Next]_vars, damaged
  PROVE  damaged'
  BY DEF Next, Program, vars, TypeInv, TypeOK, Launch, ExtractDone, ExtractRename, Manifest,
         CacheCheck, CopyRename, VerRemove, VerRename,
     English, EnglishRename, PatchSkipped, PatchBackup, PatchRename, PatchRestore, PatchEnd,
     MarkerRemove, MarkerRename, RemoveMedia, End, ExtractFault, RenameFault, ManifestFault,
     CacheFault, MarkerFault, Fault, Crash, BecomeCalm, ExtractRemove, CopyRemove, PlaceApk

\* The inductive invariant.
LEMMA InvariantHolds == Spec => []IInv
<1>1. Init => IInv
  <2>1. Init => TypeInv /\ Undamaged
    BY FileNames, InstallerAssumption DEF Init, TypeInv, PatchState, TypeOK, Content, Missing,
       Undamaged, MarkerMeansComplete, Prepared, Supplied, Extracting, Patching, MarkerFound
  <2>2. Init => CacheInv
    BY FileNames DEF Init, Missing, Prepared, AfterCopy, NotNewer, Ordered, UnityVerOldest,
                     Copied, CacheInv
  <2> QED
    BY <2>1, <2>2 DEF IInv
<1>2. IInv /\ [Next]_vars => IInv'
  <2> SUFFICES ASSUME IInv, [Next]_vars PROVE IInv'
    OBVIOUS
  <2>1. TypeInv'
    BY TypeStep DEF IInv
  <2>2. ~damaged' => ~damaged
    BY DamageLasts DEF IInv
  <2> QED
    BY <2>1, <2>2, UndamagedStep, CacheStep DEF IInv
<1> QED
  BY <1>1, <1>2, PTL DEF Spec

\* MarkerMeansComplete, whatever crashes and failures interrupt the installer.
THEOREM MarkerCorrect == Spec => []MarkerMeansComplete
<1>1. IInv => MarkerMeansComplete
  BY DEF IInv, Undamaged, MarkerMeansComplete
<1> QED
  BY <1>1, InvariantHolds, PTL

\* MediaKept: there is always an APK or an installation, once there has been one.
THEOREM MediaCorrect == Spec => []MediaKept
<1>1. IInv => MediaKept
  BY DEF IInv, Undamaged, Supplied, MediaKept
<1> QED
  BY <1>1, InvariantHolds, PTL

\* StartedComplete: the game starts with all its files, of one version, and with the
\* caches made from them, however often a copy was broken off before.
THEOREM StartCorrect == Spec => []StartedComplete
<1>1. IInv => StartedComplete
  BY FileNames DEF IInv, Undamaged, CacheInv, Copied, AfterCopy, Prepared, Complete, At,
                   StartedComplete
<1> QED
  BY <1>1, InvariantHolds, PTL

-----------------------------------------------------------------------------
(***************************************************************************)
(* Least and greatest numbers.                                              *)
(***************************************************************************)
\* A set of numbers up to a bound has a least ...
LEMMA Least ==
  ASSUME NEW n \in Nat, NEW A, A \subseteq 1..n, A # {}
  PROVE  \E k \in A : \A j \in A : k <= j
<1> DEFINE below(k) == {j \in A : j <= k}
           T == {below(k) : k \in A}
<1>1. T \subseteq FiniteSubsetsOf(1..n) /\ T # {}
  <2>1. IsFiniteSet(1..n)
    BY FS_Interval
  <2>2. \A k \in A : below(k) \subseteq 1..n
    OBVIOUS
  <2>3. \A k \in A : IsFiniteSet(below(k))
    BY <2>1, <2>2, FS_Subset
  <2> HIDE DEF below
  <2> QED  BY <2>2, <2>3 DEF FiniteSubsetsOf
<1>2. PICK x \in T : \A y \in T : <<y, x>> \notin StrictSubsetOrdering(1..n)
  <2> HIDE DEF T
  <2> QED  BY <1>1, FS_StrictSubsetOrderingWellFounded, WFMin
<1>3. PICK k \in A : x = below(k)
  OBVIOUS
<1>4. ASSUME NEW j \in A, j < k PROVE FALSE
  <2>1. below(j) \subseteq below(k) /\ k \in below(k) /\ k \notin below(j)
    <3>1. \A i \in A : i \in Int
      OBVIOUS
    <3>2. \A i \in A : i <= j => i <= k
      BY <1>4, <3>1
    <3>3. k <= k /\ ~(k <= j)
      BY <1>4, <3>1
    <3> QED  BY <3>2, <3>3
  <2>2. <<below(j), x>> \in StrictSubsetOrdering(1..n)
    BY <1>3, <2>1 DEF StrictSubsetOrdering
  <2> QED  BY <1>2, <2>2
<1> QED  BY <1>4

\* ... and a greatest.
LEMMA Greatest ==
  ASSUME NEW n \in Nat, NEW A, A \subseteq 0..n, A # {}
  PROVE  \E k \in A : \A j \in A : j <= k
<1> DEFINE B == {n + 1 - a : a \in A}
<1>0. \A a \in A : a \in Int /\ 0 <= a /\ a <= n
  OBVIOUS
<1>1. B \subseteq 1..n + 1 /\ B # {} /\ n + 1 \in Nat
  <2>1. \A a \in A : n + 1 - a \in 1..n + 1
    BY <1>0
  <2>2. B # {}
    OBVIOUS
  <2> QED  BY <2>1, <2>2
<1>2. PICK b \in B : \A c \in B : b <= c
  <2> HIDE DEF B
  <2> QED  BY <1>1, Least
<1>3. PICK a \in A : b = n + 1 - a
  OBVIOUS
<1>4. \A j \in A : n + 1 - j \in B /\ j \in Int /\ a \in Int
  BY <1>0
<1>5. \A j \in A : b <= n + 1 - j
  <2> HIDE DEF B
  <2> QED  BY <1>2, <1>4
<1> QED  BY <1>3, <1>4, <1>5

-----------------------------------------------------------------------------
(***************************************************************************)
(* The start.                                                               *)
(***************************************************************************)
\* Before the first guest code.
BeforeGuest == {"heap", "prepare", "load", "buildid", "relocate", "resolve", "unresolved",
                "finalize", "tls"}
\* The stages that go from library to library.
Looping == {"load", "relocate", "resolve", "finalize", "initarrays", "onload"}

\* What is known of a library.
LibRecs == [state : {"absent", "loaded", "relocated", "executable"},
            expected : BOOLEAN, begun : BOOLEAN,
            bound : {"nothing", "addend", "function", "null", "fallback"}]
\* Where a loop is.
Steps ==
  /\ step \in Nat \ {0}
  /\ stage \in Looping => step <= Len(Libs)
  /\ stage \in {"verify", "write"} => step <= Len(Groups)

BootTypes ==
  /\ lib \in [LibSet -> LibRecs] /\ Steps
  /\ word \in [Sites -> {"unread", "from", "to", "other"}]

\* Bound to a function, or a weak symbol left null.
Settled(m) == lib[m].bound \in {"function", "null"}
\* What guest code needs.
Mapped == tls /\ \A m \in LibSet : lib[m].state = "executable" /\ lib[m].expected /\ Settled(m)

\* How far the loader is: for every library, or for those the loop has been at.
Loading ==
  /\ stage \in BeforeGuest => ~GuestRuns
  /\ GuestRuns \/ stage \notin BeforeGuest \cup {"fatal"} => Mapped
  /\ stage \in {"relocate", "resolve", "unresolved", "finalize", "tls"} =>
       \A m \in LibSet : lib[m].expected
  /\ stage = "resolve" => \A i \in 1..step - 1 : lib[Libs[i]].bound \notin {"nothing", "addend"}
  /\ stage = "unresolved" => \A m \in LibSet : lib[m].bound \notin {"nothing", "addend"}
  /\ stage \in {"finalize", "tls"} => \A m \in LibSet : Settled(m)
  /\ stage = "finalize" => \A i \in 1..step - 1 : lib[Libs[i]].state = "executable"
  /\ stage = "tls" => \A m \in LibSet : lib[m].state = "executable"

\* A group that has been handled is complete, but for the one that may be skipped.
Handled(g) == GroupComplete(g) \/ (Groups[g] = {"cpu"} /\ ~cores)
Patched ==
  /\ stage \in {"verify", "write"} => \A g \in 1..step - 1 : Handled(g)
  /\ stage = "write" => \A s \in Group : word[s] \in {"from", "to"}
  /\ stage \in SessionStages => \A g \in 1..Len(Groups) : Handled(g)

BootIInv == BootTypes /\ Loading /\ Patched

\* The groups do not share a word.
LEMMA GroupsApart ==
  /\ Len(Groups) \in Nat \ {0}
  /\ \A g \in 1..Len(Groups) : Groups[g] \subseteq Sites
  /\ \A g, h \in 1..Len(Groups) : g # h => Groups[g] \cap Groups[h] = {}
<1>1. Len(Groups) = 6
  BY DEF Groups
<1>2. /\ Groups[1] = {"cpu"} /\ Groups[2] = {"fmod"} /\ Groups[3] = {"h1", "h2", "align"}
      /\ Groups[4] = {"g1", "g2"} /\ Groups[5] = {"choreo"} /\ Groups[6] = {"time"}
  BY DEF Groups
<1>3. \A g \in 1..6 : g \in {1, 2, 3, 4, 5, 6}
  OBVIOUS
<1> HIDE DEF Groups
<1>4. \A g \in 1..Len(Groups) : Groups[g] \subseteq Sites
  BY DEF Sites
<1> QED  BY <1>1, <1>2, <1>3, <1>4

\* A library is one of the list, and the loop that has been at all is done.
LEMMA Listed ==
  /\ Len(Libs) \in Nat \ {0}
  /\ \A i \in 1..Len(Libs) : Libs[i] \in LibSet
  /\ \A m \in LibSet : \E i \in 1..Len(Libs) : m = Libs[i]
BY BootAssumption DEF LibSet

\* A loop is never beyond its last library or group.
LEMMA StepsStep ==
  ASSUME Steps, [BootNext]_bootVars
  PROVE  Steps'
<1> USE DEF Steps, Looping
<1>0. Len(Libs) \in Nat \ {0} /\ Len(Groups) \in Nat \ {0}
  BY Listed, GroupsApart
<1>1. CASE UNCHANGED bootVars
  BY <1>1 DEF bootVars
<1>2. ASSUME NEW next, BootGoto(next) \/ Fatal PROVE Steps'
  BY <1>2, <1>0 DEF BootGoto, Fatal
<1>3. ASSUME NEW next, stage \in Looping, LoopTo(next) PROVE Steps'
  <2>1. CASE step < Len(Libs)
    BY <1>3, <1>0, <2>1 DEF LoopTo
  <2> QED  BY <1>3, <1>2, <2>1 DEF LoopTo
<1>4. ASSUME stage \in {"verify", "write"}, NextGroup PROVE Steps'
  <2>1. CASE step < Len(Groups)
    BY <1>4, <1>0, <2>1 DEF NextGroup
  <2> QED  BY <1>4, <1>2, <2>1 DEF NextGroup
<1> HIDE DEF Steps, Looping
<1>5. CASE (\E lo \in HeapStarts, size \in HeapSizes : InitHeap(lo, size)) \/ PrepareFiles
           \/ Load \/ CheckBuildId \/ Relocate
  BY <1>5, <1>2, <1>3 DEF Looping, InitHeap, PrepareFiles, Load, CheckBuildId, Relocate
<1>6. CASE Resolve \/ CheckUnresolved \/ Finalize \/ InstallTls \/ InitArray
  BY <1>6, <1>2, <1>3 DEF Looping, Resolve, CheckUnresolved, Finalize, InstallTls, InitArray
<1>7. CASE Verify \/ Skip \/ Write
  <2>1. CASE stage' = "write" /\ stage = "verify" /\ UNCHANGED step
    BY <2>1 DEF Steps, Looping
  <2>2. CASE UNCHANGED <<stage, step>>
    BY <2>2 DEF Steps
  <2> QED  BY <1>7, <1>2, <1>4, <2>1, <2>2 DEF Verify, Skip, Write
<1>8. CASE GuestStack \/ OnLoad \/ StartSession \/ EndSession
  BY <1>8, <1>2, <1>3 DEF Looping, GuestStack, OnLoad, StartSession, EndSession
<1> QED  BY <1>1, <1>5, <1>6, <1>7, <1>8 DEF BootNext

\* Every step keeps the shape of the state.
LEMMA BootTypesStep ==
  ASSUME BootTypes, [BootNext]_bootVars
  PROVE  BootTypes'
<1>1. Steps'
  BY StepsStep DEF BootTypes
<1>2. lib' \in [LibSet -> LibRecs]
  <2> USE DEF BootTypes, LibRecs
  <2>1. CASE UNCHANGED lib
    BY <2>1
  <2>2. CASE Load \/ Finalize
    BY <2>1, <2>2 DEF Load, Finalize, Become
  <2>3. CASE CheckBuildId
    <3>1. PICK expected \in [LibSet -> BOOLEAN] :
            lib' = [m \in LibSet |-> [lib[m] EXCEPT !.expected = expected[m]]]
      BY <2>3 DEF CheckBuildId
    <3>2. \A m \in LibSet : expected[m] \in BOOLEAN
      OBVIOUS
    <3>3. \A m \in LibSet : [lib[m] EXCEPT !.expected = expected[m]] \in LibRecs
      BY <3>2
    <3> QED  BY <3>1, <3>3
  <2>4. CASE Relocate
    BY <2>1, <2>4 DEF Relocate
  <2>5. CASE Resolve
    <3>1. PICK b \in {"function", "null", "fallback"} : lib' = [lib EXCEPT ![This].bound = b]
      BY <2>5 DEF Resolve, Bound, Imports
    <3> QED  BY <3>1
  <2>6. CASE InitArray
    BY <2>6 DEF InitArray
  <2> QED
    BY <2>1, <2>2, <2>3, <2>4, <2>5, <2>6
    DEF BootNext, bootVars, InitHeap, PrepareFiles, CheckUnresolved, InstallTls, Verify, Skip,
        Write, GuestStack, OnLoad, StartSession, EndSession
<1>3. word' \in [Sites -> {"unread", "from", "to", "other"}]
  <2> USE DEF BootTypes
  <2>1. CASE UNCHANGED word
    BY <2>1
  <2>2. CASE Verify
    BY <2>2 DEF Verify
  <2>3. CASE Write
    BY <2>1, <2>3 DEF Write
  <2> QED
    BY <2>1, <2>2, <2>3
    DEF BootNext, bootVars, InitHeap, PrepareFiles, CheckUnresolved, InstallTls, Skip,
        GuestStack, OnLoad, StartSession, EndSession, Load, Finalize, CheckBuildId, Relocate,
        Resolve, InitArray
<1> QED  BY <1>1, <1>2, <1>3 DEF BootTypes

\* Where lib and tls stay, only the stage decides.
LEMMA LibsStay ==
  ASSUME BootTypes, Loading, UNCHANGED <<lib, tls>>,
         \/ stage' = stage /\ step' = step
         \/ stage' = "fatal"
         \/ stage' \in {"prepare", "load", "buildid"} /\ stage \in {"heap", "prepare", "load"}
         \/ stage = "unresolved" /\ stage' = "finalize" /\ step' = 1
            /\ \A m \in LibSet : lib[m].bound # "fallback"
         \/ stage \notin BeforeGuest \cup {"fatal"} /\ stage' \notin BeforeGuest \cup {"fatal"}
  PROVE  Loading'
<1>1. GuestRuns' = GuestRuns /\ Mapped' = Mapped /\ \A m \in LibSet : Settled(m)' = Settled(m)
  BY DEF GuestRuns, Mapped, Settled
<1>2. CASE stage' = stage /\ step' = step
  BY <1>1, <1>2 DEF Loading, BeforeGuest
<1>3. CASE stage' = "fatal"
  BY <1>1, <1>3 DEF Loading, BeforeGuest
<1>4. CASE stage' \in {"prepare", "load", "buildid"} /\ stage \in {"heap", "prepare", "load"}
  BY <1>1, <1>4 DEF Loading, BeforeGuest
<1>5. CASE stage = "unresolved" /\ stage' = "finalize" /\ step' = 1
           /\ \A m \in LibSet : lib[m].bound # "fallback"
  <2>1. \A m \in LibSet : Settled(m)
    BY <1>5 DEF BootTypes, LibRecs, Loading, Settled
  <2> QED  BY <1>1, <1>5, <2>1 DEF Loading, BeforeGuest
<1>6. CASE stage \notin BeforeGuest \cup {"fatal"} /\ stage' \notin BeforeGuest \cup {"fatal"}
  BY <1>1, <1>6 DEF Loading, BeforeGuest
<1> QED  BY <1>2, <1>3, <1>4, <1>5, <1>6

\* The loader, stage by stage: a stage is left only when its loop has been at every library.
LEMMA LoadingStep ==
  ASSUME BootTypes, Loading, [BootNext]_bootVars
  PROVE  Loading'
<1> USE DEF BootTypes, Steps, LibRecs
<1>0. /\ Len(Libs) \in Nat \ {0}
      /\ \A i \in 1..Len(Libs) : Libs[i] \in LibSet
      /\ \A m \in LibSet : \E i \in 1..Len(Libs) : m = Libs[i]
  BY Listed
<1>1. CASE UNCHANGED bootVars
  BY <1>1, LibsStay DEF bootVars
<1>2. CASE (\E lo \in HeapStarts, size \in HeapSizes : InitHeap(lo, size)) \/ PrepareFiles
  BY <1>2, LibsStay DEF InitHeap, PrepareFiles, BootGoto, Fatal
<1>3. CASE Load
  <2>1. CASE UNCHANGED lib
    BY <1>3, <2>1, LibsStay DEF Load, Fatal, BootGoto, LoopTo
  <2>2. CASE stage' \in {"load", "buildid"} /\ Become(This, "loaded") /\ stage = "load"
    BY <2>2 DEF Become, Loading, BeforeGuest, GuestRuns
  <2> QED  BY <1>3, <2>1, <2>2 DEF Load, BootGoto, LoopTo
<1>4. CASE CheckBuildId
  <2>1. ~GuestRuns'
    <3>1. \A m \in LibSet : lib'[m].begun = lib[m].begun
      BY <1>4 DEF CheckBuildId
    <3> QED  BY <1>4, <3>1 DEF CheckBuildId, Loading, BeforeGuest, GuestRuns
  <2>2. stage' = "fatal" \/ (stage' = "relocate" /\ \A m \in LibSet : lib'[m].expected)
    BY <1>4 DEF CheckBuildId, BootGoto, Fatal
  <2> QED  BY <2>1, <2>2 DEF Loading, BeforeGuest
<1>5. CASE Relocate
  <2>1. CASE stage' = "fatal" /\ UNCHANGED lib
    BY <1>5, <2>1, LibsStay DEF Relocate
  <2>2. CASE ~(stage' = "fatal" /\ UNCHANGED lib)
    <3>1. /\ stage = "relocate"
          /\ stage' = "relocate" \/ (stage' = "resolve" /\ step' = 1)
          /\ lib' = [lib EXCEPT ![This].state = "relocated", ![This].bound = "addend"]
      BY <1>5, <2>2 DEF Relocate, LoopTo, BootGoto, Fatal
    <3>2. ~GuestRuns' /\ \A m \in LibSet : lib'[m].expected
      BY <3>1 DEF Loading, BeforeGuest, GuestRuns
    <3> QED  BY <3>1, <3>2 DEF Loading, BeforeGuest
  <2> QED  BY <2>1, <2>2
<1>6. CASE Resolve
  <2>1. PICK b \in {"function", "null", "fallback"} : lib' = [lib EXCEPT ![This].bound = b]
    BY <1>6 DEF Resolve, Bound, Imports
  <2>2. \A m \in LibSet : /\ lib'[m].begun = lib[m].begun /\ lib'[m].expected = lib[m].expected
                          /\ lib'[m].bound = IF m = Libs[step] THEN b ELSE lib[m].bound
    BY <2>1 DEF This
  <2>3. ~GuestRuns' /\ (\A m \in LibSet : lib'[m].expected)
    BY <1>6, <2>2 DEF Resolve, Loading, BeforeGuest, GuestRuns
  <2>4. \A i \in 1..step : lib'[Libs[i]].bound \notin {"nothing", "addend"}
    BY <1>6, <2>2, <1>0 DEF Resolve, Loading, Looping
  <2>5. CASE step < Len(Libs)
    BY <1>6, <2>3, <2>4, <2>5 DEF Resolve, LoopTo, Loading, BeforeGuest, Looping
  <2>6. CASE ~(step < Len(Libs))
    <3>1. \A m \in LibSet : lib'[m].bound \notin {"nothing", "addend"}
      BY <1>6, <1>0, <2>4, <2>6 DEF Resolve, Looping
    <3> QED  BY <1>6, <2>3, <2>6, <3>1 DEF Resolve, LoopTo, BootGoto, Loading, BeforeGuest
  <2> QED  BY <2>5, <2>6
<1>7. CASE CheckUnresolved
  BY <1>7, LibsStay DEF CheckUnresolved, BootGoto, Fatal
<1>8. CASE Finalize
  <2>1. CASE stage' = "fatal"
    BY <2>1, <1>8, LibsStay DEF Finalize, Become, Fatal, LoopTo, BootGoto
  <2>2. CASE stage' # "fatal"
    <3>0. stage = "finalize" /\ UNCHANGED tls /\ lib' = [lib EXCEPT ![This].state = "executable"]
          /\ LoopTo("tls")
      BY <1>8, <2>2 DEF Finalize, Become, Fatal
    <3>1. \A m \in LibSet : /\ lib'[m].begun = lib[m].begun /\ lib'[m].expected = lib[m].expected
                            /\ lib'[m].bound = lib[m].bound
                            /\ lib'[m].state = IF m = Libs[step] THEN "executable" ELSE lib[m].state
      BY <3>0 DEF This
    <3>2. ~GuestRuns' /\ (\A m \in LibSet : lib'[m].expected) /\ (\A m \in LibSet : Settled(m)')
      BY <3>0, <3>1 DEF Loading, BeforeGuest, GuestRuns, Settled
    <3>3. \A i \in 1..step : lib'[Libs[i]].state = "executable"
      BY <3>0, <3>1, <1>0 DEF Loading, Looping
    <3>4. CASE step < Len(Libs)
      BY <3>0, <3>2, <3>3, <3>4 DEF LoopTo, Loading, BeforeGuest, Looping
    <3>5. CASE ~(step < Len(Libs))
      <4>1. \A m \in LibSet : lib'[m].state = "executable"
        BY <3>0, <1>0, <3>3, <3>5 DEF Looping
      <4> QED  BY <3>0, <3>2, <3>5, <4>1 DEF LoopTo, BootGoto, Loading, BeforeGuest
    <3> QED  BY <3>4, <3>5
  <2> QED  BY <2>1, <2>2
<1>9. CASE InstallTls
  BY <1>9 DEF InstallTls, BootGoto, Loading, BeforeGuest, GuestRuns, Mapped, Settled
<1>10. CASE InitArray
  <2>1. stage = "initarrays" /\ Mapped /\ UNCHANGED tls /\ stage' \in {"initarrays", "verify"}
    BY <1>10 DEF InitArray, LoopTo, BootGoto, Loading, BeforeGuest
  <2>2. \A m \in LibSet : /\ lib'[m].expected = lib[m].expected
                          /\ lib'[m].bound = lib[m].bound /\ lib'[m].state = lib[m].state
    BY <1>10 DEF InitArray
  <2> QED  BY <2>1, <2>2 DEF Loading, BeforeGuest, Mapped, Settled
<1>11. CASE Verify \/ Skip \/ Write
  BY <1>11, LibsStay DEF Verify, Skip, Write, NextGroup, BootGoto, Fatal, BeforeGuest
<1>14. CASE GuestStack \/ OnLoad \/ StartSession \/ EndSession
  BY <1>14, LibsStay DEF GuestStack, OnLoad, StartSession, EndSession, BootGoto, Fatal, LoopTo,
                         BeforeGuest
<1> QED
  BY <1>1, <1>2, <1>3, <1>4, <1>5, <1>6, <1>7, <1>8, <1>9, <1>10, <1>11, <1>14 DEF BootNext

\* A group is left only when each of its words is written.
LEMMA PatchedStep ==
  ASSUME BootTypes, Patched, [BootNext]_bootVars
  PROVE  Patched'
<1> USE DEF BootTypes, Steps
<1>1. CASE word' = word /\ cores' = cores /\
           \/ stage' = stage /\ step' = step
           \/ stage' \notin SessionStages \cup {"verify", "write"}
           \/ stage' = "verify" /\ step' = 1
           \/ stage \in SessionStages /\ stage' \in SessionStages
  BY <1>1 DEF Patched, Handled, GroupComplete, SessionStages, Group
<1>2. CASE Verify
  <2>1. stage = "verify" /\ step \in 1..Len(Groups) /\ cores' = cores /\ (stage' # "fatal" => stage' = "write" /\ step' = step)
    BY <1>2 DEF Verify, Fatal
  <2>2. CASE stage' = "fatal"
    BY <2>2 DEF Patched, SessionStages
  <2>3. CASE stage' # "fatal"
    <3>1. /\ \A s \in Sites \ Group : word'[s] = word[s]
          /\ \A s \in Group : word'[s] \in {"from", "to"}
      BY <1>2, <2>1, <2>3, GroupsApart DEF Verify, Fatal, AllMatch, Accepted, Group
    <3>2. \A g \in 1..step - 1 : Handled(g)'
      BY <2>1, <3>1, GroupsApart DEF Patched, Handled, GroupComplete, Group
    <3> QED  BY <2>1, <2>3, <3>1, <3>2 DEF Patched, Group, SessionStages
  <2> QED  BY <2>2, <2>3
<1>3. ASSUME stage \in {"verify", "write"}, NextGroup, word' = word, cores' = cores, Handled(step)
      PROVE  Patched'
  <2>1. \A g \in 1..step : Handled(g)'
    BY <1>3 DEF Patched, Handled, GroupComplete
  <2>2. step \in 1..Len(Groups)
    BY <1>3
  <2>3. CASE step < Len(Groups)
    BY <1>3, <2>1, <2>2, <2>3, GroupsApart DEF NextGroup, Patched, SessionStages
  <2>4. CASE ~(step < Len(Groups))
    BY <1>3, <2>1, <2>2, <2>4, GroupsApart DEF NextGroup, BootGoto, Patched, SessionStages
  <2> QED  BY <2>3, <2>4
<1>4. CASE Skip
  BY <1>4, <1>3 DEF Skip, Skipped, Handled, Group
<1>5. CASE Write
  <2>1. CASE UNCHANGED <<stage, step>>
    <3>1. PICK s \in Group : word' = [word EXCEPT ![s] = "to"]
      BY <1>5, <2>1, GroupsApart DEF Write, NextGroup, BootGoto, Fatal
    <3>2. stage = "write" /\ cores' = cores /\ step \in 1..Len(Groups) /\ s \in Sites
      BY <1>5, <3>1, GroupsApart DEF Write, Group
    <3>3. \A r \in Sites : word'[r] = word[r] \/ word'[r] = "to"
      BY <3>1
    <3> QED  BY <2>1, <3>2, <3>3, GroupsApart DEF Patched, Handled, GroupComplete, Group,
                                                  SessionStages
  <2>2. CASE Fatal
    BY <2>2 DEF Fatal, Patched, SessionStages
  <2>3. CASE (\A s \in Group : word[s] # "from") /\ NextGroup /\ UNCHANGED word
    <3>1. Handled(step) /\ stage = "write" /\ cores' = cores
      BY <1>5, <2>3 DEF Write, Patched, Handled, GroupComplete, Group
    <3> QED  BY <1>3, <2>3, <3>1
  <2> QED  BY <1>5, <2>1, <2>2, <2>3 DEF Write
<1>6. CASE (\E lo \in HeapStarts, size \in HeapSizes : InitHeap(lo, size)) \/ PrepareFiles
           \/ Load \/ CheckBuildId \/ Relocate \/ Resolve \/ CheckUnresolved
  BY <1>6, <1>1 DEF InitHeap, PrepareFiles, Load, CheckBuildId, Relocate, Resolve,
                    CheckUnresolved,
                    BootGoto, Fatal, LoopTo, SessionStages
<1>7. CASE Finalize \/ InstallTls \/ InitArray
  BY <1>7, <1>1 DEF Finalize, InstallTls, InitArray, BootGoto, Fatal, LoopTo, SessionStages
<1>8. CASE GuestStack \/ OnLoad \/ StartSession \/ EndSession
  BY <1>8, <1>1 DEF GuestStack, OnLoad, StartSession, EndSession, BootGoto, Fatal, LoopTo,
                    SessionStages
<1>9. CASE UNCHANGED bootVars
  BY <1>9, <1>1 DEF bootVars
<1> QED  BY <1>2, <1>4, <1>5, <1>6, <1>7, <1>8, <1>9 DEF BootNext

\* Division by the size of a slot.
LEMMA Multiple ==
  ASSUME NEW s \in Nat \ {0}, NEW q \in Int
  PROVE  (q * s) % s = 0
OBVIOUS

\* The start of a slot that lies before n.
LEMMA Aligned ==
  ASSUME NEW n \in Nat
  PROVE  AlignDown(n) \in Nat /\ AlignDown(n) <= n /\ AlignDown(n) % Slot = 0
<1> PICK s \in Nat \ {0} : s = Slot
  BY BootAssumption
<1>1. (n \div s) * s <= n /\ (n \div s) \in Nat
  OBVIOUS
<1>2. (n \div s) * s \in Nat
  BY <1>1
<1> QED  BY <1>1, <1>2, Multiple DEF AlignDown

\* What leaves no remainder is a multiple.
LEMMA Divides ==
  ASSUME NEW s \in Nat \ {0}, NEW n \in Int, n % s = 0
  PROVE  \E q \in Int : n = q * s
OBVIOUS

\* Whole slots before a slot.
LEMMA AlignedBefore ==
  ASSUME NEW s \in Nat \ {0}, NEW n \in Nat, NEW a \in Nat, NEW m \in Nat,
         n % s = 0, m % s = 0, (m - a) % s = 0
  PROVE  (n - a) % s = 0
<1>0. n \in Int /\ m \in Int
  OBVIOUS
<1>1. PICK q \in Int : n = q * s
  BY <1>0, Divides
<1>2. PICK p \in Int : m = p * s
  BY <1>0, Divides
<1>3. PICK r \in Int : m - a = r * s
  <2>1. m - a \in Int
    OBVIOUS
  <2> QED  BY <2>1, Divides
<1>4. n - a = (q - p + r) * s
  BY <1>1, <1>2, <1>3
<1> QED  BY <1>4, Multiple

\* What is smaller than the modulus does not wrap.
LEMMA Small ==
  ASSUME NEW m \in Nat \ {0}, NEW n \in Nat, n < m
  PROVE  n % m = n
OBVIOUS

\* In the heap neither the sums of Fits nor its difference wrap.
LEMMA NoWrap ==
  ASSUME NEW lo \in HeapStarts, NEW top \in Nat, NEW a \in 0..ArenaMax,
         top < AddrSpan, Fits(lo, top, a)
  PROVE  /\ top - a - SoArena >= lo + MinNewlib
         /\ AddrMinus(top, a + SoArena) = top - a - SoArena
         /\ AddrMinus(top, a) = top - a
<1>1. /\ lo \in Nat /\ ArenaMax \in Nat /\ SoArena \in Nat /\ MinNewlib \in Nat
      /\ AddrSpan \in Nat \ {0} /\ lo + ArenaMax + SoArena + MinNewlib < AddrSpan
  BY BootAssumption
<1>2. a \in Nat /\ a <= ArenaMax
  BY <1>1
<1>3. AddrPlus(lo, a + SoArena) = lo + a + SoArena
  <2>1. lo + (a + SoArena) \in Nat /\ lo + (a + SoArena) < AddrSpan
    BY <1>1, <1>2
  <2>2. (lo + (a + SoArena)) % AddrSpan = lo + (a + SoArena)
    BY <1>1, <2>1, Small
  <2> QED  BY <1>1, <1>2, <2>2 DEF AddrPlus
<1>4. AddrPlus(lo, MinNewlib) = lo + MinNewlib
  <2>1. lo + MinNewlib \in Nat /\ lo + MinNewlib < AddrSpan
    BY <1>1
  <2> QED  BY <1>1, <2>1, Small DEF AddrPlus
<1>5. top >= lo + a + SoArena
  BY <1>3 DEF Fits
<1>6. AddrMinus(top, a + SoArena) = top - a - SoArena
  <2>1. top - (a + SoArena) \in Nat /\ top - (a + SoArena) < AddrSpan
    BY <1>1, <1>2, <1>5
  <2>2. (top - (a + SoArena)) % AddrSpan = top - (a + SoArena)
    BY <1>1, <2>1, Small
  <2> QED  BY <1>1, <1>2, <2>2 DEF AddrMinus
<1>7. AddrMinus(top, a) = top - a
  <2>1. top - a \in Nat /\ top - a < AddrSpan
    BY <1>1, <1>2, <1>5
  <2> QED  BY <1>1, <2>1, Small DEF AddrMinus
<1> QED  BY <1>4, <1>6, <1>7 DEF Fits

\* The heap is divided once.
LEMMA HeapStep ==
  ASSUME ArenasFit, [BootNext]_bootVars
  PROVE  ArenasFit'
<1>1. ASSUME NEW lo \in HeapStarts, NEW size \in HeapSizes, InitHeap(lo, size), stage' # "fatal"
      PROVE  ArenasFit'
  <2> DEFINE top == AlignDown(AddrPlus(lo, size))
             fit == ArenaSizes(lo, top)
             arena == CHOOSE a \in fit : \A b \in fit : b <= a
  <2>1. /\ lo \in Nat /\ size \in Nat /\ lo + size \in Nat
        /\ Slot \in Nat \ {0} /\ ArenaMax \in Nat /\ ArenaMax % Slot = 0
        /\ SoArena \in Nat /\ MinNewlib \in Nat
    BY BootAssumption
  <2>0. AddrPlus(lo, size) = lo + size /\ lo + size < AddrSpan
    <3>1. lo + size < AddrSpan /\ AddrSpan \in Nat \ {0}
      BY BootAssumption
    <3>2. (lo + size) % AddrSpan = lo + size
      BY <2>1, <3>1, Small
    <3> QED  BY <3>1, <3>2 DEF AddrPlus
  <2>2. top \in Nat /\ top <= lo + size /\ top % Slot = 0
    BY <2>0, <2>1, Aligned
  <2>3. /\ fit # {}
        /\ heap' = [lo |-> lo, so |-> AddrMinus(top, arena + SoArena), mmap |-> AddrMinus(top, arena),
                    top |-> top, hi |-> lo + size]
    BY <1>1, <2>0 DEF InitHeap, Fatal
  <2>4. fit \subseteq 0..ArenaMax
    BY <2>1 DEF ArenaSizes
  <2>5. arena \in fit
    <3> HIDE DEF fit
    <3>1. \E a \in fit : \A b \in fit : b <= a
      BY <2>1, <2>3, <2>4, Greatest
    <3> QED  BY <3>1
  <2>6. /\ arena \in Slot..ArenaMax /\ (ArenaMax - arena) % Slot = 0
        /\ top - arena - SoArena >= lo + MinNewlib
        /\ AddrMinus(top, arena + SoArena) = top - arena - SoArena
        /\ AddrMinus(top, arena) = top - arena
    <3> HIDE DEF top, arena
    <3>1. arena \in Slot..ArenaMax /\ (ArenaMax - arena) % Slot = 0 /\ Fits(lo, top, arena)
      BY <2>5 DEF ArenaSizes
    <3>2. arena \in 0..ArenaMax /\ top \in Nat /\ top < AddrSpan
      <4>1. AddrSpan \in Nat
        BY BootAssumption
      <4> QED  BY <2>0, <2>1, <2>2, <3>1, <4>1
    <3> QED  BY <3>1, <3>2, NoWrap
  <2> HIDE DEF top, arena, fit
  <2>7. arena \in Nat /\ Slot <= arena /\ arena <= ArenaMax
    BY <2>1, <2>6
  <2>8. (top - arena) % Slot = 0
    BY <2>1, <2>2, <2>6, <2>7, AlignedBefore
  <2>9. PICK a, t : a = arena /\ t = top
    OBVIOUS
  <2>10. /\ heap'.so = t - a - SoArena /\ heap'.mmap = t - a /\ heap'.lo = lo
         /\ heap'.top = t /\ heap'.hi = lo + size
    BY <2>3, <2>6, <2>9
  <2>11. /\ heap'.so - heap'.lo >= MinNewlib /\ heap'.mmap - heap'.so = SoArena
         /\ heap'.mmap < heap'.top /\ heap'.top - heap'.mmap <= ArenaMax /\ heap'.top <= heap'.hi
    BY <2>1, <2>2, <2>6, <2>7, <2>9, <2>10
  <2>12. heap'.mmap % Slot = 0 /\ heap'.top % Slot = 0
    BY <2>2, <2>8, <2>9, <2>10
  <2> QED  BY <2>11, <2>12 DEF ArenasFit
<1>2. CASE UNCHANGED heap /\ stage \notin {"heap", "fatal"}
  BY <1>2 DEF ArenasFit
<1>3. CASE UNCHANGED <<heap, stage>>
  BY <1>3 DEF ArenasFit
<1>4. CASE stage' = "fatal"
  BY <1>4 DEF ArenasFit
<1>5. CASE BootNext
  BY <1>1, <1>2, <1>4, <1>5
  DEF BootNext, PrepareFiles, Load, CheckBuildId, Relocate, Resolve, CheckUnresolved, Finalize,
      InstallTls, InitArray, Verify, Skip, Write, GuestStack, OnLoad, StartSession, EndSession
<1> QED  BY <1>3, <1>5 DEF bootVars

\* Initially nothing is loaded, read or patched.
LEMMA BootStarts ==
  ASSUME BootInit
  PROVE  BootIInv /\ ArenasFit
<1>1. lib \in [LibSet -> LibRecs] /\ word \in [Sites -> {"unread", "from", "to", "other"}]
  BY DEF BootInit, NotLoaded, LibRecs
<1>2. stage = "heap" /\ step = 1 /\ ~GuestRuns
  BY DEF BootInit, NotLoaded, GuestRuns
<1>3. BootTypes
  BY <1>1, <1>2 DEF BootTypes, Steps, Looping
<1>4. Loading
  BY <1>2 DEF Loading, BeforeGuest
<1>5. Patched /\ ArenasFit
  BY <1>2 DEF Patched, ArenasFit, SessionStages
<1> QED  BY <1>3, <1>4, <1>5 DEF BootIInv

\* The invariant says more than WholeOrNothing, for the stages in between.
LEMMA BootWhole ==
  ASSUME BootIInv
  PROVE  WholeOrNothing
<1>1. GuestRuns => tls /\ \A m \in LibSet : /\ lib[m].state = "executable" /\ lib[m].expected
                                            /\ lib[m].bound \in {"function", "null"}
  BY DEF BootIInv, Loading, Mapped, Settled
<1>2. stage \in SessionStages =>
        \A g \in 1..Len(Groups) : GroupComplete(g) \/ (Groups[g] = {"cpu"} /\ ~cores)
  BY DEF BootIInv, Patched, Handled
<1>3. stage = "write" => \A s \in Group : word[s] # "other"
  BY DEF BootIInv, Patched
<1> QED  BY <1>1, <1>2, <1>3 DEF WholeOrNothing

(***************************************************************************)
(* No guest code runs before all three libraries are of the expected build, *)
(* mapped, and bound (runtime_load_modules), whatever step fails, and the   *)
(* session starts with every group of patches whole (unity_patches_install).*)
(***************************************************************************)
THEOREM BootWholeOrNothing == BootSpec => []WholeOrNothing
<1>1. BootInit => BootIInv
  BY BootStarts
<1>2. BootIInv /\ [BootNext]_bootVars => BootIInv'
  BY BootTypesStep, LoadingStep, PatchedStep DEF BootIInv
<1>3. BootIInv => WholeOrNothing
  BY BootWhole
<1> QED  BY <1>1, <1>2, <1>3, PTL DEF BootSpec

(***************************************************************************)
(* For every heap the process may be given and every size of the parts,     *)
(* __libnx_initheap leaves newlib its minimum below the libraries' arena,   *)
(* and the mmap arena above it is made of whole aligned slots, inside the   *)
(* heap; a heap too small for any such arena ends the process.              *)
(***************************************************************************)
THEOREM HeapPartitioned == BootSpec => []ArenasFit
<1>1. BootInit => ArenasFit
  BY BootStarts
<1> QED  BY <1>1, HeapStep, PTL DEF BootSpec

-----------------------------------------------------------------------------
(***************************************************************************)
(* Waits.                                                                   *)
(***************************************************************************)
\* In pollOnce.
Polling == {"enter", "scan", "callback", "remove", "asleep", "relock"}

LooperRecs == [used : BOOLEAN, owner : Threads \cup {NoThread}, refs : Int, signaled : BOOLEAN,
               m : Threads \cup {NoThread}, regs : [Fds -> {"none", "ident", "callback"}]]

WaitLocs == [l : 0..NLoopers, ms : Int, ask : SUBSET Fds, left : SUBSET Fds, found : BOOLEAN]

WaitPlaces == Polling \cup {"idle", "crashed", "sample", "nap", "nothing"}

WaitTypes ==
  /\ looper \in [1..NLoopers -> LooperRecs]
  /\ held \in [Threads -> SUBSET (1..NLoopers)]
  /\ woken \in [Threads -> BOOLEAN] /\ steady \in [Threads -> SUBSET Fds]
  /\ waitPc \in [Threads -> WaitPlaces]
  /\ waitLoc \in [Threads -> WaitLocs]

\* The threads with a reference.
Holders(l) == {t \in Threads : l \in held[t]}

\* A looper in use belongs to a thread, which has a reference of its own ...
InUse(l) ==
  /\ looper[l].used => looper[l].owner \in Threads /\ looper[l].refs = 1 + Cardinality(Holders(l))
  /\ ~looper[l].used => Holders(l) = {}

\* ... and a thread polls its own.
PollsOwn == \A t \in Threads : waitPc[t] \in Polling => waitLoc[t].l \in Own(t)

LooperInv == WaitTypes /\ (\A l \in 1..NLoopers : InUse(l)) /\ PollsOwn /\ WakeKept

\* What was ready since poll's time ran out is still to be looked at.
Looks(u) ==
  /\ steady[u] \subseteq ready
  /\ waitPc[u] = "sample" /\ ~waitLoc[u].found => steady[u] \subseteq waitLoc[u].left
  /\ waitPc[u] = "nothing" => steady[u] = {}

\* The first of a set of loopers is one of them.
LEMMA FirstIn ==
  ASSUME NEW A, A \subseteq 1..NLoopers, A # {}
  PROVE  First(A) \in A
<1>1. \E l \in A : \A k \in A : l <= k
  BY WaitingAssumption, Least
<1> QED  BY <1>1 DEF First

\* Loopers are only taken into use, by a thread that has none.
LEMMA LoopGetIs ==
  ASSUME WaitTypes, NEW t \in Threads, LoopGet(t)
  PROVE  /\ looper' \in [1..NLoopers -> LooperRecs]
         /\ \/ UNCHANGED looper
            \/ \E l \in Free : /\ SlotFor(t) = l /\ l \in 1..NLoopers
                               /\ looper'[l] = [Unused EXCEPT !.used = TRUE, !.owner = t, !.refs = 1]
                               /\ \A k \in 1..NLoopers \ {l} : looper'[k] = looper[k]
         /\ SlotFor(t) # 0 => SlotFor(t) \in 1..NLoopers /\ looper'[SlotFor(t)].used
                              /\ looper'[SlotFor(t)].owner = t
         /\ SlotFor(t) \in 0..NLoopers
<1>0. /\ Own(t) \subseteq 1..NLoopers /\ Free \subseteq 1..NLoopers /\ NLoopers \in Nat
      /\ 0 \notin 1..NLoopers
  BY WaitingAssumption DEF Own, Free
<1>1. CASE Own(t) # {}
  <2>1. SlotFor(t) \in Own(t) /\ UNCHANGED looper
    BY <1>0, <1>1, FirstIn DEF SlotFor, LoopGet
  <2> QED  BY <2>1, <1>0 DEF Own, WaitTypes
<1>2. CASE Own(t) = {} /\ Free # {}
  <2>1. PICK l \in Free : SlotFor(t) = l /\ l \in 1..NLoopers
    BY <1>0, <1>2, FirstIn DEF SlotFor
  <2>2. PICK r : r = [Unused EXCEPT !.used = TRUE, !.owner = t, !.refs = 1]
    OBVIOUS
  <2>3. looper' = [looper EXCEPT ![l] = r]
    BY <1>2, <2>1, <2>2 DEF LoopGet
  <2>4. r \in LooperRecs /\ r.used /\ r.owner = t
    <3>1. PICK g \in [Fds -> {"none", "ident", "callback"}] : g = [fd \in Fds |-> "none"]
      OBVIOUS
    <3>2. r = [used |-> TRUE, owner |-> t, refs |-> 1, signaled |-> FALSE, m |-> NoThread,
               regs |-> g]
      BY <2>2, <3>1 DEF Unused
    <3> QED  BY <3>2 DEF LooperRecs
  <2>5. /\ looper' \in [1..NLoopers -> LooperRecs] /\ looper'[l] = r
        /\ \A k \in 1..NLoopers \ {l} : looper'[k] = looper[k]
    BY <2>1, <2>3, <2>4 DEF WaitTypes
  <2> QED  BY <1>0, <2>1, <2>2, <2>4, <2>5
<1>3. CASE Own(t) = {} /\ Free = {}
  BY <1>0, <1>3 DEF SlotFor, LoopGet, WaitTypes
<1> QED  BY <1>1, <1>2, <1>3

\* Which loopers are in use, whose and with how many references decides who holds them.
SameUse == \A l \in 1..NLoopers :
  (looper'[l].used <=> looper[l].used) /\ looper'[l].owner = looper[l].owner

\* Nobody takes or gives up a reference.
LEMMA UseStays ==
  ASSUME \A l \in 1..NLoopers : InUse(l), SameUse, UNCHANGED held,
         \A l \in 1..NLoopers : looper'[l].refs = looper[l].refs
  PROVE  \A l \in 1..NLoopers : InUse(l)'
BY DEF InUse, SameUse, Holders

\* A looper in use stays its thread's.
LEMMA OwnStays ==
  ASSUME NEW t \in Threads,
         \A l \in 1..NLoopers : looper[l].used => looper'[l].used /\ looper'[l].owner = looper[l].owner
  PROVE  Own(t) \subseteq Own(t)'
BY DEF Own

\* There are finitely many references.
LEMMA HoldersCounted ==
  ASSUME NEW l
  PROVE  IsFiniteSet(Holders(l)) /\ Cardinality(Holders(l)) \in Nat
BY WaitingAssumption, FS_Subset, FS_CardinalityType DEF Holders

\* Every step keeps the shape of the state.
LEMMA WaitTypesStep ==
  ASSUME WaitTypes, [WaitNext]_waitVars
  PROVE  WaitTypes'
<1> USE DEF WaitTypes
<1>a. /\ Threads \cap {NoThread} = {} /\ NLoopers \in Nat /\ NoWaitLoc.l \in 0..NLoopers
  BY WaitingAssumption DEF NoWaitLoc
<1>1. CASE UNCHANGED waitVars
  BY <1>1 DEF waitVars
<1>2. ASSUME NEW t \in Threads, WaitStep(t) PROVE looper' \in [1..NLoopers -> LooperRecs]
  <2>1. CASE UNCHANGED looper
    BY <2>1
  <2>2. CASE Prepare(t) \/ PollOnce(t)
    BY <2>2, LoopGetIs DEF Prepare, PollOnce
  <2>a. ASSUME NEW l, NEW r, l \in 1..NLoopers => r \in LooperRecs,
               looper' = [looper EXCEPT ![l] = r]
        PROVE  looper' \in [1..NLoopers -> LooperRecs]
    BY <2>a
  <2>b. \A l \in 1..NLoopers : looper[l] \in LooperRecs
    OBVIOUS
  <2>3. ASSUME NEW l \in 1..NLoopers, Acquire(t, l) \/ Release(t, l) \/ WakeLooper(t, l)
        PROVE  looper' \in [1..NLoopers -> LooperRecs]
    <3>1. looper[l] \in LooperRecs /\ looper[l].refs \in Int
      BY <2>b DEF LooperRecs
    <3>2. CASE Acquire(t, l)
      <4>1. PICK n \in Int : n = looper[l].refs + 1
        BY <3>1
      <4>2. [looper[l] EXCEPT !.refs = n] \in LooperRecs
        BY <3>1 DEF LooperRecs
      <4> QED  BY <3>2, <4>1, <4>2, <2>a DEF Acquire
    <3>3. CASE Release(t, l)
      <4>0. looper[l].refs - 1 \in Int
        BY <3>1
      <4>b. (looper[l].used /\ looper[l].refs - 1 > 0) \in BOOLEAN
        OBVIOUS
      <4>1. PICK n \in Int, b \in BOOLEAN :
              n = looper[l].refs - 1 /\ b = (looper[l].used /\ looper[l].refs - 1 > 0)
        BY <4>0, <4>b, Zenon
      <4>2. [looper[l] EXCEPT !.refs = n, !.used = b] \in LooperRecs
        BY <3>1 DEF LooperRecs
      <4>3. looper' = [looper EXCEPT ![l] = [looper[l] EXCEPT !.refs = n, !.used = b]]
        BY <3>3, <4>1 DEF Release
      <4> QED  BY <4>2, <4>3, <2>a
    <3>4. CASE WakeLooper(t, l)
      <4>1. [looper[l] EXCEPT !.signaled = TRUE] \in LooperRecs
        BY <3>1 DEF LooperRecs
      <4> QED  BY <3>4, <4>1, <2>a DEF WakeLooper
    <3> QED  BY <2>3, <3>2, <3>3, <3>4
  <2>4. ASSUME NEW l \in 1..NLoopers, NEW fd \in Fds,
               RemoveFd(t, l, fd) \/ \E kind \in {"ident", "callback"} : AddFd(t, l, fd, kind)
        PROVE  looper' \in [1..NLoopers -> LooperRecs]
    BY <2>4 DEF RemoveFd, AddFd, LooperRecs
  <2>5. CASE TakeWake(t) \/ Enter(t) \/ Rest(t) \/ \E fd \in Fds : Scan(t, fd)
    <3> PICK l : l = waitLoc[t].l
      OBVIOUS
    <3>1. PICK r : (looper' = [looper EXCEPT ![l] = r] \/ UNCHANGED looper)
                   /\ \/ r = [looper[l] EXCEPT !.signaled = FALSE]
                      \/ r = [looper[l] EXCEPT !.m = t]
                      \/ r = [looper[l] EXCEPT !.m = NoThread]
      BY <2>5 DEF TakeWake, Enter, Rest, Scan
    <3>2. l \in 1..NLoopers => r \in LooperRecs
      BY <3>1, <2>b DEF LooperRecs
    <3> QED  BY <3>1, <3>2, <2>1, <2>a
  <2>6. CASE RemoveAfter(t)
    <3> PICK l : l = waitLoc[t].l
      OBVIOUS
    <3>1. PICK g : /\ g = [fd \in Fds |-> IF fd \in waitLoc[t].left THEN "none" ELSE looper[l].regs[fd]]
                   /\ looper' = [looper EXCEPT ![l] = [looper[l] EXCEPT !.regs = g]]
      BY <2>6 DEF RemoveAfter
    <3>2. l \in 1..NLoopers => g \in [Fds -> {"none", "ident", "callback"}]
      BY <3>1, <2>b DEF LooperRecs
    <3>3. l \in 1..NLoopers => [looper[l] EXCEPT !.regs = g] \in LooperRecs
      BY <3>2, <2>b DEF LooperRecs
    <3> QED  BY <3>1, <3>3, <2>a
  <2> QED  BY <1>2, <2>1, <2>2, <2>3, <2>4, <2>5, <2>6
           DEF WaitStep, ThreadEnds, CallbackReturns, RestOver, Relock, Poll, Sampled,
               ReturnNothing, Nap, Sample
<1>3. ASSUME NEW t \in Threads, WaitStep(t)
      PROVE  /\ held' \in [Threads -> SUBSET (1..NLoopers)] /\ woken' \in [Threads -> BOOLEAN]
  <2>1. CASE UNCHANGED <<held, woken>>
    BY <2>1
  <2>2. ASSUME NEW l \in 1..NLoopers, Acquire(t, l) \/ Release(t, l)
        PROVE  /\ held' \in [Threads -> SUBSET (1..NLoopers)] /\ woken' \in [Threads -> BOOLEAN]
    BY <2>2 DEF Acquire, Release
  <2>3. ASSUME NEW u, woken' = [woken EXCEPT ![u] = TRUE] \/ woken' = [woken EXCEPT ![u] = FALSE],
               UNCHANGED held
        PROVE  /\ held' \in [Threads -> SUBSET (1..NLoopers)] /\ woken' \in [Threads -> BOOLEAN]
    BY <2>3
  <2> QED  BY <1>3, <2>1, <2>2, <2>3
           DEF WaitStep, Prepare, ThreadEnds, WakeLooper, RemoveFd, AddFd, PollOnce, TakeWake,
               Enter,
               CallbackReturns, RemoveAfter, Rest, RestOver, Relock, Poll, Sampled, ReturnNothing,
               Nap, Scan, Sample
<1>4. ASSUME NEW t \in Threads, WaitStep(t)
      PROVE  waitPc' \in [Threads -> WaitPlaces]
  <2>1. CASE UNCHANGED waitPc
    BY <2>1
  <2>2. ASSUME NEW q \in WaitPlaces, WaitGoto(t, q) PROVE waitPc' \in [Threads -> WaitPlaces]
    BY <2>2 DEF WaitGoto
  <2>5. {"enter", "scan", "callback", "remove", "asleep", "relock", "idle", "crashed", "sample",
         "nap", "nothing"} \subseteq WaitPlaces
    BY DEF Polling, WaitPlaces
  <2>3. ASSUME Return(t) PROVE waitPc' \in [Threads -> WaitPlaces]
    BY <2>3, <2>2, <2>5 DEF Return
  <2>4. ASSUME NEW l, WakeAll(l) PROVE waitPc' \in [Threads -> WaitPlaces]
    BY <2>4, <2>5 DEF WakeAll
  <2>6. CASE Prepare(t) \/ ThreadEnds(t) \/ \E l \in 1..NLoopers :
               \/ Acquire(t, l) \/ Release(t, l) \/ WakeLooper(t, l)
               \/ \E fd \in Fds : RemoveFd(t, l, fd)
                          \/ \E kind \in {"ident", "callback"} : AddFd(t, l, fd, kind)
    BY <2>6, <2>1, <2>4 DEF Prepare, ThreadEnds, Acquire, Release, WakeLooper, RemoveFd, AddFd
  <2>7. CASE PollOnce(t) \/ TakeWake(t) \/ Enter(t) \/ CallbackReturns(t) \/ RemoveAfter(t)
    <3>1. CASE PollOnce(t)
      BY <3>1, <2>2, <2>5 DEF PollOnce
    <3>2. CASE TakeWake(t) \/ CallbackReturns(t) \/ RemoveAfter(t)
      BY <3>2, <2>2, <2>3, <2>5 DEF TakeWake, CallbackReturns, RemoveAfter
    <3>3. CASE Enter(t)
      BY <3>3, <2>2, <2>5 DEF Enter
    <3> QED  BY <2>7, <3>1, <3>2, <3>3
  <2>8. CASE Rest(t) \/ RestOver(t) \/ Relock(t) \/ Poll(t)
    <3>1. CASE Rest(t) \/ RestOver(t)
      BY <3>1, <2>2, <2>3, <2>5 DEF Rest, RestOver
    <3>2. CASE Relock(t)
      BY <3>2, <2>2, <2>3, <2>5 DEF Relock
    <3>3. CASE Poll(t)
      BY <3>3, <2>2, <2>5 DEF Poll
    <3> QED  BY <2>8, <3>1, <3>2, <3>3
  <2>9. CASE Sampled(t) \/ ReturnNothing(t) \/ Nap(t) \/ \E fd \in Fds : Scan(t, fd) \/ Sample(t, fd)
    <3>1. CASE Sampled(t) \/ ReturnNothing(t)
      BY <3>1, <2>2, <2>3, <2>5 DEF Sampled, ReturnNothing
    <3>2. CASE Nap(t) \/ \E fd \in Fds : Sample(t, fd)
      BY <3>2, <2>1, <2>2, <2>5 DEF Nap, Sample
    <3>3. ASSUME NEW fd \in Fds, Scan(t, fd) PROVE waitPc' \in [Threads -> WaitPlaces]
      BY <3>3, <2>1, <2>2, <2>3, <2>5 DEF Scan
    <3> QED  BY <2>9, <3>1, <3>2, <3>3
  <2> QED  BY <1>4, <2>6, <2>7, <2>8, <2>9 DEF WaitStep
<1>5. ASSUME NEW t \in Threads, WaitStep(t)
      PROVE  waitLoc' \in [Threads -> WaitLocs]
  <2>1. CASE UNCHANGED waitLoc
    BY <2>1
  <2>2. ASSUME NEW r \in WaitLocs,
               waitLoc' = [waitLoc EXCEPT ![t] = r] PROVE waitLoc' \in [Threads -> WaitLocs]
    BY <2>2
  <2>3. NoWaitLoc \in WaitLocs
    BY <1>a DEF NoWaitLoc, WaitLocs
  <2>4. ASSUME Return(t) PROVE waitLoc' \in [Threads -> WaitLocs]
    BY <2>2, <2>3, <2>4 DEF Return
  <2>5. CASE PollOnce(t)
    <3>1. PICK ms \in Timeouts : waitLoc' = [waitLoc EXCEPT ![t] = [NoWaitLoc EXCEPT !.l = SlotFor(t), !.ms = ms]]
      BY <2>5 DEF PollOnce
    <3>2. SlotFor(t) \in 0..NLoopers
      BY <2>5, LoopGetIs DEF PollOnce
    <3>3. PICK n : n = SlotFor(t)
      OBVIOUS
    <3>4. ms \in Int
      BY <1>a DEF Timeouts
    <3>5. [NoWaitLoc EXCEPT !.l = n, !.ms = ms] \in WaitLocs
      BY <3>2, <3>3, <3>4 DEF NoWaitLoc, WaitLocs
    <3> QED  BY <3>1, <3>3, <3>5, <2>2
  <2>6. CASE Poll(t)
    <3>1. PICK ask \in SUBSET Fds, ms \in Timeouts :
            waitLoc' = [waitLoc EXCEPT ![t] = [NoWaitLoc EXCEPT !.ask = ask, !.left = ask, !.ms = ms]]
      BY <2>6 DEF Poll
    <3>3. ms \in Int
      BY <1>a DEF Timeouts
    <3>2. [NoWaitLoc EXCEPT !.ask = ask, !.left = ask, !.ms = ms] \in WaitLocs
      BY <1>a, <3>3 DEF NoWaitLoc, WaitLocs
    <3> QED  BY <3>1, <3>2, <2>2
  <2>7. CASE Enter(t) \/ (\E fd \in Fds : Scan(t, fd) \/ Sample(t, fd)) \/ Relock(t)
    <3>1. ASSUME NEW S \in SUBSET Fds, waitLoc' = [waitLoc EXCEPT ![t].left = S]
          PROVE  waitLoc' \in [Threads -> WaitLocs]
      BY <3>1 DEF WaitLocs
    <3>2. ASSUME Enter(t) PROVE waitLoc' \in [Threads -> WaitLocs]
      <4>1. {fd \in Fds : MyLooper(t).regs[fd] # "none"} \in SUBSET Fds
        OBVIOUS
      <4> QED  BY <3>1, <3>2, <4>1 DEF Enter
    <3>3. ASSUME NEW fd \in Fds, Scan(t, fd) PROVE waitLoc' \in [Threads -> WaitLocs]
      <4>1. waitLoc[t].left \ {fd} \in SUBSET Fds /\ {fd} \in SUBSET Fds
        BY DEF WaitLocs
      <4> QED  BY <3>1, <3>3, <4>1, <2>1, <2>4 DEF Scan, WaitLocs
    <3>4. ASSUME NEW fd \in Fds, Sample(t, fd) PROVE waitLoc' \in [Threads -> WaitLocs]
      <4>1. waitLoc[t] \in WaitLocs
        OBVIOUS
      <4> QED  BY <3>4, <4>1 DEF Sample, WaitLocs
    <3>5. ASSUME Relock(t) PROVE waitLoc' \in [Threads -> WaitLocs]
      <4>1. \A x \in Int : (IF x > 0 THEN x - 1 ELSE x) \in Int
        OBVIOUS
      <4>2. Return(t) \/ waitLoc' = [waitLoc EXCEPT ![t].ms = IF @ > 0 THEN @ - 1 ELSE @]
        BY <3>5 DEF Relock
      <4>3. waitLoc[t] \in WaitLocs
        OBVIOUS
      <4>4. ASSUME NEW x \in Int PROVE [waitLoc[t] EXCEPT !.ms = x] \in WaitLocs
        BY <4>3 DEF WaitLocs
      <4>5. (IF waitLoc[t].ms > 0 THEN waitLoc[t].ms - 1 ELSE waitLoc[t].ms) \in Int
        BY <4>3, <4>1 DEF WaitLocs
      <4>6. [waitLoc[t] EXCEPT !.ms = IF @ > 0 THEN @ - 1 ELSE @] \in WaitLocs
        BY <4>4, <4>5
      <4> QED  BY <4>2, <4>6, <2>2, <2>4
    <3> QED  BY <2>7, <3>2, <3>3, <3>4, <3>5
  <2>8. CASE Nap(t)
    <3>1. PICK x : x = IF waitLoc[t].ms > 0 THEN waitLoc[t].ms - 1 ELSE waitLoc[t].ms
      OBVIOUS
    <3>2. waitLoc[t] \in WaitLocs
      OBVIOUS
    <3>3. x \in Int
      BY <3>1, <3>2 DEF WaitLocs
    <3>4. [waitLoc[t] EXCEPT !.ms = x, !.left = waitLoc[t].ask] \in WaitLocs
      BY <3>2, <3>3 DEF WaitLocs
    <3>5. waitLoc' = [waitLoc EXCEPT ![t] = [waitLoc[t] EXCEPT !.ms = x, !.left = waitLoc[t].ask]]
      BY <2>8, <3>1 DEF Nap
    <3> QED  BY <3>4, <3>5, <2>2
  <2>9. CASE Prepare(t) \/ ThreadEnds(t) \/ \E l \in 1..NLoopers :
               \/ Acquire(t, l) \/ Release(t, l) \/ WakeLooper(t, l)
               \/ \E fd \in Fds : RemoveFd(t, l, fd)
                          \/ \E kind \in {"ident", "callback"} : AddFd(t, l, fd, kind)
    BY <2>9, <2>1 DEF Prepare, ThreadEnds, Acquire, Release, WakeLooper, RemoveFd, AddFd
  <2>10. CASE TakeWake(t) \/ CallbackReturns(t) \/ RemoveAfter(t) \/ Rest(t) \/ RestOver(t)
              \/ Sampled(t) \/ ReturnNothing(t)
    BY <2>10, <2>1, <2>4 DEF TakeWake, CallbackReturns, RemoveAfter, Rest, RestOver, Sampled,
                             ReturnNothing
  <2> QED  BY <1>5, <2>5, <2>6, <2>7, <2>8, <2>9, <2>10 DEF WaitStep
<1>6. ASSUME NEW t \in Threads, WaitStep(t)
      PROVE  steady' \in [Threads -> SUBSET Fds]
  <2>1. CASE UNCHANGED steady
    BY <2>1
  <2>2. ASSUME NEW S \in SUBSET Fds,
               steady' = [steady EXCEPT ![t] = S] PROVE steady' \in [Threads -> SUBSET Fds]
    BY <2>2
  <2>3. CASE Poll(t) \/ Sampled(t) \/ ReturnNothing(t) \/ Nap(t)
    <3>1. waitLoc[t] \in WaitLocs /\ waitLoc[t].ask \in SUBSET Fds
      BY DEF WaitLocs
    <3>2. CASE Poll(t)
      BY <2>2, <3>2 DEF Poll
    <3>3. CASE Sampled(t) \/ ReturnNothing(t)
      BY <2>1, <2>2, <3>3 DEF Sampled, ReturnNothing
    <3>4. CASE Nap(t)
      BY <2>2, <3>1, <3>4 DEF Nap
    <3> QED  BY <2>3, <3>2, <3>3, <3>4
  <2> QED  BY <1>6, <2>1, <2>3
           DEF WaitStep, Prepare, ThreadEnds, Acquire, Release, WakeLooper, RemoveFd, AddFd,
               PollOnce, TakeWake, Enter,
               CallbackReturns, RemoveAfter, Rest, RestOver, Relock, Scan, Sample
<1>7. ASSUME NEW fd \in Fds, BecomeReady(fd) \/ BecomeUnready(fd) PROVE WaitTypes'
  BY <1>7 DEF BecomeReady, BecomeUnready
<1> QED  BY <1>1, <1>2, <1>3, <1>4, <1>5, <1>6, <1>7 DEF WaitNext

\* A step of t's own, in which the loopers stay in use and whose they are.
LEMMA WakesStay ==
  ASSUME LooperInv, NEW t \in Threads, SameUse, UNCHANGED <<held, woken>>,
         \A l \in 1..NLoopers : looper'[l].refs = looper[l].refs
                                /\ looper'[l].signaled = looper[l].signaled,
         \A u \in Threads \ {t} : waitLoc'[u].l = waitLoc[u].l
                                  /\ (waitPc'[u] = waitPc[u] \/ waitPc[u] \in Polling),
         waitPc'[t] \in Polling => waitPc[t] \in Polling /\ waitLoc'[t].l = waitLoc[t].l
  PROVE  (\A l \in 1..NLoopers : InUse(l)') /\ PollsOwn' /\ WakeKept'
<1>1. \A u \in Threads : Own(u)' = Own(u)
  BY DEF Own, SameUse
<1>2. \A l \in 1..NLoopers : InUse(l)'
  BY UseStays DEF LooperInv
<1>3. PollsOwn'
  BY <1>1 DEF LooperInv, PollsOwn
<1>4. WakeKept'
  BY <1>1 DEF LooperInv, WakeKept, Own
<1> QED  BY <1>2, <1>3, <1>4

\* Steps that leave the loopers alone ...
LEMMA QuietStep ==
  ASSUME LooperInv, NEW t \in Threads,
         \/ Poll(t) \/ Sampled(t) \/ ReturnNothing(t) \/ Nap(t) \/ \E fd \in Fds : Sample(t, fd)
         \/ CallbackReturns(t) \/ RestOver(t) \/ Relock(t)
  PROVE  (\A l \in 1..NLoopers : InUse(l)') /\ PollsOwn' /\ WakeKept'
<1>1. looper' = looper /\ held' = held /\ woken' = woken
  BY DEF Poll, Sampled, ReturnNothing, Nap, Sample, CallbackReturns, RestOver, Relock
<1>2. SameUse
  BY <1>1 DEF SameUse
<1>3. \A u \in Threads \ {t} : waitLoc'[u] = waitLoc[u] /\ waitPc'[u] = waitPc[u]
  BY DEF LooperInv, WaitTypes, Poll, Sampled, ReturnNothing, Nap, Sample, CallbackReturns,
         RestOver,
         Relock, Return, WaitGoto
<1>4. waitPc'[t] \in Polling => waitPc[t] \in Polling /\ waitLoc'[t].l = waitLoc[t].l
  <2> USE DEF LooperInv, WaitTypes, Polling, WaitGoto, Return
  <2>1. CASE Poll(t) \/ ReturnNothing(t) \/ Nap(t)
    BY <2>1 DEF Poll, ReturnNothing, Nap
  <2>2. CASE Sampled(t)
    BY <2>2 DEF Sampled
  <2>3. CASE \E fd \in Fds : Sample(t, fd)
    BY <2>3 DEF Sample
  <2>4. CASE CallbackReturns(t) \/ RestOver(t)
    BY <2>4 DEF CallbackReturns, RestOver
  <2>5. CASE Relock(t)
    <3>1. CASE Return(t)
      BY <3>1
    <3>2. CASE ~Return(t)
      <4>1. PICK x : waitLoc' = [waitLoc EXCEPT ![t].ms = x]
        BY <2>5, <3>2 DEF Relock
      <4> QED  BY <2>5, <4>1 DEF Relock, WaitLocs
    <3> QED  BY <3>1, <3>2
  <2> QED  BY <2>1, <2>2, <2>3, <2>4, <2>5
<1> QED  BY <1>1, <1>2, <1>3, <1>4, WakesStay

\* ... with as many references, and signalled as before.
SameCounts ==
  /\ SameUse
  /\ \A l \in 1..NLoopers : looper'[l].refs = looper[l].refs
                            /\ looper'[l].signaled = looper[l].signaled

\* ... that change a looper's registrations or its mutex ...
LEMMA TouchStep ==
  ASSUME LooperInv, NEW t \in Threads,
         \/ Enter(t) \/ Rest(t) \/ RemoveAfter(t) \/ \E fd \in Fds : Scan(t, fd)
         \/ \E l \in 1..NLoopers, fd \in Fds :
              RemoveFd(t, l, fd) \/ \E kind \in {"ident", "callback"} : AddFd(t, l, fd, kind)
  PROVE  (\A l \in 1..NLoopers : InUse(l)') /\ PollsOwn' /\ WakeKept'
<1> USE DEF LooperInv, WaitTypes
<1>1. held' = held /\ woken' = woken
  BY DEF Enter, Rest, RemoveAfter, Scan, RemoveFd, AddFd
<1>2. SameCounts
  <2>0. \A l \in 1..NLoopers : looper[l] \in LooperRecs
    OBVIOUS
  <2>1. CASE looper' = looper
    BY <2>1 DEF SameCounts, SameUse
  <2>2. ASSUME NEW k, NEW x,
               looper' = [looper EXCEPT ![k] = [looper[k] EXCEPT !.m = x]] PROVE SameCounts
    BY <2>0, <2>2 DEF SameCounts, SameUse, LooperRecs
  <2>3. ASSUME NEW k, NEW x,
               looper' = [looper EXCEPT ![k] = [looper[k] EXCEPT !.regs = x]] PROVE SameCounts
    BY <2>0, <2>3 DEF SameCounts, SameUse, LooperRecs
  <2>4. CASE Enter(t) \/ Rest(t) \/ \E fd \in Fds : Scan(t, fd)
    <3> PICK k : k = waitLoc[t].l
      OBVIOUS
    <3>1. looper' = looper \/ \E x : looper' = [looper EXCEPT ![k] = [looper[k] EXCEPT !.m = x]]
      BY <2>4 DEF Enter, Rest, Scan
    <3> QED  BY <3>1, <2>1, <2>2
  <2>5. CASE RemoveAfter(t)
    <3> PICK k : k = waitLoc[t].l
      OBVIOUS
    <3>1. \E x : looper' = [looper EXCEPT ![k] = [looper[k] EXCEPT !.regs = x]]
      BY <2>5 DEF RemoveAfter
    <3> QED  BY <3>1, <2>3
  <2>6. ASSUME NEW k \in 1..NLoopers, NEW fd \in Fds,
               RemoveFd(t, k, fd) \/ \E kind \in {"ident", "callback"} : AddFd(t, k, fd, kind)
        PROVE  SameCounts
    <3>1. \E x : looper' = [looper EXCEPT ![k] = [looper[k] EXCEPT !.regs = x]]
      BY <2>6 DEF RemoveFd, AddFd
    <3> QED  BY <3>1, <2>3
  <2> QED  BY <2>4, <2>5, <2>6
<1>3. \A u \in Threads \ {t} : waitLoc'[u] = waitLoc[u]
                               /\ (waitPc'[u] = waitPc[u] \/ waitPc[u] \in Polling)
  BY DEF Enter, Rest, RemoveAfter, Scan, RemoveFd, AddFd, Return, WaitGoto, WakeAll, Polling
<1>4. waitPc'[t] \in Polling => waitPc[t] \in Polling /\ waitLoc'[t].l = waitLoc[t].l
  <2> USE DEF Polling, WaitGoto, Return
  <2>1. CASE Enter(t)
    <3>1. PICK x : waitLoc' = [waitLoc EXCEPT ![t].left = x]
      BY <2>1 DEF Enter
    <3> QED  BY <2>1, <3>1 DEF Enter, WaitLocs
  <2>2. CASE Rest(t) \/ RemoveAfter(t)
    BY <2>2 DEF Rest, RemoveAfter
  <2>3. ASSUME NEW fd \in Fds, Scan(t, fd)
        PROVE  waitPc'[t] \in Polling => waitPc[t] \in Polling /\ waitLoc'[t].l = waitLoc[t].l
    <3>1. CASE Return(t)
      BY <3>1
    <3>2. CASE ~Return(t)
      <4>1. PICK x : waitLoc' = [waitLoc EXCEPT ![t].left = x]
        BY <2>3, <3>2 DEF Scan
      <4> QED  BY <2>3, <4>1 DEF Scan, WaitLocs
    <3> QED  BY <3>1, <3>2
  <2>4. CASE UNCHANGED waitLoc /\ (UNCHANGED waitPc \/ \E l : WakeAll(l))
    BY <2>4 DEF WakeAll
  <2> QED  BY <2>1, <2>2, <2>3, <2>4 DEF RemoveFd, AddFd
<1> QED  BY <1>1, <1>2, <1>3, <1>4, WakesStay DEF SameCounts

\* ... that take a looper into use ...
LEMMA GetLooperStep ==
  ASSUME LooperInv, NEW t \in Threads, Prepare(t) \/ PollOnce(t)
  PROVE  (\A l \in 1..NLoopers : InUse(l)') /\ PollsOwn' /\ WakeKept'
<1> USE DEF LooperInv, WaitTypes
<1>0. LoopGet(t) /\ held' = held /\ woken' = woken
  BY DEF Prepare, PollOnce
<1>1. \A l \in 1..NLoopers :
        \/ looper'[l] = looper[l]
        \/ ~looper[l].used /\ looper'[l].used /\ looper'[l].owner = t /\ looper'[l].refs = 1
  <2>1. ASSUME NEW l, looper'[l] = [Unused EXCEPT !.used = TRUE, !.owner = t, !.refs = 1]
        PROVE  looper'[l].used /\ looper'[l].owner = t /\ looper'[l].refs = 1
    BY <2>1 DEF Unused
  <2>2. CASE UNCHANGED looper
    BY <2>2
  <2>3. CASE ~UNCHANGED looper
    <3>1. PICK l \in Free : /\ looper'[l] = [Unused EXCEPT !.used = TRUE, !.owner = t, !.refs = 1]
                            /\ \A k \in 1..NLoopers \ {l} : looper'[k] = looper[k]
      BY <1>0, <2>3, LoopGetIs
    <3> QED  BY <2>1, <3>1 DEF Free
  <2> QED  BY <2>2, <2>3
<1>2. ASSUME NEW l \in 1..NLoopers PROVE InUse(l)'
  <2>1. InUse(l) /\ Holders(l)' = Holders(l)
    BY <1>0 DEF Holders
  <2>2. CASE looper'[l] = looper[l]
    BY <2>1, <2>2 DEF InUse
  <2>3. CASE ~looper[l].used /\ looper'[l].used /\ looper'[l].owner = t /\ looper'[l].refs = 1
    <3>1. Holders(l)' = {} /\ Cardinality({}) = 0
      BY <2>1, <2>3, FS_EmptySet DEF InUse
    <3> QED  BY <2>3, <3>1 DEF InUse
  <2> QED  BY <1>1, <2>2, <2>3
<1>3. \A u \in Threads : Own(u) \subseteq Own(u)'
  BY <1>1, OwnStays
<1>4. WakeKept'
  <2>1. \A u \in Threads : \A l \in Own(u) : looper'[l] = looper[l]
    BY <1>1 DEF Own
  <2> QED  BY <1>0, <1>3, <2>1 DEF WakeKept
<1>5. PollsOwn'
  <2>1. ASSUME NEW u \in Threads, waitPc'[u] = waitPc[u], waitLoc'[u].l = waitLoc[u].l
        PROVE  waitPc'[u] \in Polling => waitLoc'[u].l \in Own(u)'
    BY <1>3, <2>1 DEF PollsOwn
  <2>2. CASE Prepare(t)
    BY <2>1, <2>2 DEF Prepare, PollsOwn
  <2>3. CASE PollOnce(t)
    <3>1. PICK n, x : n = SlotFor(t) /\ waitLoc' = [waitLoc EXCEPT ![t] = [NoWaitLoc EXCEPT !.l = n, !.ms = x]]
      BY <2>3 DEF PollOnce
    <3>2. waitLoc'[t].l = n /\ \A u \in Threads \ {t} : waitPc'[u] = waitPc[u] /\ waitLoc'[u].l = waitLoc[u].l
      BY <2>3, <3>1 DEF PollOnce, WaitGoto, NoWaitLoc
    <3>3. waitPc'[t] \in Polling => n # 0
      BY <2>3, <3>1 DEF PollOnce, WaitGoto, Polling
    <3>4. n # 0 => n \in Own(t)'
      BY <1>0, <3>1, LoopGetIs DEF Own
    <3> QED  BY <2>1, <3>2, <3>3, <3>4 DEF PollsOwn
  <2> QED  BY <2>2, <2>3
<1> QED  BY <1>2, <1>4, <1>5

\* ... that count a reference: a thread's own keeps its looper in use ...
LEMMA ReferenceStep ==
  ASSUME LooperInv, NEW t \in Threads, NEW l \in 1..NLoopers, Acquire(t, l) \/ Release(t, l)
  PROVE  (\A k \in 1..NLoopers : InUse(k)') /\ PollsOwn' /\ WakeKept'
<1> USE DEF LooperInv, WaitTypes
<1>1. /\ UNCHANGED woken /\ UNCHANGED waitPc /\ UNCHANGED waitLoc
      /\ looper[l] \in LooperRecs /\ looper[l].refs \in Int
      /\ \A k \in 1..NLoopers \ {l} : looper'[k] = looper[k] /\ Holders(k)' = Holders(k)
  <2>1. \A k \in 1..NLoopers \ {l}, u \in Threads : k \in held'[u] <=> k \in held[u]
    BY DEF Acquire, Release
  <2> QED  BY <2>1 DEF Acquire, Release, Holders, LooperRecs
<1>2. Cardinality(Holders(l)) \in Nat /\ IsFiniteSet(Holders(l))
  BY HoldersCounted
<1>3. looper[l].used /\ InUse(l)
  BY DEF Acquire, Release, InUse, Holders
<1>4. InUse(l)' /\ looper'[l].used /\ looper'[l].owner = looper[l].owner
      /\ looper'[l].signaled = looper[l].signaled
  <2>1. CASE Acquire(t, l)
    <3>1. looper'[l] = [looper[l] EXCEPT !.refs = looper[l].refs + 1]
      BY <2>1 DEF Acquire
    <3>2. /\ looper'[l].used /\ looper'[l].owner = looper[l].owner
          /\ looper'[l].refs = looper[l].refs + 1 /\ looper'[l].signaled = looper[l].signaled
      BY <1>1, <1>3, <3>1 DEF LooperRecs
    <3>3. Holders(l)' = Holders(l) \cup {t} /\ t \notin Holders(l)
      BY <2>1 DEF Acquire, Holders
    <3>4. Cardinality(Holders(l)') = Cardinality(Holders(l)) + 1
      BY <1>2, <3>3, FS_AddElement
    <3> QED  BY <1>1, <1>2, <1>3, <3>2, <3>4 DEF InUse
  <2>2. CASE Release(t, l)
    <3>1. Holders(l)' = Holders(l) \ {t} /\ t \in Holders(l)
      BY <2>2 DEF Release, Holders
    <3>2. Cardinality(Holders(l)') = Cardinality(Holders(l)) - 1 /\ Cardinality(Holders(l)') \in Nat
      BY <1>2, <3>1, FS_RemoveElement, FS_CardinalityType
    <3>3. looper[l].refs - 1 > 0
      BY <1>1, <1>2, <1>3, <3>2 DEF InUse
    <3>4. PICK b : b = (looper[l].used /\ looper[l].refs - 1 > 0)
      OBVIOUS
    <3>5. looper'[l] = [looper[l] EXCEPT !.refs = looper[l].refs - 1, !.used = b]
      BY <2>2, <3>4 DEF Release
    <3>6. /\ looper'[l].used = b /\ looper'[l].owner = looper[l].owner
          /\ looper'[l].refs = looper[l].refs - 1 /\ looper'[l].signaled = looper[l].signaled
      BY <1>1, <3>5 DEF LooperRecs
    <3>7. b
      BY <1>3, <3>3, <3>4
    <3> QED  BY <1>1, <1>2, <1>3, <3>2, <3>6, <3>7 DEF InUse
  <2> QED  BY <2>1, <2>2
<1>5. \A k \in 1..NLoopers \ {l} : InUse(k)'
  BY <1>1 DEF InUse
<1>6. SameUse /\ \A k \in 1..NLoopers : looper'[k].signaled = looper[k].signaled
  BY <1>1, <1>3, <1>4 DEF SameUse
<1>7. \A u \in Threads : Own(u)' = Own(u)
  BY <1>6 DEF Own, SameUse
<1>8. PollsOwn' /\ WakeKept'
  BY <1>1, <1>6, <1>7 DEF PollsOwn, WakeKept, Own
<1> QED  BY <1>4, <1>5, <1>8

\* ... that set the signal, for the looper's owner, or take it, by the looper's owner.
LEMMA WakeUpStep ==
  ASSUME LooperInv, NEW t \in Threads,
         ThreadEnds(t) \/ TakeWake(t) \/ \E l \in 1..NLoopers : WakeLooper(t, l)
  PROVE  (\A k \in 1..NLoopers : InUse(k)') /\ PollsOwn' /\ WakeKept'
<1> USE DEF LooperInv, WaitTypes
<1>1. CASE ThreadEnds(t)
  <2>1. UNCHANGED looper /\ UNCHANGED held /\ UNCHANGED waitPc /\ UNCHANGED waitLoc
        /\ \A u \in Threads : woken'[u] => woken[u]
    BY <1>1 DEF ThreadEnds
  <2>2. \A u \in Threads : Own(u)' = Own(u)
    BY <2>1 DEF Own
  <2>3. \A k \in 1..NLoopers : InUse(k)'
    BY <2>1 DEF InUse, Holders
  <2> QED  BY <2>1, <2>2, <2>3 DEF PollsOwn, WakeKept
<1>2. ASSUME NEW l \in 1..NLoopers, NEW b \in BOOLEAN, UNCHANGED held,
             looper' = [looper EXCEPT ![l].signaled = b]
      PROVE  /\ SameUse /\ looper'[l].signaled = b
             /\ \A k \in 1..NLoopers \ {l} : looper'[k] = looper[k]
             /\ \A k \in 1..NLoopers : InUse(k)'
             /\ \A u \in Threads : Own(u)' = Own(u)
  <2>0. looper[l] \in LooperRecs
    OBVIOUS
  <2>1. looper'[l] = [looper[l] EXCEPT !.signaled = b] /\ \A k \in 1..NLoopers \ {l} : looper'[k] = looper[k]
    BY <1>2
  <2>2. looper'[l].used = looper[l].used /\ looper'[l].owner = looper[l].owner
        /\ looper'[l].refs = looper[l].refs /\ looper'[l].signaled = b
    BY <2>0, <2>1 DEF LooperRecs
  <2>3. SameUse /\ \A k \in 1..NLoopers : looper'[k].refs = looper[k].refs
    BY <2>1, <2>2 DEF SameUse
  <2>4. \A u \in Threads : Own(u)' = Own(u)
    BY <2>3 DEF Own, SameUse
  <2> QED  BY <1>2, <2>1, <2>2, <2>3, <2>4, UseStays
<1>3. CASE TakeWake(t)
  <2>1. PICK l : l = waitLoc[t].l
    OBVIOUS
  <2>2. l \in Own(t) /\ l \in 1..NLoopers /\ UNCHANGED held /\ looper' = [looper EXCEPT ![l].signaled = FALSE]
    BY <1>3, <2>1 DEF TakeWake, PollsOwn, Polling, Own
  <2>3. \A u \in Threads \ {t} : l \notin Own(u) /\ woken'[u] = woken[u] /\ waitPc'[u] = waitPc[u]
                                 /\ waitLoc'[u] = waitLoc[u]
    BY <1>3, <2>2 DEF TakeWake, Return, WaitGoto, Own
  <2>4. ~woken'[t] /\ waitPc'[t] = "idle"
    BY <1>3 DEF TakeWake, Return, WaitGoto
  <2>5. PollsOwn'
    <3>1. \A u \in Threads : Own(u)' = Own(u)
      BY <1>2, <2>2
    <3> QED  BY <2>3, <2>4, <3>1 DEF PollsOwn, Polling
  <2>6. WakeKept'
    <3> SUFFICES ASSUME NEW u \in Threads, woken'[u] PROVE \E k \in Own(u)' : looper'[k].signaled
      BY DEF WakeKept
    <3>1. u # t /\ woken[u]
      BY <2>3, <2>4
    <3>2. PICK k \in Own(u) : looper[k].signaled
      BY <3>1 DEF WakeKept
    <3>3. k # l /\ k \in 1..NLoopers /\ k \in Own(u)'
      BY <1>2, <2>2, <2>3, <3>1, <3>2 DEF Own
    <3> QED  BY <1>2, <2>2, <3>2, <3>3
  <2> QED  BY <1>2, <2>2, <2>5, <2>6
<1>4. ASSUME NEW l \in 1..NLoopers, WakeLooper(t, l)
      PROVE  (\A k \in 1..NLoopers : InUse(k)') /\ PollsOwn' /\ WakeKept'
  <2>1. UNCHANGED held /\ UNCHANGED waitLoc /\ looper' = [looper EXCEPT ![l].signaled = TRUE] /\ WakeAll(l)
        /\ woken' = [woken EXCEPT ![looper[l].owner] = TRUE]
    BY <1>4 DEF WakeLooper
  <2>2. looper[l].used /\ looper[l].owner \in Threads
    BY <1>4 DEF WakeLooper, MayUse, InUse, Holders, Own
  <2>3. \A u \in Threads : waitPc'[u] \in Polling => waitPc[u] \in Polling
    BY <2>1 DEF WakeAll, Polling
  <2>4. PollsOwn'
    <3>1. \A u \in Threads : Own(u)' = Own(u)
      BY <1>2, <2>1
    <3> QED  BY <2>1, <2>3, <3>1 DEF PollsOwn
  <2>5. WakeKept'
    <3> SUFFICES ASSUME NEW u \in Threads, woken'[u] PROVE \E k \in Own(u)' : looper'[k].signaled
      BY DEF WakeKept
    <3>0. looper'[l].signaled /\ Own(u)' = Own(u) /\ \A k \in 1..NLoopers \ {l} : looper'[k] = looper[k]
      BY <1>2, <2>1
    <3>1. CASE u = looper[l].owner
      <4>1. l \in Own(u)'
        BY <3>0, <3>1, <2>2 DEF Own
      <4> QED  BY <3>0, <4>1
    <3>2. CASE u # looper[l].owner
      <4>1. woken[u]
        BY <2>1, <3>2
      <4>2. PICK k \in Own(u) : looper[k].signaled
        BY <4>1 DEF WakeKept
      <4>3. k \in 1..NLoopers \ {l}
        BY <3>2, <4>2 DEF Own
      <4> QED  BY <3>0, <4>2, <4>3
    <3> QED  BY <3>1, <3>2
  <2> QED  BY <1>2, <2>1, <2>4, <2>5
<1> QED  BY <1>1, <1>3, <1>4

\* The loopers' invariant is inductive ...
LEMMA LooperInvStep ==
  ASSUME LooperInv, [WaitNext]_waitVars
  PROVE  LooperInv'
<1>0. WaitTypes'
  BY WaitTypesStep DEF LooperInv
<1>1. ASSUME looper' = looper, held' = held, woken' = woken, waitPc' = waitPc, waitLoc' = waitLoc
      PROVE  LooperInv'
  BY <1>0, <1>1 DEF LooperInv, InUse, Holders, PollsOwn, WakeKept, Own
<1>2. CASE UNCHANGED waitVars
  BY <1>1, <1>2 DEF waitVars
<1>3. CASE \E fd \in Fds : BecomeReady(fd) \/ BecomeUnready(fd)
  BY <1>1, <1>3 DEF BecomeReady, BecomeUnready
<1>4. ASSUME NEW t \in Threads, WaitStep(t) PROVE LooperInv'
  BY <1>0, <1>4, QuietStep, TouchStep, GetLooperStep, ReferenceStep, WakeUpStep
  DEF WaitStep, LooperInv
<1> QED  BY <1>2, <1>3, <1>4 DEF WaitNext

\* What another thread's step does to u's poll: nothing.
Ignored(u) ==
  /\ steady'[u] = steady[u] /\ ready' = ready /\ waitLoc'[u] = waitLoc[u]
  /\ waitPc'[u] \in {"sample", "nothing"} => waitPc'[u] = waitPc[u]

\* ... and that of poll and select, thread by thread.
LEMMA LooksStep ==
  ASSUME WaitTypes, NEW u \in Threads, Looks(u), [WaitNext]_waitVars
  PROVE  Looks(u)'
<1>2. CASE UNCHANGED waitVars
  BY <1>2 DEF waitVars, Looks
<1>3. ASSUME NEW fd \in Fds, BecomeReady(fd) \/ BecomeUnready(fd)
      PROVE  /\ steady'[u] \subseteq steady[u] /\ steady'[u] \subseteq ready'
             /\ waitPc'[u] = waitPc[u] /\ waitLoc'[u] = waitLoc[u]
  BY <1>3 DEF Looks, BecomeReady, BecomeUnready
<1>4. ASSUME NEW t \in Threads, WaitStep(t), u # t
      PROVE  Ignored(u)
  <2> USE DEF Ignored, WaitTypes, WaitGoto, Return
  <2>1. CASE Prepare(t) \/ ThreadEnds(t)
    BY <1>4, <2>1 DEF Prepare, ThreadEnds
  <2>2. ASSUME NEW l \in 1..NLoopers,
               \/ Acquire(t, l) \/ Release(t, l) \/ WakeLooper(t, l)
               \/ \E fd \in Fds : RemoveFd(t, l, fd)
                          \/ \E kind \in {"ident", "callback"} : AddFd(t, l, fd, kind)
        PROVE  Ignored(u)
    BY <1>4, <2>2 DEF Acquire, Release, WakeLooper, RemoveFd, AddFd, WakeAll
  <2>3. CASE PollOnce(t) \/ TakeWake(t) \/ Enter(t) \/ CallbackReturns(t) \/ RemoveAfter(t)
    BY <1>4, <2>3 DEF PollOnce, TakeWake, Enter, CallbackReturns, RemoveAfter
  <2>4. CASE Rest(t) \/ RestOver(t) \/ Relock(t)
    BY <1>4, <2>4 DEF Rest, RestOver, Relock
  <2>5. CASE Poll(t) \/ Sampled(t) \/ ReturnNothing(t) \/ Nap(t)
    BY <1>4, <2>5 DEF Poll, Sampled, ReturnNothing, Nap
  <2>6. ASSUME NEW fd \in Fds, Scan(t, fd) \/ Sample(t, fd) PROVE Ignored(u)
    BY <1>4, <2>6 DEF Scan, Sample
  <2> HIDE DEF Ignored
  <2> QED  BY <1>4, <2>1, <2>2, <2>3, <2>4, <2>5, <2>6 DEF WaitStep
<1>5. CASE WaitStep(u)
  <2> USE DEF WaitTypes, WaitGoto, Return
  <2>1. CASE Poll(u)
    <3>1. PICK ask \in SUBSET Fds, ms \in Timeouts :
            /\ waitLoc' = [waitLoc EXCEPT ![u] = [NoWaitLoc EXCEPT !.ask = ask, !.left = ask, !.ms = ms]]
            /\ steady' = [steady EXCEPT ![u] = IF ms = 0 THEN ask \cap ready ELSE {}]
      BY <2>1 DEF Poll
    <3>2. waitLoc'[u].left = ask /\ steady'[u] \subseteq ask \cap ready
      BY <3>1 DEF NoWaitLoc
    <3> QED  BY <2>1, <3>2 DEF Poll, Looks
  <2>2. ASSUME NEW fd \in Fds, Sample(u, fd)
        PROVE  Looks(u)'
    <3>1. /\ waitPc'[u] = "sample" /\ waitPc[u] = "sample" /\ steady' = steady /\ ready' = ready
          /\ waitLoc'[u].left = waitLoc[u].left \ {fd}
          /\ waitLoc'[u].found <=> waitLoc[u].found \/ fd \in ready
      BY <2>2 DEF Sample, WaitLocs
    <3> QED  BY <3>1 DEF Looks
  <2>3. CASE Sampled(u)
    BY <2>3 DEF Sampled, Looks
  <2>4. CASE ReturnNothing(u)
    BY <2>4 DEF ReturnNothing, Looks
  <2>5. CASE Nap(u)
    <3>1. PICK x : waitLoc' = [waitLoc EXCEPT ![u].ms = x, ![u].left = waitLoc[u].ask]
      BY <2>5 DEF Nap
    <3>2. waitLoc'[u].left = waitLoc[u].ask /\ waitPc'[u] = "sample" /\ ready' = ready
          /\ steady'[u] \subseteq waitLoc[u].ask \cap ready
      BY <2>5, <3>1 DEF Nap, WaitLocs
    <3> QED  BY <3>2 DEF Looks
  <2>6. CASE Prepare(u) \/ ThreadEnds(u)
    BY <2>6 DEF Looks, Prepare, ThreadEnds
  <2>7. ASSUME NEW l \in 1..NLoopers,
               \/ Acquire(u, l) \/ Release(u, l) \/ WakeLooper(u, l)
               \/ \E fd \in Fds : RemoveFd(u, l, fd)
                          \/ \E kind \in {"ident", "callback"} : AddFd(u, l, fd, kind)
        PROVE  Looks(u)'
    BY <2>7 DEF Looks, Acquire, Release, WakeLooper, RemoveFd, AddFd, WakeAll
  <2>8. CASE PollOnce(u) \/ TakeWake(u) \/ Enter(u) \/ CallbackReturns(u) \/ RemoveAfter(u)
    BY <2>8 DEF Looks, PollOnce, TakeWake, Enter, CallbackReturns, RemoveAfter
  <2>9. CASE Rest(u) \/ RestOver(u) \/ Relock(u)
    BY <2>9 DEF Looks, Rest, RestOver, Relock
  <2>10. ASSUME NEW fd \in Fds, Scan(u, fd)
         PROVE  steady'[u] = steady[u] /\ ready' = ready /\ waitPc'[u] \notin {"sample", "nothing"}
    BY <2>10 DEF Scan
  <2>11. ASSUME NEW fd \in Fds, Scan(u, fd) PROVE Looks(u)'
    BY <2>10, <2>11 DEF Looks
  <2> QED
    BY <1>5, <2>1, <2>2, <2>3, <2>4, <2>5, <2>6, <2>7, <2>8, <2>9, <2>11 DEF WaitStep
<1>6. ASSUME NEW t \in Threads, WaitStep(t), u # t PROVE Looks(u)'
  BY <1>4, <1>6 DEF Looks, Ignored
<1>7. ASSUME NEW fd \in Fds, BecomeReady(fd) \/ BecomeUnready(fd) PROVE Looks(u)'
  BY <1>3, <1>7 DEF Looks
<1> QED  BY <1>2, <1>5, <1>6, <1>7 DEF WaitNext

\* Initially no looper is in use and nobody waits.
LEMMA WaitStarts ==
  ASSUME WaitInit
  PROVE  LooperInv /\ \A u \in Threads : Looks(u)
<1>1. \A l \in 1..NLoopers : looper[l] = Unused /\ ~looper[l].used
  BY DEF WaitInit, Unused
<1>2. WaitTypes
  <2>1. [fd \in Fds |-> "none"] \in [Fds -> {"none", "ident", "callback"}]
    OBVIOUS
  <2>2. Unused \in LooperRecs
    BY <2>1 DEF Unused, LooperRecs
  <2>3. NoWaitLoc \in WaitLocs
    BY WaitingAssumption DEF NoWaitLoc, WaitLocs
  <2> QED  BY <2>2, <2>3 DEF WaitInit, WaitTypes, WaitPlaces
<1>3. (\A l \in 1..NLoopers : InUse(l)) /\ PollsOwn /\ WakeKept
  BY <1>1 DEF WaitInit, InUse, Holders, PollsOwn, Polling, WakeKept
<1>4. \A u \in Threads : Looks(u)
  BY DEF WaitInit, Looks
<1> QED  BY <1>2, <1>3, <1>4 DEF LooperInv

(***************************************************************************)
(* A wake of a looper is kept for its own thread until pollOnce takes it,   *)
(* although loopers are found by thread handle and released by reference;   *)
(* and poll and select report nothing only after a look at every descriptor *)
(* that began when the time had run out.                                    *)
(***************************************************************************)
THEOREM WakesAndLooksKept == WaitSpec => []NothingMissed
<1> DEFINE WaitIInv == LooperInv /\ \A u \in Threads : Looks(u)
<1>1. WaitInit => WaitIInv
  BY WaitStarts
<1>2. WaitIInv /\ [WaitNext]_waitVars => WaitIInv'
  BY LooperInvStep, LooksStep DEF LooperInv
<1>3. WaitIInv => NothingMissed
  BY DEF LooperInv, NothingMissed, Looks, LooksLast
<1> QED  BY <1>1, <1>2, <1>3, PTL DEF WaitSpec

-----------------------------------------------------------------------------
(***************************************************************************)
(* A frame.                                                                 *)
(***************************************************************************)
\* The empty slot is told from a callback.
TableAssumption == NSlots \in Nat /\ NoCallback \notin Callbacks

Tables == [1..NSlots -> Callbacks \cup {NoCallback}]

-----------------------------------------------------------------------------
(***************************************************************************)
(* The clock.                                                               *)
(***************************************************************************)
Readings == now \in Nat /\ told \in Nat /\ told <= now

\* Whoever gives the time reads it then.
LEMMA ReadingsStep ==
  ASSUME Readings, [SessionNext]_sessionVars
  PROVE  Readings' /\ told' >= told
<1> USE DEF Readings
<1>1. CASE UNCHANGED sessionVars
  BY <1>1 DEF sessionVars
<1>2. CASE TimePasses
  BY <1>2 DEF TimePasses, clockVars
<1>3. CASE MainStep \/ TogglePause
  <2>1. CASE HookTick
    BY <2>1 DEF HookTick, ClockTick, mainSame
  <2>2. CASE MainStep /\ ~HookTick
    BY <2>2 DEF MainStep, Start, LoopTest, HookManager, HookRead, HookStamp, HookLock,
                Rendered, Stop, Join, Unload, mainSame, clockVars
  <2>3. CASE TogglePause
    BY <2>3 DEF TogglePause, mainSame, clockVars
  <2> QED  BY <1>3, <2>1, <2>2, <2>3
<1>4. CASE HelperStep
  <2>1. CASE HelperTick
    BY <2>1 DEF HelperTick, ClockTick, helperSame
  <2>2. CASE HelperStep /\ ~HelperTick
    BY <2>2 DEF HelperStep, Wake, HelperEnds, HelperReads, TakeCallbacks, RunCallback,
                CallbacksDone, HelperLooks, HelperTakesOver, HelperGivesUp, helperSame, clockVars
  <2> QED  BY <1>4, <2>1, <2>2
<1>5. CASE (\E c \in Callbacks, i \in 1..NSlots : Post(c, i)) \/ Quit
  BY <1>5 DEF Post, Quit, clockVars
<1> QED  BY <1>1, <1>2, <1>3, <1>4, <1>5 DEF SessionNext

(***************************************************************************)
(* The main thread and the helper both move the game's clock; neither moves *)
(* it back, for any stall, frame length and table.                          *)
(***************************************************************************)
THEOREM ClockNeverBack == SessionSpec => ClockForward
<1>1. SessionInit => Readings
  BY DEF SessionInit, Readings
<1>2. Readings /\ [SessionNext]_sessionVars => Readings' /\ [told' >= told]_sessionVars
  BY ReadingsStep
<1> QED  BY <1>1, <1>2, PTL DEF SessionSpec, ClockForward

-----------------------------------------------------------------------------
(***************************************************************************)
(* The frame callbacks.                                                     *)
(***************************************************************************)
LEMMA CountIsNat ==
  ASSUME TableAssumption, NEW f, NEW c
  PROVE  IsFiniteSet(Holding(f, c)) /\ Cardinality(Holding(f, c)) \in Nat
<1>1. IsFiniteSet(1..NSlots) /\ Holding(f, c) \subseteq 1..NSlots
  BY FS_Interval DEF TableAssumption, Holding
<1> QED  BY <1>1, FS_Subset, FS_CardinalityType

\* How a table's count of a callback changes when one slot is filled or emptied.
LEMMA CountFilled ==
  ASSUME TableAssumption, NEW f \in Tables, NEW c \in Callbacks, NEW d \in Callbacks,
         NEW i \in 1..NSlots, f[i] = NoCallback
  PROVE  /\ [f EXCEPT ![i] = d] \in Tables
         /\ Cardinality(Holding([f EXCEPT ![i] = d], c))
              = Cardinality(Holding(f, c)) + (IF c = d THEN 1 ELSE 0)
<1> DEFINE S == Holding(f, c)
           T == Holding([f EXCEPT ![i] = d], c)
<1>1. IsFiniteSet(S) /\ i \notin S /\ Cardinality(S) \in Nat
  BY CountIsNat DEF TableAssumption, Holding
<1>2. CASE c = d
  <2>1. T = S \cup {i}
    BY <1>2 DEF Holding, Tables
  <2> HIDE DEF S, T
  <2>2. Cardinality(S \cup {i}) = Cardinality(S) + 1
    BY <1>1, FS_AddElement
  <2> QED  BY <1>2, <2>1, <2>2 DEF S, T, Tables
<1>3. CASE c # d
  <2>1. T = S
    BY <1>3 DEF Holding, Tables, TableAssumption
  <2> HIDE DEF S, T
  <2> QED  BY <1>1, <1>3, <2>1 DEF S, T, Tables
<1> QED  BY <1>2, <1>3

\* Emptying a place takes one off the count of the callback that stood there.
LEMMA CountEmptied ==
  ASSUME TableAssumption, NEW f \in Tables, NEW c \in Callbacks,
         NEW i \in 1..NSlots, f[i] \in Callbacks
  PROVE  /\ [f EXCEPT ![i] = NoCallback] \in Tables
         /\ Cardinality(Holding([f EXCEPT ![i] = NoCallback], c))
              = Cardinality(Holding(f, c)) - (IF c = f[i] THEN 1 ELSE 0)
<1> DEFINE g == [f EXCEPT ![i] = NoCallback]
<1>1. g \in Tables /\ g[i] = NoCallback /\ f = [g EXCEPT ![i] = f[i]]
  BY DEF Tables
<1>2. /\ Cardinality(Holding(f, c)) \in Nat
      /\ Cardinality(Holding(g, c)) \in Nat
  BY CountIsNat
<1> HIDE DEF g
<1>3. Cardinality(Holding(f, c)) = Cardinality(Holding(g, c)) + (IF c = f[i] THEN 1 ELSE 0)
  BY <1>1, CountFilled
<1>4. Cardinality(Holding(g, c)) = Cardinality(Holding(f, c)) - (IF c = f[i] THEN 1 ELSE 0)
  BY <1>2, <1>3
<1> QED  BY <1>1, <1>4 DEF g

\* A callback that is not in the table is counted no time.
LEMMA CountNone ==
  ASSUME TableAssumption, NEW c \in Callbacks
  PROVE  NoSlots \in Tables /\ Cardinality(Holding(NoSlots, c)) = 0
<1>1. Holding(NoSlots, c) = {}
  BY DEF Holding, NoSlots, TableAssumption
<1> QED  BY <1>1, FS_EmptySet DEF NoSlots, Tables

\* Every accepted callback is counted, and the helper's batch is empty outside its calls.
Counted ==
  /\ slots \in Tables /\ batch \in Tables
  /\ owed = [c \in Callbacks |-> Pending(c)]
  /\ helper # "calling" => batch = NoSlots

\* Who holds the lock of the clock, and when the helper is there.
Roles ==
  /\ clockLock \in {"free", "main", "helper"}
  /\ clockLock = "main" => main = "tick"
  /\ clockLock = "helper" => helper = "ticking"
  /\ main = "starting" => helper = "none"
  /\ main \in {"unloading", "ended"} => helper = "ended"

\* Who may be where: the main thread, and the helper in its calls.
LEMMA RolesStep ==
  ASSUME Roles, [SessionNext]_sessionVars
  PROVE  Roles'
<1> USE DEF Roles, Main, Helper
<1>1. CASE UNCHANGED sessionVars
  BY <1>1 DEF sessionVars
<1>2. CASE TimePasses
  BY <1>2 DEF TimePasses, clockVars
<1>3. CASE MainStep \/ TogglePause
  <2>1. CASE Start \/ LoopTest \/ Rendered
    BY <2>1 DEF Start, LoopTest, Rendered, mainSame, clockVars
  <2>2. CASE HookManager \/ HookRead \/ HookStamp \/ HookLock \/ HookTick
    BY <2>2 DEF HookManager, HookRead, HookStamp, HookLock, HookTick, mainSame, clockVars
  <2>3. CASE Stop \/ Join \/ Unload \/ TogglePause
    BY <2>3 DEF Stop, Join, Unload, TogglePause, mainSame, clockVars
  <2> QED  BY <1>3, <2>1, <2>2, <2>3 DEF MainStep
<1>4. CASE HelperStep
  <2>1. CASE Wake \/ HelperEnds \/ HelperReads \/ TakeCallbacks \/ CallbacksDone
    BY <2>1 DEF Wake, HelperEnds, HelperReads, TakeCallbacks, CallbacksDone, helperSame, clockVars
  <2>2. CASE \E i \in 1..NSlots : RunCallback(i)
    BY <2>2 DEF RunCallback, helperSame, clockVars
  <2>3. CASE HelperLooks \/ HelperTakesOver \/ HelperGivesUp \/ HelperTick
    BY <2>3 DEF HelperLooks, HelperTakesOver, HelperGivesUp, HelperTick, helperSame, clockVars
  <2> QED  BY <1>4, <2>1, <2>2, <2>3 DEF HelperStep
<1>5. CASE (\E c \in Callbacks, i \in 1..NSlots : Post(c, i)) \/ Quit
  BY <1>5 DEF Post, Quit, clockVars
<1> QED  BY <1>1, <1>2, <1>3, <1>4, <1>5 DEF SessionNext

\* Where neither table nor the debt changes, the count stays.
LEMMA CountedSame ==
  ASSUME Counted, UNCHANGED postVars, helper' = "calling" => helper = "calling",
         helper = "calling" /\ helper' # "calling" => batch = NoSlots
  PROVE  Counted'
  BY DEF Counted, postVars, Pending

\* What is owed is what stands in the table or in the helper's batch.
LEMMA CountedStep ==
  ASSUME TableAssumption, Roles, Counted, [SessionNext]_sessionVars
  PROVE  Counted'
<1> USE DEF Main, Helper
<1>1. CASE UNCHANGED sessionVars
  BY <1>1, CountedSame DEF sessionVars, postVars
<1>2. CASE TimePasses
  BY <1>2, CountedSame DEF TimePasses
<1>3. CASE MainStep \/ TogglePause
  <2>1. UNCHANGED postVars /\ (helper' = helper \/ (helper = "none" /\ helper' = "running"))
    BY <1>3 DEF MainStep, Start, LoopTest, HookManager, HookRead, HookStamp, HookLock,
                HookTick, Rendered, Stop, Join, Unload, TogglePause, mainSame, Roles
  <2> QED  BY <2>1, CountedSame
<1>4. CASE HelperStep
  <2>1. CASE TakeCallbacks
    <3>1. helper # "calling" /\ batch = NoSlots /\ batch' = slots /\ slots' = NoSlots
          /\ owed' = owed /\ helper' = "calling"
      BY <2>1 DEF TakeCallbacks, Counted
    <3>2. slots' \in Tables /\ batch' \in Tables
      BY <3>1 DEF Counted
    <3>3. ASSUME NEW c \in Callbacks PROVE Pending(c)' = Pending(c)
      <4>1. Cardinality(Holding(slots, c)) \in Nat
        BY CountIsNat
      <4>2. Pending(c)' = Cardinality(Holding(NoSlots, c)) + Cardinality(Holding(slots, c))
        BY <3>1 DEF Pending, Holding
      <4>3. Pending(c) = Cardinality(Holding(slots, c)) + Cardinality(Holding(NoSlots, c))
        BY <3>1 DEF Pending
      <4> QED  BY <4>1, <4>2, <4>3, CountNone
    <3> QED  BY <3>1, <3>2, <3>3 DEF Counted
  <2>2. ASSUME NEW i \in 1..NSlots, RunCallback(i) PROVE Counted'
    <3>1. /\ helper = "calling" /\ helper' = "calling" /\ batch[i] # NoCallback
          /\ batch' = [batch EXCEPT ![i] = NoCallback] /\ slots' = slots
          /\ owed' = [owed EXCEPT ![batch[i]] = @ - 1]
      BY <2>2 DEF RunCallback, IsFirst, Taken
    <3>2. batch[i] \in Callbacks
      BY <3>1 DEF Counted, Tables
    <3>3. batch' \in Tables
      BY <3>1, <3>2, CountEmptied DEF Counted
    <3>4. ASSUME NEW c \in Callbacks
          PROVE  Pending(c)' = Pending(c) - (IF c = batch[i] THEN 1 ELSE 0)
      <4>1. Cardinality(Holding(slots, c)) \in Nat /\ Cardinality(Holding(batch, c)) \in Nat
        BY CountIsNat
      <4>2. Cardinality(Holding(batch', c))
              = Cardinality(Holding(batch, c)) - (IF c = batch[i] THEN 1 ELSE 0)
        BY <3>1, <3>2, CountEmptied DEF Counted
      <4>3. Pending(c)' = Cardinality(Holding(slots, c)) + Cardinality(Holding(batch', c))
        BY <3>1 DEF Pending, Holding
      <4> QED  BY <4>1, <4>2, <4>3 DEF Pending
    <3>5. owed' = [c \in Callbacks |-> Pending(c)']
      <4>1. owed' = [c \in Callbacks |-> IF c = batch[i] THEN Pending(c) - 1 ELSE Pending(c)]
        BY <3>1, <3>2 DEF Counted
      <4>2. ASSUME NEW c \in Callbacks PROVE Pending(c) \in Nat
        BY CountIsNat DEF Pending
      <4> QED  BY <3>4, <4>1, <4>2
    <3> QED  BY <3>1, <3>3, <3>5 DEF Counted
  <2>3. CASE Wake \/ HelperEnds \/ HelperReads \/ CallbacksDone
    BY <2>3, CountedSame DEF Wake, HelperEnds, HelperReads, CallbacksDone
  <2>4. CASE HelperLooks \/ HelperTakesOver \/ HelperGivesUp \/ HelperTick
    BY <2>4, CountedSame DEF HelperLooks, HelperTakesOver, HelperGivesUp, HelperTick
  <2> QED  BY <1>4, <2>1, <2>2, <2>3, <2>4 DEF HelperStep
<1>5. ASSUME NEW d \in Callbacks, NEW i \in 1..NSlots, Post(d, i) PROVE Counted'
  <2>1. /\ slots[i] = NoCallback /\ slots' = [slots EXCEPT ![i] = d] /\ batch' = batch
        /\ owed' = [owed EXCEPT ![d] = @ + 1] /\ helper' = helper
    BY <1>5 DEF Post, IsFirst, FreeSlots
  <2>2. slots' \in Tables
    BY <2>1, CountFilled DEF Counted
  <2>3. ASSUME NEW c \in Callbacks
        PROVE  Pending(c)' = Pending(c) + (IF c = d THEN 1 ELSE 0) /\ Pending(c) \in Nat
    <3>1. Cardinality(Holding(slots, c)) \in Nat /\ Cardinality(Holding(batch, c)) \in Nat
      BY CountIsNat
    <3>2. Cardinality(Holding(slots', c))
            = Cardinality(Holding(slots, c)) + (IF c = d THEN 1 ELSE 0)
      BY <2>1, CountFilled DEF Counted
    <3>3. Pending(c)' = Cardinality(Holding(slots', c)) + Cardinality(Holding(batch, c))
      BY <2>1 DEF Pending, Holding
    <3> QED  BY <3>1, <3>2, <3>3 DEF Pending
  <2>4. owed' = [c \in Callbacks |-> Pending(c)']
    <3>1. owed' = [c \in Callbacks |-> IF c = d THEN Pending(c) + 1 ELSE Pending(c)]
      BY <2>1 DEF Counted
    <3> QED  BY <2>3, <3>1
  <2> QED  BY <2>1, <2>2, <2>4 DEF Counted
<1>6. CASE Quit
  BY <1>6, CountedSame DEF Quit
<1> QED  BY <1>1, <1>2, <1>3, <1>4, <1>5, <1>6 DEF SessionNext

(***************************************************************************)
(* A callback posted by any thread waits in one slot or in the helper's     *)
(* batch until it runs, and the session ends with none half way, for any    *)
(* number of slots and callbacks.                                           *)
(***************************************************************************)
THEOREM CallbacksRunOnce ==
  ASSUME TableAssumption
  PROVE  SessionSpec => []PostedRunsOnce
<1>1. SessionInit => Roles /\ Counted
  <2> SUFFICES ASSUME SessionInit PROVE Roles /\ Counted
    OBVIOUS
  <2>1. Roles
    BY DEF SessionInit, Roles
  <2>2. ASSUME NEW c \in Callbacks PROVE NoSlots \in Tables /\ Pending(c) = 0
    BY CountNone DEF SessionInit, Pending
  <2>3. NoSlots \in Tables
    BY DEF NoSlots, Tables
  <2> QED  BY <2>1, <2>2, <2>3 DEF SessionInit, Counted
<1>2. Roles /\ Counted /\ [SessionNext]_sessionVars => Roles' /\ Counted'
  BY RolesStep, CountedStep
<1>3. Roles /\ Counted => PostedRunsOnce
  BY DEF Roles, Counted, PostedRunsOnce
<1> QED  BY <1>1, <1>2, <1>3, PTL DEF SessionSpec

-----------------------------------------------------------------------------
(***************************************************************************)
(* The reclaim of GL memory.                                                *)
(***************************************************************************)
\* Textures are counted in whole numbers.
GfxAssumption == Batch \in Int

GfxLocals == [op : {"none", "plain", "storage", "image", "subimage"}, again : BOOLEAN,
           next : {"idle", "submit", "force", "mark"}, aside : Int]

GfxTypes ==
  /\ pending \in Int /\ fenced \in Int
  /\ error \in [GlThreads -> {"none", "oom", "bad"}] /\ failed \in [GlThreads -> BOOLEAN]
  /\ gfxPc \in [GlThreads -> {"idle", "poll", "zero", "settle", "finish", "submit", "cover", "force",
                         "lock", "mark", "clear", "host", "check", "drain", "done"}]
  /\ gfxLoc \in [GlThreads -> GfxLocals]

\* Thread t is on its way to the host again.
Retrying(t) ==
  \/ gfxPc[t] \in {"finish", "zero", "settle"} /\ gfxLoc[t].next = "mark"
  \/ gfxPc[t] \in {"mark", "clear", "host"}

\* Only a thread that will try again has an error it no longer shows.
Shown == \A t \in GlThreads : failed[t] /\ error[t] = "none" => Retrying(t)

GfxIInv == GfxTypes /\ Shown

\* The locals a call begins with.
LEMMA NewLocals ==
  /\ NoGfxLoc \in GfxLocals
  /\ \A op \in {"none", "plain", "storage", "image", "subimage"} :
       [NoGfxLoc EXCEPT !.op = op] \in GfxLocals /\ [NoGfxLoc EXCEPT !.op = op, !.next = "force"] \in GfxLocals
  /\ [NoGfxLoc EXCEPT !.next = "submit"] \in GfxLocals
  /\ \A n \in Int : [NoGfxLoc EXCEPT !.aside = n, !.next = "submit"] \in GfxLocals
<1>1. NoGfxLoc \in GfxLocals
  BY DEF NoGfxLoc, GfxLocals
<1> QED  BY <1>1 DEF GfxLocals

\* The bookkeeping of the reclaim, which no error depends on.
LEMMA ReclaimStep ==
  ASSUME GfxAssumption, GfxIInv, NEW t \in GlThreads,
         \/ Retired(t) \/ NotRetired(t) \/ ZeroFenced(t) \/ Settle(t) \/ FinishReclaim(t)
         \/ Submit(t) \/ Cover(t) \/ DeleteTextures(t) \/ SwapBuffers(t) \/ ForceReclaim(t)
  PROVE  GfxIInv'
<1> USE DEF GfxAssumption, GfxIInv, Retrying, GfxGoto, Ready, Less, shared
<1>1. CASE Retired(t)
  <2>1. GfxTypes'
    BY <1>1, SMTT(60) DEF Retired, GfxTypes, GfxLocals
  <2>2. Shown'
    BY <1>1 DEF Retired, GfxTypes, GfxLocals, Shown
  <2> QED  BY <2>1, <2>2
<1>2. CASE NotRetired(t)
  <2>1. GfxTypes'
    BY <1>2 DEF NotRetired, GfxTypes, GfxLocals
  <2>2. Shown'
    BY <1>2 DEF NotRetired, GfxTypes, GfxLocals, Shown
  <2> QED  BY <2>1, <2>2
<1>3. CASE ZeroFenced(t)
  <2>1. GfxTypes'
    BY <1>3 DEF ZeroFenced, GfxTypes, GfxLocals
  <2>2. Shown'
    BY <1>3 DEF ZeroFenced, GfxTypes, GfxLocals, Shown
  <2> QED  BY <2>1, <2>2
<1>4. CASE Settle(t)
  <2>1. GfxTypes'
    BY <1>4 DEF Settle, GfxTypes, GfxLocals
  <2>2. Shown'
    BY <1>4 DEF Settle, GfxTypes, GfxLocals, Shown
  <2> QED  BY <2>1, <2>2
<1>5. CASE FinishReclaim(t)
  <2>1. GfxTypes'
    BY <1>5 DEF FinishReclaim, GfxTypes, GfxLocals
  <2>2. Shown'
    BY <1>5 DEF FinishReclaim, GfxTypes, GfxLocals, Shown
  <2> QED  BY <2>1, <2>2
<1>6. CASE Submit(t)
  <2>1. GfxTypes'
    BY <1>6 DEF Submit, GfxTypes
  <2>2. Shown'
    BY <1>6 DEF Submit, GfxTypes, GfxLocals, Shown
  <2> QED  BY <2>1, <2>2
<1>7. CASE Cover(t)
  <2>1. GfxTypes'
    BY <1>7 DEF Cover, GfxTypes
  <2>2. Shown'
    BY <1>7 DEF Cover, GfxTypes, GfxLocals, Shown
  <2> QED  BY <2>1, <2>2
<1>8. CASE DeleteTextures(t)
  <2>1. GfxTypes'
    <3>1. [NoGfxLoc EXCEPT !.aside = pending + Batch, !.next = "submit"] \in GfxLocals
      <4>1. pending + Batch \in Int
        BY DEF GfxTypes
      <4> HIDE DEF GfxAssumption, GfxIInv
      <4> QED  BY <4>1, NewLocals
    <3>2. gfxLoc' \in [GlThreads -> GfxLocals]
      BY <1>8, <3>1 DEF DeleteTextures, GfxTypes
    <3> QED  BY <1>8, <3>2 DEF DeleteTextures, GfxTypes
  <2>2. Shown'
    BY <1>8 DEF DeleteTextures, GfxTypes, GfxLocals, Shown
  <2> QED  BY <2>1, <2>2
<1>9. CASE SwapBuffers(t)
  <2>1. GfxTypes'
    <3>1. [NoGfxLoc EXCEPT !.next = "submit"] \in GfxLocals
      BY NewLocals
    <3>2. gfxLoc' \in [GlThreads -> GfxLocals]
      BY <1>9, <3>1 DEF SwapBuffers, GfxTypes
    <3> QED  BY <1>9, <3>2 DEF SwapBuffers, GfxTypes
  <2>2. Shown'
    BY <1>9 DEF SwapBuffers, GfxTypes, GfxLocals, Shown
  <2> QED  BY <2>1, <2>2
<1>10. CASE ForceReclaim(t)
  <2>1. GfxTypes'
    BY <1>10 DEF ForceReclaim, GfxTypes, GfxLocals
  <2>2. Shown'
    BY <1>10 DEF ForceReclaim, GfxTypes, GfxLocals, Shown
  <2> QED  BY <2>1, <2>2
<1> QED  BY <1>1, <1>2, <1>3, <1>4, <1>5, <1>6, <1>7, <1>8, <1>9, <1>10

\* The guest's calls.
LEMMA CallStep ==
  ASSUME GfxIInv, NEW t \in GlThreads,
         \/ InstallCallback(t) \/ GetError(t) \/ Plain(t) \/ TexStorage2D(t)
         \/ (\E op \in {"image", "subimage"} : Compressed(t, op))
         \/ Transcode(t) \/ Note(t) \/ ClearMark(t) \/ Host(t) \/ Check(t) \/ Drain(t) \/ Done(t)
  PROVE  GfxIInv'
<1> USE DEF GfxIInv, Retrying, GfxGoto, Ready, shared
<1>1. CASE InstallCallback(t)
  <2>1. GfxTypes'
    BY <1>1 DEF InstallCallback, GfxTypes
  <2>2. Shown'
    BY <1>1 DEF InstallCallback, GfxTypes, GfxLocals, Shown
  <2> QED  BY <2>1, <2>2
<1>2. CASE GetError(t)
  <2>1. GfxTypes'
    BY <1>2 DEF GetError, GfxTypes
  <2>2. Shown'
    BY <1>2 DEF GetError, GfxTypes, GfxLocals, Shown
  <2> QED  BY <2>1, <2>2
<1>3. CASE Plain(t)
  <2>1. GfxTypes'
    <3>1. [NoGfxLoc EXCEPT !.op = "plain"] \in GfxLocals
      BY NewLocals
    <3>2. gfxLoc' \in [GlThreads -> GfxLocals]
      BY <1>3, <3>1 DEF Plain, GfxTypes
    <3> QED  BY <1>3, <3>2 DEF Plain, GfxTypes
  <2>2. Shown'
    BY <1>3 DEF Plain, GfxTypes, GfxLocals, Shown
  <2> QED  BY <2>1, <2>2
<1>4. CASE TexStorage2D(t)
  <2>1. GfxTypes'
    <3>1. [NoGfxLoc EXCEPT !.op = "storage", !.next = "force"] \in GfxLocals
      BY NewLocals
    <3>2. gfxLoc' \in [GlThreads -> GfxLocals]
      BY <1>4, <3>1 DEF TexStorage2D, GfxTypes
    <3> QED  BY <1>4, <3>2 DEF TexStorage2D, GfxTypes
  <2>2. Shown'
    BY <1>4 DEF TexStorage2D, GfxTypes, GfxLocals, Shown
  <2> QED  BY <2>1, <2>2
<1>5. CASE Transcode(t)
  <2>1. GfxTypes'
    BY <1>5 DEF Transcode, GfxTypes
  <2>2. Shown'
    BY <1>5 DEF Transcode, GfxTypes, GfxLocals, Shown
  <2> QED  BY <2>1, <2>2
<1>6. CASE Note(t)
  <2>1. GfxTypes'
    BY <1>6 DEF Note, GfxTypes
  <2>2. Shown'
    BY <1>6 DEF Note, GfxTypes, GfxLocals, Shown
  <2> QED  BY <2>1, <2>2
<1>7. CASE ClearMark(t)
  <2>1. GfxTypes'
    BY <1>7 DEF ClearMark, GfxTypes
  <2>2. Shown'
    BY <1>7 DEF ClearMark, GfxTypes, GfxLocals, Shown
  <2> QED  BY <2>1, <2>2
<1>8. CASE Check(t)
  <2>1. GfxTypes'
    BY <1>8 DEF Check, GfxTypes
  <2>2. Shown'
    BY <1>8 DEF Check, GfxTypes, GfxLocals, Shown
  <2> QED  BY <2>1, <2>2
<1>9. CASE Drain(t)
  <2>1. GfxTypes'
    BY <1>9, ZenonT(60) DEF Drain, GfxTypes, GfxLocals
  <2>2. Shown'
    BY <1>9 DEF Drain, GfxTypes, GfxLocals, Shown
  <2> QED  BY <2>1, <2>2
<1>10. CASE Done(t)
  <2>1. GfxTypes'
    BY <1>10, NewLocals DEF Done, GfxTypes, GfxLocals
  <2>2. Shown'
    BY <1>10 DEF Done, GfxTypes, GfxLocals, Shown
  <2> QED  BY <2>1, <2>2
<1>11. ASSUME NEW op \in {"image", "subimage"}, Compressed(t, op) PROVE GfxIInv'
  <2>1. GfxTypes'
    <3>1. [NoGfxLoc EXCEPT !.op = op] \in GfxLocals
      BY NewLocals
    <3>2. gfxLoc' \in [GlThreads -> GfxLocals]
      BY <1>11, <3>1 DEF Compressed, GfxTypes
    <3> QED  BY <1>11, <3>2 DEF Compressed, GfxTypes
  <2>2. Shown'
    BY <1>11 DEF Compressed, GfxTypes, GfxLocals, Shown
  <2> QED  BY <2>1, <2>2
<1>12. CASE Host(t)
  <2>1. PICK outcome \in {"none", "oom", "bad"} : HostCall(t, outcome)
    BY <1>12 DEF Host
  <2>2. GfxTypes'
    BY <1>12, <2>1 DEF Host, HostCall, GfxTypes
  <2>3. Shown'
    BY <1>12, <2>1 DEF Host, HostCall, GfxTypes, GfxLocals, Shown
  <2> QED  BY <2>2, <2>3
<1> QED  BY <1>1, <1>2, <1>3, <1>4, <1>5, <1>6, <1>7, <1>8, <1>9, <1>10, <1>11, <1>12

(***************************************************************************)
(* Between its calls a thread whose last call had no effect has its error   *)
(* flag up, for any number of threads that reclaim and retry meanwhile.     *)
(***************************************************************************)
THEOREM FailureAlwaysSeen ==
  ASSUME GfxAssumption
  PROVE  GfxSpec => []FailureIsSeen
<1>1. GfxInit => GfxIInv
  BY DEF GfxInit, GfxIInv, GfxTypes, GfxLocals, Shown, NoGfxLoc
<1>2. GfxIInv /\ [GfxNext]_gfxVars => GfxIInv'
  <2> SUFFICES ASSUME GfxIInv, [GfxNext]_gfxVars PROVE GfxIInv'
    OBVIOUS
  <2>1. CASE Signal \/ UNCHANGED gfxVars
    BY <2>1 DEF Signal, gfxVars, shared, GfxIInv, GfxTypes, Shown, Retrying
  <2>2. ASSUME NEW t \in GlThreads, GfxStep(t) PROVE GfxIInv'
    BY <2>2, ReclaimStep, CallStep DEF GfxStep
  <2> QED  BY <2>1, <2>2 DEF GfxNext
<1>3. GfxIInv => FailureIsSeen
  BY DEF GfxIInv, Shown, Retrying, FailureIsSeen
<1> QED  BY <1>1, <1>2, <1>3, PTL DEF GfxSpec

-----------------------------------------------------------------------------
(***************************************************************************)
(* The pointer.                                                             *)
(***************************************************************************)
\* No finger has the identifier that stands for none.
FingersAreFingers == NoFinger \notin Fingers

PointerStates == [cursor : {Unset, "hidden", "shown"}, pressed : BOOLEAN,
           touch : Fingers \cup {NoFinger}, down : BOOLEAN, broken : BOOLEAN]

\* What a feed keeps on its way, when A counts as held: besides the property, a
\* press has the cursor on the screen.
Tidy(s, aHeld) ==
  /\ ~s.broken
  /\ s.down <=> (s.pressed \/ s.touch # NoFinger)
  /\ ~(s.pressed /\ s.touch # NoFinger)
  /\ s.pressed => aHeld /\ s.cursor = "shown"

PointerIInv ==
  /\ State \in PointerStates /\ buttonA \in BOOLEAN /\ broken \in BOOLEAN /\ cut \in BOOLEAN
  /\ ~cut => ~broken /\ Tidy(State, buttonA)

\* Releasing the press of A, if there is one.
LEMMA ReleaseTidy ==
  ASSUME NEW s \in PointerStates, NEW a
  PROVE  /\ ReleaseController(s) \in PointerStates
         /\ ~ReleaseController(s).pressed
         /\ ReleaseController(s).touch = s.touch /\ ReleaseController(s).cursor = s.cursor
         /\ Tidy(s, a) => Tidy(ReleaseController(s), a)
  BY DEF ReleaseController, Inject, GameDown, Wrong, PointerStates, Tidy

\* The notice of the mode and the two buttons.
LEMMA ButtonsTidy ==
  ASSUME NEW s \in PointerStates, NEW a, NEW pushed \in BOOLEAN, NEW dock \in DockStates
  PROVE  /\ NoticeMode(s, dock) \in PointerStates /\ Plus(s, pushed) \in PointerStates
         /\ Minus(s, pushed) \in PointerStates
         /\ NoticeMode(s, dock).touch = s.touch /\ Plus(s, pushed).touch = s.touch
         /\ Minus(s, pushed).touch = s.touch
         /\ Tidy(s, a) => /\ Tidy(NoticeMode(s, dock), a)
                          /\ Tidy(Plus(s, pushed), a)
                          /\ Tidy(Minus(s, pushed), a)
<1>1. /\ NoticeMode(s, dock) \in PointerStates /\ NoticeMode(s, dock).touch = s.touch
      /\ Tidy(s, a) => Tidy(NoticeMode(s, dock), a)
  BY DEF NoticeMode, PointerStates, Tidy, DockStates, Unset
<1>2. /\ Plus(s, pushed) \in PointerStates /\ Plus(s, pushed).touch = s.touch
      /\ Tidy(s, a) => Tidy(Plus(s, pushed), a)
  BY DEF Plus, PointerStates, Tidy
<1>3. /\ Minus(s, pushed) \in PointerStates /\ Minus(s, pushed).touch = s.touch
      /\ Tidy(s, a) => Tidy(Minus(s, pushed), a)
  <2> DEFINE r == ReleaseController(s)
  <2>1. /\ r \in PointerStates /\ ~r.pressed /\ r.touch = s.touch
        /\ Tidy(s, a) => Tidy(r, a)
    BY ReleaseTidy
  <2> HIDE DEF r
  <2>2. CASE ~pushed
    BY <2>2 DEF Minus
  <2>3. CASE pushed
    <3>1. Minus(s, pushed) = [r EXCEPT !.cursor = "hidden"]
      BY <2>3 DEF Minus, r
    <3> QED  BY <3>1, <2>1 DEF PointerStates, Tidy
  <2> QED  BY <2>2, <2>3
<1> QED  BY <1>1, <1>2, <1>3

\* The list of touches names fingers.
LEMMA ListedAreFingers ==
  ASSUME NEW fingers \in FingerLists, fingers # <<>>
  PROVE  Head(fingers) \in Fingers
<1>1. CASE \E f \in Fingers : fingers = <<f>>
  BY <1>1
<1>2. CASE fingers \in {l \in Fingers \X Fingers : l[1] # l[2]}
  <2>1. PICK f, g \in Fingers : fingers = <<f, g>>
    BY <1>2
  <2> QED  BY <2>1
<1> QED  BY <1>1, <1>2 DEF FingerLists

\* The touch screen: where it has or had the pointer, A has no press.
LEMMA TouchTidy ==
  ASSUME FingersAreFingers,
         NEW s \in PointerStates, NEW a, NEW fingers \in FingerLists
  PROVE  LET after == UpdateTouch(s, fingers) IN
         /\ after \in PointerStates
         /\ Tidy(s, a) => Tidy(after, a) /\ (TouchBusy(s, after) => ~after.pressed)
<1> DEFINE after == UpdateTouch(s, fingers)
<1>1. CASE s.touch # NoFinger
  BY <1>1 DEF UpdateTouch, Inject, GameDown, Wrong, PointerStates, Tidy, TouchBusy
<1>2. CASE s.touch = NoFinger /\ fingers = <<>>
  BY <1>2 DEF UpdateTouch, PointerStates, Tidy, TouchBusy
<1>3. CASE s.touch = NoFinger /\ fingers # <<>>
  <2> DEFINE r == ReleaseController(s)
             f == Head(fingers)
  <2>1. /\ r \in PointerStates /\ ~r.pressed /\ r.touch = s.touch
        /\ Tidy(s, a) => Tidy(r, a)
    BY ReleaseTidy
  <2>2. f \in Fingers
    BY <1>3, ListedAreFingers
  <2>3. after = Inject([r EXCEPT !.touch = f], "down")
    BY <1>3 DEF UpdateTouch
  <2> HIDE DEF r, f, after
  <2>4. after = [r EXCEPT !.touch = f, !.down = TRUE, !.broken = @ \/ r.down]
    BY <2>1, <2>3 DEF Inject, GameDown, Wrong, PointerStates
  <2>5. /\ after \in PointerStates /\ after.touch = f /\ after.down = TRUE
        /\ after.broken = (r.broken \/ r.down) /\ after.pressed = r.pressed
        /\ after.cursor = r.cursor
    BY <2>1, <2>2, <2>4 DEF PointerStates
  <2>6. Tidy(s, a) => Tidy(after, a) /\ ~after.pressed
    BY <1>3, <2>1, <2>2, <2>5 DEF Tidy, FingersAreFingers
  <2> QED  BY <2>5, <2>6 DEF after
<1> QED  BY <1>1, <1>2, <1>3

\* The controller, where no finger is down: a press lasts while A is aHeld.
LEMMA CursorTidy ==
  ASSUME NEW s \in PointerStates, buttonA \in BOOLEAN, NEW aHeld \in BOOLEAN
  PROVE  /\ UpdateCursor(s, aHeld) \in PointerStates
         /\ Tidy(s, buttonA) /\ s.touch = NoFinger => Tidy(UpdateCursor(s, aHeld), aHeld)
<1> DEFINE r == ReleaseController(s)
<1>1. /\ r \in PointerStates /\ ~r.pressed /\ r.touch = s.touch
      /\ Tidy(s, aHeld) => Tidy(r, aHeld)
      /\ Tidy(s, buttonA) => Tidy(r, buttonA)
  BY ReleaseTidy
<1>2. CASE s.cursor # "shown"
  BY <1>2 DEF UpdateCursor, Tidy
<1>3. CASE s.cursor = "shown" /\ aHeld
  BY <1>3 DEF UpdateCursor, UpdateController, Inject, GameDown, Wrong, PointerStates, Tidy
<1>4. CASE s.cursor = "shown" /\ ~aHeld
  <2>1. UpdateCursor(s, aHeld) = IF buttonA THEN r ELSE s
    BY <1>4 DEF UpdateCursor, UpdateController
  <2> HIDE DEF r
  <2> QED  BY <1>1, <2>1 DEF Tidy
<1> QED  BY <1>2, <1>3, <1>4

\* A whole feed.
LEMMA FeedStep ==
  ASSUME FingersAreFingers, PointerIInv,
         NEW dock \in DockStates, NEW fingers \in FingerLists,
         NEW aHeld \in BOOLEAN, NEW plus \in BOOLEAN, NEW minus \in BOOLEAN,
         Feed(dock, fingers, aHeld, plus, minus)
  PROVE  PointerIInv'
<1> DEFINE n == NoticeMode(State, dock)
           p == Plus(n, plus)
           m == Minus(p, minus)
           s == UpdateDevices(m, dock, fingers, aHeld)
<1>1. State \in PointerStates /\ buttonA \in BOOLEAN /\ cut \in BOOLEAN
      /\ (~cut => Tidy(State, buttonA)) /\ State.touch = touch
      /\ State.pressed = pressed /\ State.down = down
  BY DEF PointerIInv, State
<1>2. n \in PointerStates /\ n.touch = touch /\ (Tidy(State, buttonA) => Tidy(n, buttonA))
  BY <1>1, ButtonsTidy
<1>3. p \in PointerStates /\ p.touch = touch /\ (Tidy(State, buttonA) => Tidy(p, buttonA))
  <2> HIDE DEF n
  <2> QED  BY <1>2, ButtonsTidy
<1>4. m \in PointerStates /\ m.touch = touch /\ (Tidy(State, buttonA) => Tidy(m, buttonA))
  <2> HIDE DEF p
  <2> QED  BY <1>3, ButtonsTidy
<1>5. /\ s \in PointerStates
      /\ Tidy(State, buttonA) /\ ~(dock = "docked" /\ touch # NoFinger) => Tidy(s, aHeld)
  <2> HIDE DEF m
  <2>1. CASE dock = "docked"
    BY <1>1, <1>4, <2>1, CursorTidy DEF UpdateDevices
  <2>2. CASE dock # "docked"
    <3> DEFINE after == UpdateTouch(m, fingers)
    <3>1. /\ after \in PointerStates
          /\ Tidy(m, buttonA) => Tidy(after, buttonA) /\ (TouchBusy(m, after) => ~after.pressed)
      BY <1>4, TouchTidy
    <3>2. s = IF TouchBusy(m, after) THEN after ELSE UpdateCursor(after, aHeld)
      BY <2>2 DEF UpdateDevices
    <3> HIDE DEF after, s
    <3>3. CASE TouchBusy(m, after)
      BY <1>4, <3>1, <3>2, <3>3 DEF Tidy
    <3>4. CASE ~TouchBusy(m, after)
      <4>1. after.touch = NoFinger
        BY <3>4 DEF TouchBusy
      <4> QED  BY <1>1, <1>4, <3>1, <3>2, <3>4, <4>1, CursorTidy
    <3> QED  BY <3>3, <3>4
  <2> QED  BY <2>1, <2>2
<1>6. /\ buttonA' = aHeld /\ cursor' = s.cursor /\ pressed' = s.pressed /\ touch' = s.touch
      /\ down' = s.down /\ broken' = s.broken
      /\ cut' = IF dock = "docked" /\ touch # NoFinger THEN TRUE
                ELSE cut /\ (pressed \/ touch # NoFinger \/ down)
  BY DEF Feed
<1> HIDE DEF s
<1>7. ~cut' => Tidy(State, buttonA) /\ ~(dock = "docked" /\ touch # NoFinger)
  BY <1>1, <1>6 DEF Tidy, State
<1>8. State' \in PointerStates /\ buttonA' \in BOOLEAN /\ broken' \in BOOLEAN /\ cut' \in BOOLEAN
  BY <1>1, <1>5, <1>6 DEF PointerStates, State
<1>9. ~cut' => ~broken' /\ Tidy(State, buttonA)'
  BY <1>5, <1>6, <1>7 DEF Tidy, State, PointerStates
<1> QED  BY <1>8, <1>9 DEF PointerIInv

(***************************************************************************)
(* For any set of fingers the touch screen may report, the game never gets  *)
(* a begin inside a gesture nor a move or an end outside one, and believes  *)
(* what input.c believes, except after a docking under a touch.             *)
(***************************************************************************)
THEOREM OnePointerTold ==
  ASSUME FingersAreFingers
  PROVE  PointerSpec => []OnePointer
<1>1. PointerInit => PointerIInv
  BY DEF PointerInit, PointerIInv, State, PointerStates, Tidy, Unset
<1>2. PointerIInv /\ [PointerNext]_pointerVars => PointerIInv'
  <2> SUFFICES ASSUME PointerIInv, [PointerNext]_pointerVars PROVE PointerIInv'
    OBVIOUS
  <2>1. CASE PointerNext
    BY <2>1, FeedStep DEF PointerNext
  <2>2. CASE UNCHANGED pointerVars
    BY <2>2 DEF pointerVars, PointerIInv, State, Tidy
  <2> QED  BY <2>1, <2>2
<1>3. PointerIInv => OnePointer
  BY DEF PointerIInv, OnePointer, Tidy, State
<1> QED  BY <1>1, <1>2, <1>3, PTL DEF PointerSpec
=============================================================================
