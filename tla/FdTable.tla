------------------------------ MODULE FdTable ------------------------------
(***************************************************************************)
(* What source/file_bridge.c remembers about host descriptors, beside the   *)
(* host's own table: the path and native handle of each descriptor, for     *)
(* positioned reads and writes, and the descriptors open on UnityCache's    *)
(* __lock and __data files, which the console would not open twice.         *)
(*                                                                          *)
(* None of this is changed in one step with the host's table: open, close,  *)
(* dup and dup2 call the host first and note it afterwards, table by table. *)
(* The host gives out the lowest free number, so another thread may get a   *)
(* number whose last close is still to be noted.                            *)
(*                                                                          *)
(* A file below is a path after translation.  There is one __lock and one   *)
(* __data file.  A descriptor belongs to the thread that got it: only that  *)
(* thread uses, copies and closes it.  Every record needs a copy of the     *)
(* path, for which there may be no memory.                                  *)
(***************************************************************************)
EXTENDS Naturals, FiniteSets

CONSTANTS
  Threads,   \* guest threads
  NoThread,  \* nobody
  NFds,      \* bound: descriptors of the host
  NSlots,    \* UNITYCACHE_LOCK_SLOTS and UNITYCACHE_DATA_SLOTS
  MaxGiven   \* bound: how often the host gives out a descriptor

ASSUME FdTableAssumption ==
  NFds \in Nat \ {0} /\ NSlots \in Nat \ {0} /\ MaxGiven \in Nat /\ NoThread \notin Threads

Fds == 1..NFds
Slots == 1..NSlots
Files == {"lock", "data", "other"}
NoFile == "none"

VARIABLES
  desc,        \* the host's table: the file each descriptor is open on
  path,        \* g_positioned_fd[].path
  native,      \* g_positioned_fd[].valid: there is an open native handle
  lockSlots,   \* g_unitycache_lock_slots[].fd, 0 where path is NULL
  dataSlots,   \* g_unitycache_data_slots[].fd
  mutex,       \* who holds g_unitycache_lock_mutex between two steps
  pc, loc,     \* where each thread is, and its locals there
  given,       \* how many descriptors the host has given out
  owner,       \* guest: the thread each descriptor was given to
  lost,        \* history: descriptors that have lost a record
  stray        \* history: descriptors copied from a number with a late note

tables == <<path, native, lockSlots, dataSlots>>
vars == <<desc, tables, mutex, pc, loc, given, owner, lost, stray>>

\* handle is what a positioned call has taken out of the table.
NoLoc == [fd |-> 0, from |-> 0, file |-> NoFile, handle |-> "none"]

Init ==
  /\ desc = [f \in Fds |-> NoFile]
  /\ path = [f \in Fds |-> NoFile] /\ native = [f \in Fds |-> FALSE]
  /\ lockSlots = [i \in Slots |-> 0] /\ dataSlots = [i \in Slots |-> 0]
  /\ mutex = NoThread
  /\ pc = [t \in Threads |-> "idle"] /\ loc = [t \in Threads |-> NoLoc]
  /\ given = 0 /\ owner = [f \in Fds |-> NoThread]
  /\ lost = {} /\ stray = {}

At(t, where) == pc[t] = where
Goto(t, where) == pc' = [pc EXCEPT ![t] = where]
Leave(t) == Goto(t, "idle") /\ loc' = [loc EXCEPT ![t] = NoLoc]
Set(t, fd, from, file) ==
  loc' = [loc EXCEPT ![t] = [fd |-> fd, from |-> from, file |-> file, handle |-> "none"]]

\* A call on fd has changed the host's table and not yet every table here.
Pending(fd) ==
  \E t \in Threads :
    loc[t].fd = fd /\ pc[t] \in {"closing", "forget", "copy", "copied", "copycache"}

Free == {f \in Fds : desc[f] = NoFile}
Give == given < MaxGiven /\ given' = given + 1
NewFd == CHOOSE f \in Free : \A g \in Free : f <= g
Owns(t, fd) == At(t, "idle") /\ owner[fd] = t

-----------------------------------------------------------------------------
(***************************************************************************)
(* The tables.                                                              *)
(***************************************************************************)
\* Mutant: the first slot is taken, used or not.
RegisteredOver(slots, fd) == [slots EXCEPT ![1] = fd]

\* unitycache_*_forget_fd_nolock and unitycache_*_register_nolock: with no slot
\* left the descriptor is not registered.
Forgot(slots, fd) == [i \in Slots |-> IF slots[i] = fd THEN 0 ELSE slots[i]]
Registered(slots, fd) ==
  LET s == Forgot(slots, fd)
      unused == {i \in Slots : s[i] = 0}
  IN  IF unused = {} THEN s ELSE [s EXCEPT ![CHOOSE i \in unused : \A j \in unused : i <= j] = fd]
In(slots, fd) == \E i \in Slots : slots[i] = fd

\* strdup may fail, after the old entry is forgotten.
Registrations(slots, fd) == {Registered(slots, fd), Forgot(slots, fd)}

\* unitycache_*_find_nolock: slots before the answer whose descriptor is closed are
\* dropped.  The answer is 0 when there is none.
Alive(slots) == {i \in Slots : slots[i] # 0 /\ desc[slots[i]] # NoFile}
Found(slots) ==
  IF Alive(slots) = {} THEN 0 ELSE slots[CHOOSE i \in Alive(slots) : \A j \in Alive(slots) : i <= j]
Swept(slots) ==
  [i \in Slots |-> IF \E j \in Alive(slots) : j <= i THEN slots[i] ELSE 0]

\* Mutant: the native handle of the old file is kept.
SetRecordKeepsHandle(fd, file, locals) ==
  /\ path' = [path EXCEPT ![fd] = file]
  /\ loc' = locals /\ UNCHANGED native

\* positioned_slot_clear_nolock, then the new path if there is one.  Closing the
\* native handle closes it for the call that has copied it out of the table.
SetRecord(fd, file, locals) ==
  /\ path' = [path EXCEPT ![fd] = file]
  /\ native' = [native EXCEPT ![fd] = FALSE]
  /\ loc' = [u \in Threads |->
       IF locals[u].handle = "open" /\ locals[u].fd = fd /\ native[fd]
         THEN [locals[u] EXCEPT !.handle = "closed"] ELSE locals[u]]

\* positioned_register: NoFile where strdup fails, and the slot stays empty, as it
\* does for a descriptor beyond POSITIONED_FD_SLOTS.
Keepable(file) == {file, NoFile}
Unkept(fd, file) == IF file = NoFile THEN {fd} ELSE {}

-----------------------------------------------------------------------------
(***************************************************************************)
(* file_open and file_fopen.                                                *)
(***************************************************************************)
\* A file opened for writing cannot be opened a second time.
Refused(f) == f = "lock" /\ \E fd \in Fds : desc[fd] = "lock"

Opened(t, f, next) ==
  /\ At(t, "idle") /\ Free # {} /\ ~Refused(f) /\ Give
  /\ desc' = [desc EXCEPT ![NewFd] = f]
  /\ Set(t, NewFd, 0, f) /\ Goto(t, next)
  /\ UNCHANGED <<tables, mutex, owner, lost, stray>>

Open(t, f) == Opened(t, f, IF f = "other" THEN "register" ELSE "cache")

\* The stdio calls do not use the UnityCache tables.
Fopen(t) == Opened(t, "other", "register")

OpenRefused(t) ==
  /\ At(t, "idle") /\ Refused("lock")
  /\ Set(t, 0, 0, "lock") /\ Goto(t, "refused")
  /\ UNCHANGED <<desc, tables, mutex, given, owner, lost, stray>>

\* A descriptor that is in no slot of its file although it should be.
Unlisted(fd, slots) == IF In(slots, fd) THEN {} ELSE {fd}

\* The new descriptor is registered with its UnityCache file.
CacheRegister(t) ==
  LET fd == loc[t].fd IN
  /\ At(t, "cache") /\ mutex = NoThread
  /\ IF loc[t].file = "lock"
       THEN /\ lockSlots' \in Registrations(lockSlots, fd)
            /\ lost' = lost \cup Unlisted(fd, lockSlots')
            /\ UNCHANGED dataSlots
       ELSE /\ dataSlots' \in Registrations(dataSlots, fd)
            /\ lost' = lost \cup Unlisted(fd, dataSlots')
            /\ UNCHANGED lockSlots
  /\ Goto(t, "register")
  /\ UNCHANGED <<desc, path, native, mutex, loc, given, owner, stray>>

\* Result 0xE02: a descriptor that is open on the lock file is looked for ...
FindLock(t) ==
  /\ At(t, "refused") /\ mutex = NoThread
  /\ lockSlots' = Swept(lockSlots)
  /\ IF Found(lockSlots) = 0
       THEN Leave(t) /\ UNCHANGED mutex
       ELSE Set(t, 0, Found(lockSlots), "lock") /\ Goto(t, "share") /\ mutex' = t
  /\ UNCHANGED <<desc, path, native, dataSlots, given, owner, lost, stray>>

\* ... and copied, still under the mutex.
ShareLock(t) ==
  LET from == loc[t].from IN
  /\ At(t, "share") /\ desc[from] # NoFile /\ Free # {} /\ Give
  /\ desc' = [desc EXCEPT ![NewFd] = desc[from]]
  /\ lockSlots' \in Registrations(lockSlots, NewFd)
  /\ lost' = lost \cup Unlisted(NewFd, lockSlots')
  /\ stray' = IF from \in stray \/ Pending(from) THEN stray \cup {NewFd} ELSE stray
  /\ mutex' = NoThread
  /\ Set(t, NewFd, 0, "lock") /\ Goto(t, "register")
  /\ UNCHANGED <<path, native, dataSlots, owner>>

\* dup fails, or ftruncate does and the copy is closed again.
ShareFails(t) ==
  /\ At(t, "share")
  /\ mutex' = NoThread /\ Leave(t)
  /\ UNCHANGED <<desc, tables, given, owner, lost, stray>>

\* positioned_register, and the descriptor is returned.
Register(t) ==
  /\ At(t, "register")
  /\ \E file \in Keepable(loc[t].file) :
       /\ SetRecord(loc[t].fd, file, [loc EXCEPT ![t] = NoLoc])
       /\ lost' = lost \cup Unkept(loc[t].fd, file)
  /\ owner' = [owner EXCEPT ![loc[t].fd] = t]
  /\ Goto(t, "idle")
  /\ UNCHANGED <<desc, lockSlots, dataSlots, mutex, given, stray>>

-----------------------------------------------------------------------------
(***************************************************************************)
(* nx_close and file_fclose: close, then file_note_fd_closed.               *)
(***************************************************************************)
Close(t, fd) ==
  /\ Owns(t, fd)
  /\ desc' = [desc EXCEPT ![fd] = NoFile]
  /\ owner' = [owner EXCEPT ![fd] = NoThread]
  /\ lost' = lost \ {fd} /\ stray' = stray \ {fd}
  /\ Set(t, fd, 0, NoFile) /\ Goto(t, "closing")
  /\ UNCHANGED <<tables, mutex, given>>

\* The number may be another thread's by now.
Reused(fd) == IF desc[fd] = NoFile THEN {} ELSE {fd}

NoteClosed(t) ==
  /\ At(t, "closing")
  /\ SetRecord(loc[t].fd, NoFile, loc)
  /\ lost' = lost \cup Reused(loc[t].fd)
  /\ Goto(t, "forget")
  /\ UNCHANGED <<desc, lockSlots, dataSlots, mutex, given, owner, stray>>

\* Mutant: only the lock table is cleaned.
ForgetLockOnly(t) ==
  /\ At(t, "forget") /\ mutex = NoThread
  /\ lockSlots' = Forgot(lockSlots, loc[t].fd)
  /\ lost' = lost \cup Reused(loc[t].fd)
  /\ Leave(t)
  /\ UNCHANGED <<desc, path, native, dataSlots, mutex, given, owner, stray>>

Forget(t) ==
  /\ At(t, "forget") /\ mutex = NoThread
  /\ lockSlots' = Forgot(lockSlots, loc[t].fd) /\ dataSlots' = Forgot(dataSlots, loc[t].fd)
  /\ lost' = lost \cup Reused(loc[t].fd)
  /\ Leave(t)
  /\ UNCHANGED <<desc, path, native, mutex, given, owner, stray>>

-----------------------------------------------------------------------------
(***************************************************************************)
(* nx_dup, F_DUPFD and nx_dup2: the host call, then file_note_fd_duplicated.*)
(***************************************************************************)
Copied(t, old, new) ==
  /\ desc' = [desc EXCEPT ![new] = desc[old]]
  /\ owner' = [owner EXCEPT ![new] = t]
  /\ lost' = IF old \in lost THEN lost \cup {new} ELSE lost \ {new}
  /\ stray' = IF old \in stray \/ Pending(old) THEN stray \cup {new} ELSE stray \ {new}
  /\ Set(t, new, old, NoFile) /\ Goto(t, "copy")
  /\ UNCHANGED <<tables, mutex>>

Dup(t, fd) == Owns(t, fd) /\ Free # {} /\ Give /\ Copied(t, fd, NewFd)

Dup2(t, old, new) == Owns(t, old) /\ Owns(t, new) /\ old # new /\ Give /\ Copied(t, old, new)

\* positioned_copy_metadata.
CopyRecord(t) ==
  /\ At(t, "copy")
  /\ Set(t, loc[t].fd, loc[t].from, path[loc[t].from]) /\ Goto(t, "copied")
  /\ UNCHANGED <<desc, tables, mutex, given, owner, lost, stray>>

\* positioned_register, or the new descriptor's old record is cleared.
PasteRecord(t) ==
  /\ At(t, "copied")
  /\ \E file \in Keepable(loc[t].file) :
       /\ SetRecord(loc[t].fd, file, loc)
       /\ lost' = lost \cup Unkept(loc[t].fd, file)
  /\ Goto(t, "copycache")
  /\ UNCHANGED <<desc, lockSlots, dataSlots, mutex, given, owner, stray>>

CopySlots(slots, old, new) ==
  LET s == Forgot(slots, new) IN IF In(s, old) THEN Registrations(s, new) ELSE {s}

CopyCache(t) ==
  LET new == loc[t].fd
      old == loc[t].from
  IN
  /\ At(t, "copycache") /\ mutex = NoThread
  /\ lockSlots' \in CopySlots(lockSlots, old, new) /\ dataSlots' \in CopySlots(dataSlots, old, new)
  /\ lost' = lost \cup (IF In(lockSlots, old) THEN Unlisted(new, lockSlots') ELSE {})
                  \cup (IF In(dataSlots, old) THEN Unlisted(new, dataSlots') ELSE {})
  /\ Leave(t)
  /\ UNCHANGED <<desc, path, native, mutex, given, owner, stray>>

-----------------------------------------------------------------------------
(***************************************************************************)
(* file_pread and file_pwrite.                                              *)
(***************************************************************************)
\* positioned_snapshot: the native handle is opened when first needed, which may
\* fail, and copied out of the table.  Without one the call seeks and reads.
Snapshot(t, fd) ==
  /\ Owns(t, fd)
  /\ \E opens \in BOOLEAN :
       /\ native' = [native EXCEPT ![fd] = @ \/ (path[fd] # NoFile /\ opens)]
       /\ loc' = [loc EXCEPT ![t] = [fd |-> fd, from |-> 0, file |-> IF native'[fd] THEN path[fd] ELSE NoFile,
                                     handle |-> IF native'[fd] THEN "open" ELSE "none"]]
  /\ Goto(t, "positioned")
  /\ UNCHANGED <<desc, path, lockSlots, dataSlots, mutex, given, owner, lost, stray>>

\* The transfer, after the unlock.
Transfer(t) ==
  /\ At(t, "positioned") /\ Leave(t)
  /\ UNCHANGED <<desc, tables, mutex, given, owner, lost, stray>>

-----------------------------------------------------------------------------
(***************************************************************************)
(* file_truncate and file_stat, which find a __data file's descriptor by    *)
(* its path.                                                                *)
(***************************************************************************)
FindData(t) ==
  /\ At(t, "idle") /\ mutex = NoThread
  /\ dataSlots' = Swept(dataSlots)
  /\ Found(dataSlots) # 0
  /\ Set(t, 0, Found(dataSlots), "data") /\ Goto(t, "truncate") /\ mutex' = t
  /\ UNCHANGED <<desc, path, native, lockSlots, given, owner, lost, stray>>

\* No descriptor is open on it: truncate by path.
FindNoData(t) ==
  /\ At(t, "idle") /\ mutex = NoThread
  /\ Found(dataSlots) = 0
  /\ dataSlots' = Swept(dataSlots)
  /\ UNCHANGED <<desc, path, native, lockSlots, mutex, pc, loc, given, owner, lost, stray>>

Ftruncate(t) ==
  /\ At(t, "truncate")
  /\ mutex' = NoThread /\ Leave(t)
  /\ UNCHANGED <<desc, tables, given, owner, lost, stray>>

\* stat failed with EIO: fstat of a copy of the first descriptor listed.
Listed == {i \in Slots : dataSlots[i] # 0}
StatCopy(t) ==
  LET from == dataSlots[CHOOSE i \in Listed : \A j \in Listed : i <= j] IN
  /\ At(t, "idle") /\ mutex = NoThread /\ Listed # {}
  /\ desc[from] # NoFile /\ Free # {} /\ Give
  /\ desc' = [desc EXCEPT ![NewFd] = desc[from]]
  /\ Set(t, NewFd, 0, NoFile) /\ Goto(t, "probe")
  /\ UNCHANGED <<tables, mutex, owner, lost, stray>>

\* The copy is closed without a note: it was never registered.
StatClose(t) ==
  /\ At(t, "probe")
  /\ desc' = [desc EXCEPT ![loc[t].fd] = NoFile]
  /\ lost' = lost \ {loc[t].fd}
  /\ Leave(t)
  /\ UNCHANGED <<tables, mutex, given, owner, stray>>

Step(t) ==
  \/ CacheRegister(t) \/ FindLock(t) \/ ShareLock(t) \/ ShareFails(t) \/ Register(t)
  \/ NoteClosed(t) \/ Forget(t) \/ CopyRecord(t) \/ PasteRecord(t) \/ CopyCache(t)
  \/ Transfer(t) \/ Ftruncate(t) \/ StatClose(t)

Call(t) ==
  \/ \E f \in Files : Open(t, f)
  \/ Fopen(t) \/ OpenRefused(t) \/ FindData(t) \/ FindNoData(t) \/ StatCopy(t)
  \/ \E fd \in Fds : Close(t, fd) \/ Dup(t, fd) \/ Snapshot(t, fd)
  \/ \E old, new \in Fds : Dup2(t, old, new)

Next == \E t \in Threads : Step(t) \/ Call(t)

Spec == Init /\ [][Next]_vars

-----------------------------------------------------------------------------
(***************************************************************************)
(* Properties.                                                              *)
(***************************************************************************)
Locals ==
  [fd : 0..NFds, from : 0..NFds, file : Files \cup {NoFile}, handle : {"none", "open", "closed"}]

\* The type invariant; a thread in the middle of a call names the descriptors it is about.
TypeOK ==
  /\ desc \in [Fds -> Files \cup {NoFile}] /\ path \in [Fds -> Files \cup {NoFile}]
  /\ native \in [Fds -> BOOLEAN]
  /\ lockSlots \in [Slots -> 0..NFds] /\ dataSlots \in [Slots -> 0..NFds]
  /\ mutex \in Threads \cup {NoThread}
  /\ pc \in [Threads -> {"idle", "cache", "refused", "share", "register", "closing", "forget", "copy",
                         "copied", "copycache", "positioned", "truncate", "probe"}]
  /\ loc \in [Threads -> Locals]
  /\ owner \in [Fds -> Threads \cup {NoThread}]
  /\ given \in 0..MaxGiven /\ lost \subseteq Fds /\ stray \subseteq Fds

\* A record names the file its descriptor is open on, but while a call on that
\* number is still to be noted, and but for what is copied in that window: so a
\* positioned call, a shared lock file and a truncation by path touch the right file.
RecordsTrue ==
  \A fd \in Fds : ~Pending(fd) /\ fd \notin stray =>
    /\ path[fd] \in {NoFile, desc[fd]}
    /\ In(lockSlots, fd) => desc[fd] = "lock"
    /\ In(dataSlots, fd) => desc[fd] = "data"

\* A descriptor in a thread's hands has its records, unless a late note of its
\* number's last close has wiped them, slots or memory ran out, or it is a copy of such
\* a one: so a lock file that is open can be opened again.
RecordsKept ==
  \A fd \in Fds : owner[fd] # NoThread /\ ~Pending(fd) /\ fd \notin lost \cup stray =>
    /\ path[fd] = desc[fd]
    /\ desc[fd] = "lock" => In(lockSlots, fd)
    /\ desc[fd] = "data" => In(dataSlots, fd)

\* A positioned call transfers with a handle of its own descriptor's file, and the
\* handle is closed under it only by a late note.
HandleOfOwnFile ==
  \A t \in Threads : At(t, "positioned") /\ loc[t].fd \notin stray =>
    /\ loc[t].handle = "open" => loc[t].file = desc[loc[t].fd]
    /\ loc[t].handle = "closed" => loc[t].fd \in lost
=============================================================================
