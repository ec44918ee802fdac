---------------------------- MODULE FdTableProofs ----------------------------
(***************************************************************************)
(* For any threads, descriptors and slots: what file_bridge.c remembers of  *)
(* a descriptor is about the file it is open on, and is there, but for what *)
(* a late note or the end of the slots explains.                            *)
(***************************************************************************)
EXTENDS FdTable, FiniteSetTheorems, TLAPS

\* What a call has to do with descriptor fd: it is being opened, or copied and not
\* opened with a record; it is being closed; it is a new copy.
Opens(t, fd) == pc[t] \in {"cache", "register", "probe"} /\ loc[t].fd = fd
Closes(t, fd) == pc[t] \in {"closing", "forget"} /\ loc[t].fd = fd
Copies(t, fd) == pc[t] \in {"copy", "copied", "copycache"} /\ loc[t].fd = fd
Pastes(t, fd) == pc[t] \in {"copy", "copied"} /\ loc[t].fd = fd
Clears(t, fd) == pc[t] = "closing" /\ loc[t].fd = fd

InSlots(fd) ==
  (desc[fd] = "lock" => In(lockSlots, fd)) /\ (desc[fd] = "data" => In(dataSlots, fd))
SlotsTrue(fd) ==
  (In(lockSlots, fd) => desc[fd] = "lock") /\ (In(dataSlots, fd) => desc[fd] = "data")

\* What holds of descriptor fd.  A late note counts as a loss, so an owner may rely
\* on what is not lost whoever else is still to note a close of the number.
Records(fd) ==
  /\ owner[fd] # NoThread \/ fd \in lost \cup stray => desc[fd] # NoFile
  /\ native[fd] => path[fd] # NoFile
  /\ owner[fd] = NoThread /\ (\A t \in Threads : ~Clears(t, fd)) => path[fd] = NoFile
  /\ owner[fd] # NoThread /\ fd \notin stray /\ (\A t \in Threads : ~Pastes(t, fd)) =>
       path[fd] \in {NoFile, desc[fd]} /\ (fd \notin lost => path[fd] = desc[fd])
  /\ owner[fd] # NoThread /\ fd \notin lost \cup stray /\ (\A t \in Threads : ~Copies(t, fd)) =>
       InSlots(fd)
  /\ ~Pending(fd) /\ fd \notin stray => SlotsTrue(fd)

Opening(t) ==
  LET fd == loc[t].fd IN
  pc[t] \in {"cache", "register", "probe"} =>
    /\ fd \in Fds /\ desc[fd] # NoFile /\ owner[fd] = NoThread
    /\ \A u \in Threads \ {t} : ~Opens(u, fd)
    /\ pc[t] # "register" => fd \notin stray
    /\ pc[t] = "cache" => loc[t].file \in {"lock", "data"} /\ desc[fd] = loc[t].file
    /\ pc[t] = "register" =>
         /\ loc[t].file # NoFile /\ (fd \notin stray => desc[fd] = loc[t].file)
         /\ fd \notin lost \cup stray => InSlots(fd)
    /\ pc[t] = "probe" /\ ~Pending(fd) => ~In(lockSlots, fd) /\ ~In(dataSlots, fd)

\* A copy is made from a descriptor of one's own, whose records do not change meanwhile.
Copying(t) ==
  LET fd == loc[t].fd
      from == loc[t].from
  IN
  pc[t] \in {"copy", "copied", "copycache"} =>
    /\ fd \in Fds /\ owner[fd] = t /\ from \in Fds /\ owner[from] = t /\ from # fd
    /\ desc[from] = desc[fd]
    /\ fd \notin stray => from \notin stray /\ ~Pending(from)
    /\ fd \notin lost \cup stray => from \notin lost
    /\ pc[t] = "copied" /\ fd \notin stray =>
         loc[t].file \in {NoFile, desc[fd]} /\ (fd \notin lost => loc[t].file = desc[fd])

Others(t) ==
  /\ pc[t] \in {"closing", "forget"} => loc[t].fd \in Fds
  /\ pc[t] = "truncate" => mutex = t
  /\ pc[t] = "share" => mutex = t /\ loc[t].from \in Fds /\ In(lockSlots, loc[t].from)
  /\ pc[t] = "positioned" => loc[t].fd \in Fds /\ owner[loc[t].fd] = t

IInv ==
  /\ TypeOK
  /\ \A fd \in Fds : Records(fd)
  /\ \A t \in Threads : Opening(t) /\ Copying(t) /\ Others(t)
  /\ HandleOfOwnFile

-----------------------------------------------------------------------------
(***************************************************************************)
(* The tables' operators.                                                   *)
(***************************************************************************)
\* A set of slots or descriptors has a least element: among the sets of what is not
\* above one of its elements, one has none below it.
LEMMA Least ==
  ASSUME NEW n \in Nat, NEW A, A \subseteq 1..n, A # {}
  PROVE  \E k \in A : \A j \in A : k <= j
<1> DEFINE below(k) == {j \in A : j <= k}
           T == {below(k) : k \in A}
<1>1. T \subseteq FiniteSubsetsOf(1..n) /\ T # {}
  <2>1. IsFiniteSet(1..n)
    BY FS_Interval
  <2>2. \A k \in A : below(k) \subseteq 1..n
    OBVIOUS
  <2>3. \A k \in A : IsFiniteSet(below(k))
    BY <2>1, <2>2, FS_Subset
  <2> HIDE DEF below
  <2> QED  BY <2>2, <2>3 DEF FiniteSubsetsOf
<1>2. PICK x \in T : \A y \in T : <<y, x>> \notin StrictSubsetOrdering(1..n)
  <2> HIDE DEF T
  <2> QED  BY <1>1, FS_StrictSubsetOrderingWellFounded, WFMin
<1>3. PICK k \in A : x = below(k)
  OBVIOUS
<1>4. ASSUME NEW j \in A, j < k PROVE FALSE
  <2>1. below(j) \subseteq below(k) /\ k \in below(k) /\ k \notin below(j)
    <3>1. \A i \in A : i \in Int
      OBVIOUS
    <3>2. \A i \in A : i <= j => i <= k
      BY <1>4, <3>1
    <3>3. k <= k /\ ~(k <= j)
      BY <1>4, <3>1
    <3> QED  BY <3>2, <3>3
  <2>2. <<below(j), x>> \in StrictSubsetOrdering(1..n)
    BY <1>3, <2>1 DEF StrictSubsetOrdering
  <2> QED  BY <1>2, <2>2
<1> QED  BY <1>4

Table == [Slots -> 0..NFds]

\* What forgetting, registering and copying a number do to the other numbers of a table.
LEMMA ForgotIs ==
  ASSUME NEW s \in Table, NEW fd \in Fds
  PROVE  /\ Forgot(s, fd) \in Table
         /\ \A g \in Fds : In(Forgot(s, fd), g) <=> g # fd /\ In(s, g)
<1>1. 0 \in 0..NFds
  BY FdTableAssumption
<1> QED  BY <1>1 DEF Forgot, In, Table, Fds

LEMMA RegisteredIs ==
  ASSUME FdTableAssumption, NEW s \in Table, NEW fd \in Fds
  PROVE  /\ Registered(s, fd) \in Table
         /\ \A g \in Fds \ {fd} : In(Registered(s, fd), g) <=> In(s, g)
<1> DEFINE r == Forgot(s, fd)
           unused == {i \in Slots : r[i] = 0}
<1>1. r \in Table /\ \A g \in Fds : In(r, g) <=> g # fd /\ In(s, g)
  BY ForgotIs
<1>2. CASE unused = {}
  <2>1. Registered(s, fd) = r
    BY <1>2 DEF Registered
  <2> HIDE DEF r
  <2> QED  BY <1>1, <2>1
<1>3. CASE unused # {}
  <2> DEFINE i == CHOOSE i \in unused : \A j \in unused : i <= j
  <2>1. \E k \in unused : \A j \in unused : k <= j
    BY <1>3, Least DEF Slots, FdTableAssumption
  <2>2. i \in Slots /\ r[i] = 0
    BY <2>1
  <2>3. Registered(s, fd) = [r EXCEPT ![i] = fd]
    BY <1>3 DEF Registered
  <2> HIDE DEF r, i
  <2>4. [r EXCEPT ![i] = fd] \in Table
    BY <1>1, <2>2 DEF Table, Fds
  <2>5. ASSUME NEW g \in Fds \ {fd} PROVE In([r EXCEPT ![i] = fd], g) <=> In(r, g)
    BY <1>1, <2>2 DEF In, Table, Fds
  <2> QED  BY <1>1, <2>3, <2>4, <2>5
<1> QED  BY <1>2, <1>3

\* The same with and without memory for the path.
LEMMA RegistrationIs ==
  ASSUME FdTableAssumption, NEW s \in Table, NEW fd \in Fds, NEW c \in Registrations(s, fd)
  PROVE  c \in Table /\ \A g \in Fds \ {fd} : In(c, g) <=> In(s, g)
<1>1. CASE c = Registered(s, fd)
  BY <1>1, RegisteredIs
<1>2. CASE c = Forgot(s, fd)
  BY <1>2, ForgotIs
<1> QED  BY <1>1, <1>2 DEF Registrations

LEMMA CopySlotsIs ==
  ASSUME FdTableAssumption, NEW s \in Table, NEW old \in Fds, NEW new \in Fds, old # new,
         NEW c \in CopySlots(s, old, new)
  PROVE  /\ c \in Table
         /\ \A g \in Fds \ {new} : In(c, g) <=> In(s, g)
         /\ In(c, new) => In(s, old)
<1> DEFINE r == Forgot(s, new)
<1>1. r \in Table /\ \A g \in Fds : In(r, g) <=> g # new /\ In(s, g)
  BY ForgotIs
<1>2. IF In(r, old) THEN c \in Registrations(r, new) ELSE c = r
  BY DEF CopySlots
<1> HIDE DEF r
<1>3. CASE In(r, old)
  <2>1. c \in Table /\ \A g \in Fds \ {new} : In(c, g) <=> In(r, g)
    BY <1>1, <1>2, <1>3, RegistrationIs
  <2> QED  BY <1>1, <1>3, <2>1
<1>4. CASE ~In(r, old)
  BY <1>1, <1>2, <1>4
<1> QED  BY <1>3, <1>4

\* What the search finds is open and registered, and only closed descriptors are dropped.
LEMMA SearchIs ==
  ASSUME FdTableAssumption, NEW s \in Table
  PROVE  /\ Swept(s) \in Table
         /\ \A g \in Fds : /\ In(Swept(s), g) => In(s, g)
                           /\ In(s, g) /\ desc[g] # NoFile => In(Swept(s), g)
         /\ Found(s) # 0 => Found(s) \in Fds /\ desc[Found(s)] # NoFile /\ In(Swept(s), Found(s))
<1>1. 0 \in 0..NFds /\ \A i \in Slots : s[i] \in 0..NFds /\ (s[i] # 0 => s[i] \in Fds)
  BY DEF FdTableAssumption, Table, Fds
<1>2. Swept(s) \in Table
  BY <1>1 DEF Swept, Table
<1>3. \A i \in Slots : Swept(s)[i] \in {0, s[i]} /\ (i \in Alive(s) => Swept(s)[i] = s[i])
  <2>1. \A i \in Slots : i <= i
    BY DEF Slots
  <2> QED  BY <2>1 DEF Swept, Alive
<1>4. ASSUME NEW g \in Fds
      PROVE  /\ In(Swept(s), g) => In(s, g)
             /\ In(s, g) /\ desc[g] # NoFile => In(Swept(s), g)
  <2>1. g # 0
    BY DEF Fds
  <2> QED  BY <1>3, <2>1 DEF In, Alive
<1>5. ASSUME Found(s) # 0
      PROVE  Found(s) \in Fds /\ desc[Found(s)] # NoFile /\ In(Swept(s), Found(s))
  <2>1. Alive(s) # {} /\ Alive(s) \subseteq Slots
    BY <1>5 DEF Found, Alive
  <2>2. \E k \in Alive(s) : \A j \in Alive(s) : k <= j
    BY <2>1, Least DEF Slots, FdTableAssumption
  <2> DEFINE i == CHOOSE k \in Alive(s) : \A j \in Alive(s) : k <= j
  <2>3. i \in Alive(s)
    BY <2>2
  <2>4. Found(s) = s[i]
    BY <2>1 DEF Found
  <2> HIDE DEF i
  <2>5. i \in Slots /\ s[i] \in Fds /\ desc[s[i]] # NoFile
    BY <1>1, <2>3 DEF Alive
  <2> QED  BY <1>3, <2>3, <2>4, <2>5 DEF In
<1> QED  BY <1>2, <1>4, <1>5

\* The host gives out a free number.
LEMMA NewFdIs ==
  ASSUME FdTableAssumption, TypeOK, Free # {}
  PROVE  NewFd \in Fds /\ desc[NewFd] = NoFile
<1>1. \E f \in Free : \A g \in Free : f <= g
  BY Least DEF Free, Fds, FdTableAssumption
<1>2. NewFd \in Free
  BY <1>1 DEF NewFd
<1> QED  BY <1>2 DEF Free

-----------------------------------------------------------------------------
(***************************************************************************)
(* Where a thread goes, and what it takes along.                            *)
(***************************************************************************)
Places == {"idle", "cache", "refused", "share", "register", "closing", "forget", "copy",
           "copied", "copycache", "positioned", "truncate", "probe"}

\* Moving a thread, and setting its locals, leaves the others' alone.
LEMMA GotoIs ==
  ASSUME TypeOK, NEW t \in Threads, NEW where \in Places, Goto(t, where)
  PROVE  /\ pc' \in [Threads -> Places] /\ pc'[t] = where
         /\ \A u \in Threads \ {t} : pc'[u] = pc[u]
BY DEF TypeOK, Goto, Places

LEMMA SetIs ==
  ASSUME FdTableAssumption, TypeOK, NEW t \in Threads, NEW fd \in 0..NFds, NEW from \in 0..NFds,
         NEW file \in Files \cup {NoFile}, Set(t, fd, from, file)
  PROVE  /\ loc' \in [Threads -> Locals] /\ \A u \in Threads \ {t} : loc'[u] = loc[u]
         /\ loc'[t].fd = fd /\ loc'[t].from = from /\ loc'[t].file = file
<1> DEFINE r == [fd |-> fd, from |-> from, file |-> file, handle |-> "none"]
<1>1. r \in Locals /\ r.fd = fd /\ r.from = from /\ r.file = file
  BY DEF Locals
<1>2. loc' = [loc EXCEPT ![t] = r] /\ loc \in [Threads -> Locals]
  BY DEF Set, TypeOK
<1> HIDE DEF r
<1> QED  BY <1>1, <1>2

LEMMA LeaveIs ==
  ASSUME FdTableAssumption, TypeOK, NEW t \in Threads, Leave(t)
  PROVE  /\ pc' \in [Threads -> Places] /\ pc'[t] = "idle"
         /\ loc' \in [Threads -> Locals]
         /\ \A u \in Threads \ {t} : pc'[u] = pc[u] /\ loc'[u] = loc[u]
<1>1. NoLoc \in Locals
  BY DEF NoLoc, Locals, FdTableAssumption
<1> QED  BY <1>1 DEF Leave, Goto, TypeOK, Places

\* A record set closes the native handle, also under the preads that copied it.
LEMMA SetRecordIs ==
  ASSUME TypeOK, NEW fd \in Fds, NEW file \in Files \cup {NoFile},
         NEW locals \in [Threads -> Locals], SetRecord(fd, file, locals)
  PROVE  /\ path' \in [Fds -> Files \cup {NoFile}] /\ path'[fd] = file
         /\ native' \in [Fds -> BOOLEAN] /\ ~native'[fd]
         /\ \A g \in Fds \ {fd} : path'[g] = path[g] /\ native'[g] = native[g]
         /\ loc' \in [Threads -> Locals]
         /\ \A u \in Threads :
              /\ loc'[u].fd = locals[u].fd /\ loc'[u].from = locals[u].from
              /\ loc'[u].file = locals[u].file
              /\ loc'[u] # locals[u] => loc'[u].handle = "closed" /\ locals[u].fd = fd
<1>1. /\ path' \in [Fds -> Files \cup {NoFile}] /\ path'[fd] = file
      /\ native' \in [Fds -> BOOLEAN] /\ ~native'[fd]
      /\ \A g \in Fds \ {fd} : path'[g] = path[g] /\ native'[g] = native[g]
  BY DEF SetRecord, TypeOK
<1>2. ASSUME NEW u \in Threads
      PROVE  /\ loc'[u] \in Locals
             /\ loc'[u].fd = locals[u].fd /\ loc'[u].from = locals[u].from
             /\ loc'[u].file = locals[u].file
             /\ loc'[u] # locals[u] => loc'[u].handle = "closed" /\ locals[u].fd = fd
  <2>1. locals[u] \in Locals
    OBVIOUS
  <2>2. [locals[u] EXCEPT !.handle = "closed"] \in Locals
    BY <2>1 DEF Locals
  <2> QED  BY <2>1, <2>2 DEF SetRecord, Locals
<1>3. loc' \in [Threads -> Locals]
  BY <1>2 DEF SetRecord
<1> QED  BY <1>1, <1>2, <1>3

-----------------------------------------------------------------------------
(***************************************************************************)
(* A step of t on descriptor fd leaves the others as they are, but for      *)
(* closed descriptors that drop out of the slots.                           *)
(***************************************************************************)
Acting == {"cache", "register", "probe", "closing", "forget", "copy", "copied", "copycache",
           "positioned"}

StaysAt(u) ==
  /\ pc'[u] = pc[u] /\ loc'[u].fd = loc[u].fd /\ loc'[u].from = loc[u].from
  /\ loc'[u].file = loc[u].file

SameFd(g) ==
  /\ desc'[g] = desc[g] /\ path'[g] = path[g] /\ native'[g] = native[g] /\ owner'[g] = owner[g]
  /\ (g \in lost' <=> g \in lost) /\ (g \in stray' <=> g \in stray)
  /\ (In(lockSlots', g) => In(lockSlots, g)) /\ (In(dataSlots', g) => In(dataSlots, g))
  /\ In(lockSlots, g) /\ desc[g] # NoFile => In(lockSlots', g)
  /\ In(dataSlots, g) /\ desc[g] # NoFile => In(dataSlots', g)

Elsewhere(t, fd) ==
  /\ \A u \in Threads \ {t} :
       StaysAt(u) /\ (pc[u] = "positioned" /\ loc[u].fd # fd => loc'[u] = loc[u])
  /\ \A g \in Fds \ {fd} : SameFd(g)
  /\ pc[t] \in Acting => loc[t].fd = fd
  /\ pc'[t] \in Acting => loc'[t].fd = fd
  /\ mutex \notin {t, NoThread} => mutex' = mutex /\ lockSlots' = lockSlots

\* Nobody is about another descriptor who was not before.
LEMMA SameActs ==
  ASSUME NEW t \in Threads, NEW fd, Elsewhere(t, fd), NEW g \in Fds \ {fd}
  PROVE  /\ \A u \in Threads : /\ Opens(u, g)' <=> Opens(u, g)
                               /\ Copies(u, g)' <=> Copies(u, g)
                               /\ Pastes(u, g)' <=> Pastes(u, g)
                               /\ Clears(u, g)' <=> Clears(u, g)
         /\ Pending(g)' <=> Pending(g)
<1>1. \A u \in Threads :
        \/ pc'[u] = pc[u] /\ loc'[u].fd = loc[u].fd
        \/ /\ u = t /\ (pc[u] \in Acting => loc[u].fd # g) /\ (pc'[u] \in Acting => loc'[u].fd # g)
  BY DEF Elsewhere, StaysAt
<1>2. \A u \in Threads : /\ Opens(u, g)' <=> Opens(u, g)
                         /\ Copies(u, g)' <=> Copies(u, g)
                         /\ Pastes(u, g)' <=> Pastes(u, g)
                         /\ Clears(u, g)' <=> Clears(u, g)
  BY <1>1 DEF Opens, Copies, Pastes, Clears, Acting
<1>3. Pending(g)' <=> Pending(g)
  BY <1>1 DEF Pending, Acting
<1> QED  BY <1>2, <1>3

\* What a step on one number does not disturb.
LEMMA OtherFds ==
  ASSUME IInv, NEW t \in Threads, NEW fd, Elsewhere(t, fd), NEW g \in Fds \ {fd}
  PROVE  Records(g)'
<1>1. Records(g) /\ SameFd(g)
  BY DEF IInv, Elsewhere
<1>2. /\ \A u \in Threads : /\ Copies(u, g)' <=> Copies(u, g)
                            /\ Pastes(u, g)' <=> Pastes(u, g)
                            /\ Clears(u, g)' <=> Clears(u, g)
      /\ Pending(g)' <=> Pending(g)
  BY SameActs
<1>3. /\ InSlots(g) => InSlots(g)'
      /\ SlotsTrue(g) => SlotsTrue(g)'
  BY <1>1 DEF SameFd, InSlots, SlotsTrue, NoFile
<1> QED  BY <1>1, <1>2, <1>3 DEF Records, SameFd

\* A thread that is not about fd finds what it relies on.
LEMMA OtherThreads ==
  ASSUME IInv, NEW t \in Threads, NEW fd, Elsewhere(t, fd), NEW u \in Threads \ {t},
         pc[u] \in Acting \ {"closing", "forget"} => loc[u].fd # fd,
         pc[u] \in {"copy", "copied", "copycache"} => loc[u].from # fd
  PROVE  /\ Opening(u)' /\ Copying(u)' /\ Others(u)'
         /\ pc[u] = "positioned" => loc'[u] = loc[u]
<1>1. /\ Opening(u) /\ Copying(u) /\ Others(u) /\ StaysAt(u)
      /\ pc[u] = "positioned" => loc'[u] = loc[u]
  BY DEF IInv, Elsewhere, Acting
<1>2. Opening(u)'
  <2> SUFFICES ASSUME pc[u] \in {"cache", "register", "probe"} PROVE Opening(u)'
    BY <1>1 DEF StaysAt, Opening
  <2>1. PICK g \in Fds \ {fd} : loc[u].fd = g
    BY <1>1 DEF Opening, Acting
  <2>2. SameFd(g) /\ loc'[u].fd = g
    BY <1>1, <2>1 DEF Elsewhere, StaysAt
  <2>3. (\A w \in Threads : Opens(w, g)' <=> Opens(w, g)) /\ (Pending(g)' <=> Pending(g))
    BY SameActs
  <2>4. InSlots(g) => InSlots(g)'
    BY <2>2 DEF SameFd, InSlots, NoFile
  <2> QED  BY <1>1, <2>1, <2>2, <2>3, <2>4 DEF Opening, StaysAt, SameFd
<1>3. Copying(u)'
  <2> SUFFICES ASSUME pc[u] \in {"copy", "copied", "copycache"} PROVE Copying(u)'
    BY <1>1 DEF StaysAt, Copying
  <2>1. /\ loc[u].fd \in Fds \ {fd} /\ SameFd(loc[u].fd)
        /\ loc[u].from \in Fds \ {fd} /\ SameFd(loc[u].from)
    BY <1>1 DEF Copying, Acting, Elsewhere
  <2>2. Pending(loc[u].from)' <=> Pending(loc[u].from)
    BY <1>1, <2>1, SameActs DEF StaysAt
  <2> QED  BY <1>1, <2>1, <2>2 DEF Copying, StaysAt, SameFd
<1>4. Others(u)'
  <2>1. pc[u] = "positioned" => SameFd(loc[u].fd)
    BY <1>1 DEF Others, Elsewhere, Acting
  <2>2. pc[u] \in {"share", "truncate"} => mutex' = mutex /\ lockSlots' = lockSlots
    BY <1>1, FdTableAssumption DEF Others, Elsewhere
  <2> QED  BY <1>1, <2>1, <2>2 DEF Others, StaysAt, SameFd
<1> QED  BY <1>1, <1>2, <1>3, <1>4

\* What a thread that acts on fd shuts others out from.
LEMMA Exclusive ==
  ASSUME IInv, NEW t \in Threads, NEW fd \in Fds, NEW u \in Threads \ {t},
         desc[fd] = NoFile \/ owner[fd] = t \/ Opens(t, fd)
  PROVE  /\ pc[u] \in Acting \ {"closing", "forget"} => loc[u].fd # fd
         /\ pc[u] \in {"copy", "copied", "copycache"} => loc[u].from # fd
<1>1. /\ Opening(u) /\ Copying(u) /\ Others(u) /\ Opening(t) /\ Records(fd)
      /\ NoThread \notin Threads
  BY FdTableAssumption DEF IInv
<1>2. pc[u] \in {"cache", "register", "probe"} => loc[u].fd # fd
  BY <1>1 DEF Opening, Opens
<1>3. pc[u] \in {"copy", "copied", "copycache"} => loc[u].fd # fd /\ loc[u].from # fd
  BY <1>1 DEF Copying, Opening, Opens, Records
<1>4. pc[u] = "positioned" => loc[u].fd # fd
  BY <1>1 DEF Others, Opening, Opens, Records
<1> QED  BY <1>2, <1>3, <1>4 DEF Acting

HandleOf(t) ==
  pc[t] = "positioned" /\ loc[t].fd \notin stray =>
    /\ loc[t].handle = "open" => loc[t].file = desc[loc[t].fd]
    /\ loc[t].handle = "closed" => loc[t].fd \in lost

\* A step of t on a descriptor that is its own or nobody's.
LEMMA OwnStep ==
  ASSUME IInv, NEW t \in Threads, NEW fd \in Fds, Elsewhere(t, fd),
         desc[fd] = NoFile \/ owner[fd] = t \/ Opens(t, fd),
         TypeOK', Records(fd)', Opening(t)', Copying(t)', Others(t)', HandleOf(t)'
  PROVE  IInv'
<1>1. \A g \in Fds : Records(g)'
  BY OtherFds
<1>2. ASSUME NEW u \in Threads \ {t}
      PROVE  Opening(u)' /\ Copying(u)' /\ Others(u)' /\ HandleOf(u)'
  <2>1. /\ Opening(u)' /\ Copying(u)' /\ Others(u)'
        /\ pc[u] = "positioned" => loc'[u] = loc[u] /\ loc[u].fd # fd
    BY Exclusive, OtherThreads DEF Acting
  <2>2. HandleOf(u)'
    <3> SUFFICES ASSUME pc[u] = "positioned" PROVE HandleOf(u)'
      BY DEF HandleOf, Elsewhere, StaysAt
    <3>1. loc[u].fd \in Fds \ {fd} /\ SameFd(loc[u].fd)
      BY <2>1 DEF IInv, Others, Elsewhere
    <3>2. HandleOf(u)
      BY DEF IInv, HandleOfOwnFile, HandleOf, At
    <3> QED  BY <2>1, <3>1, <3>2 DEF HandleOf, SameFd
  <2> QED  BY <2>1, <2>2
<1>3. HandleOfOwnFile'
  BY <1>2 DEF HandleOfOwnFile, HandleOf, At
<1> QED  BY <1>1, <1>2, <1>3 DEF IInv

\* A step of t that is not about a descriptor.
LEMMA NoFdStep ==
  ASSUME IInv, NEW t \in Threads, Elsewhere(t, 0), TypeOK', pc'[t] \notin Acting, Others(t)'
  PROVE  IInv'
<1>1. Fds \ {0} = Fds
  BY DEF Fds
<1>2. \A g \in Fds : Records(g)'
  BY <1>1, OtherFds
<1>3. ASSUME NEW u \in Threads \ {t}
      PROVE  Opening(u)' /\ Copying(u)' /\ Others(u)' /\ HandleOf(u)'
  <2>1. /\ pc[u] \in Acting \ {"closing", "forget"} => loc[u].fd # 0
        /\ pc[u] \in {"copy", "copied", "copycache"} => loc[u].from # 0
    BY DEF IInv, Opening, Copying, Others, Fds, Acting
  <2>2. /\ Opening(u)' /\ Copying(u)' /\ Others(u)'
        /\ pc[u] = "positioned" => loc'[u] = loc[u]
    BY <2>1, OtherThreads
  <2>3. HandleOf(u)'
    <3> SUFFICES ASSUME pc[u] = "positioned" PROVE HandleOf(u)'
      BY DEF HandleOf, Elsewhere, StaysAt
    <3>1. loc[u].fd \in Fds /\ SameFd(loc[u].fd)
      BY <1>1 DEF IInv, Others, Elsewhere
    <3>2. HandleOf(u)
      BY DEF IInv, HandleOfOwnFile, HandleOf, At
    <3> QED  BY <2>2, <3>1, <3>2 DEF HandleOf, SameFd
  <2> QED  BY <2>2, <2>3
<1>4. Opening(t)' /\ Copying(t)' /\ HandleOf(t)'
  BY DEF Opening, Copying, HandleOf, Acting
<1>5. HandleOfOwnFile'
  BY <1>3, <1>4 DEF HandleOfOwnFile, HandleOf, At
<1> QED  BY <1>2, <1>3, <1>4, <1>5 DEF IInv

-----------------------------------------------------------------------------
(***************************************************************************)
(* Opening a file.                                                          *)
(***************************************************************************)
\* Of a number that the host may give out nothing is noted but late closes.
LEMMA FreshFd ==
  ASSUME IInv, NEW fd \in Fds, desc[fd] = NoFile
  PROVE  /\ owner[fd] = NoThread /\ fd \notin lost /\ fd \notin stray
         /\ \A u \in Threads : ~Opens(u, fd) /\ ~Copies(u, fd)
         /\ ~Pending(fd) => ~In(lockSlots, fd) /\ ~In(dataSlots, fd)
<1>1. owner[fd] = NoThread /\ fd \notin lost /\ fd \notin stray
  BY DEF IInv, Records
<1>2. \A u \in Threads : ~Opens(u, fd) /\ ~Copies(u, fd)
  BY <1>1, FdTableAssumption DEF IInv, Opening, Opens, Copying, Copies
<1>3. ~Pending(fd) => ~In(lockSlots, fd) /\ ~In(dataSlots, fd)
  BY <1>1 DEF IInv, Records, SlotsTrue, NoFile
<1> QED  BY <1>1, <1>2, <1>3

\* t goes on with a number the host has just given out, and nothing is recorded yet.
LEMMA NewNumber ==
  ASSUME IInv, NEW t \in Threads, NEW fd \in Fds, desc[fd] = NoFile, desc'[fd] # NoFile,
         Elsewhere(t, fd), pc[t] \notin Acting, pc'[t] \in {"cache", "register", "probe"},
         loc'[t].fd = fd, path'[fd] = path[fd], native'[fd] = native[fd], owner'[fd] = owner[fd],
         ~Pending(fd) =>
           /\ desc'[fd] = "lock" \/ ~In(lockSlots', fd) \/ fd \in stray'
           /\ desc'[fd] = "data" \/ ~In(dataSlots', fd) \/ fd \in stray'
  PROVE  /\ Records(fd)' /\ \A u \in Threads \ {t} : ~Opens(u, fd)'
         /\ Pending(fd)' <=> Pending(fd)
<1>1. /\ owner[fd] = NoThread
      /\ \A u \in Threads : ~Opens(u, fd) /\ ~Copies(u, fd)
  BY FreshFd
<1>2. \A u \in Threads \ {t} : StaysAt(u)
  BY DEF Elsewhere
<1>3. /\ \A u \in Threads \ {t} : ~Opens(u, fd)'
      /\ \A u \in Threads : Clears(u, fd)' <=> Clears(u, fd)
  BY <1>1, <1>2 DEF Opens, Clears, StaysAt, Acting
<1>4. Pending(fd)' <=> Pending(fd)
  BY <1>2 DEF Pending, StaysAt, Acting
<1>5. Records(fd)'
  BY <1>1, <1>3, <1>4 DEF IInv, Records, SlotsTrue
<1> QED  BY <1>3, <1>4, <1>5

\* An open takes the lowest free number; its records are due in later steps.
LEMMA OpenStep ==
  ASSUME IInv, NEW t \in Threads, NEW f \in Files,
         NEW next \in {"cache", "register"}, next = "cache" => f # "other",
         next = "register" => f = "other", Opened(t, f, next)
  PROVE  IInv'
<1> DEFINE n == NewFd
<1>1. TypeOK /\ n \in Fds /\ desc[n] = NoFile
  BY NewFdIs, FdTableAssumption DEF IInv, Opened
<1>2. PICK fd \in Fds : fd = n
  BY <1>1
<1> HIDE DEF n
<1>3. /\ desc' = [desc EXCEPT ![fd] = f] /\ Set(t, fd, 0, f) /\ Goto(t, next) /\ Give
      /\ UNCHANGED <<path, native, lockSlots, dataSlots, mutex, owner, lost, stray>>
      /\ pc[t] = "idle" /\ f # NoFile
  BY <1>2 DEF Opened, tables, At, n, Files, NoFile
<1>4. /\ pc' \in [Threads -> Places] /\ pc'[t] = next
      /\ \A u \in Threads \ {t} : pc'[u] = pc[u]
  BY <1>1, <1>3, GotoIs DEF Places
<1>5. /\ loc' \in [Threads -> Locals] /\ \A u \in Threads \ {t} : loc'[u] = loc[u]
      /\ loc'[t].fd = fd /\ loc'[t].file = f
  BY <1>1, <1>3, SetIs, FdTableAssumption DEF Fds
<1>6. /\ desc'[fd] = f /\ \A g \in Fds \ {fd} : desc'[g] = desc[g]
      /\ desc' \in [Fds -> Files \cup {NoFile}]
  BY <1>1, <1>3 DEF TypeOK
<1>7. TypeOK'
  BY <1>1, <1>3, <1>4, <1>5, <1>6, FdTableAssumption DEF TypeOK, Places, Give
<1>8. Elsewhere(t, fd)
  BY <1>3, <1>4, <1>5, <1>6 DEF Elsewhere, StaysAt, SameFd, Acting
<1>9. /\ fd \notin stray
      /\ ~Pending(fd) => ~In(lockSlots, fd) /\ ~In(dataSlots, fd)
  BY <1>1, <1>2, FreshFd
<1>10. Records(fd)' /\ \A u \in Threads \ {t} : ~Opens(u, fd)'
  BY <1>1, <1>2, <1>3, <1>4, <1>5, <1>6, <1>8, <1>9, NewNumber DEF Acting
<1>11. owner[fd] = NoThread
  BY <1>1, <1>2, FreshFd
<1>12. Opening(t)'
  BY <1>3, <1>4, <1>5, <1>6, <1>9, <1>10, <1>11 DEF Opening, InSlots, Files
<1>13. Copying(t)' /\ Others(t)' /\ HandleOf(t)'
  BY <1>4 DEF Copying, Others, HandleOf
<1> QED  BY <1>1, <1>2, <1>7, <1>8, <1>10, <1>12, <1>13, OwnStep

\* The searches of the slots and the ends of calls that are not about a descriptor.
LEMMA SearchStep ==
  ASSUME IInv, NEW t \in Threads,
         \/ OpenRefused(t) \/ FindLock(t) \/ ShareFails(t)
         \/ FindData(t) \/ FindNoData(t) \/ Ftruncate(t)
  PROVE  IInv'
<1>1. TypeOK /\ lockSlots \in Table /\ dataSlots \in Table /\ NoThread \notin Threads
  BY FdTableAssumption DEF IInv, TypeOK, Table
<1>2. UNCHANGED <<desc, path, native, given, owner, lost, stray>> /\ pc[t] \notin Acting
  BY DEF OpenRefused, FindLock, ShareFails, FindData, FindNoData, Ftruncate, tables, At, Acting
<1>3. ASSUME /\ pc' \in [Threads -> Places] /\ pc'[t] \notin Acting
             /\ loc' \in [Threads -> Locals]
             /\ \A u \in Threads \ {t} : pc'[u] = pc[u] /\ loc'[u] = loc[u]
             /\ lockSlots' \in {lockSlots, Swept(lockSlots)}
             /\ dataSlots' \in {dataSlots, Swept(dataSlots)}
             /\ mutex' \in Threads \cup {NoThread}
             /\ mutex \notin {t, NoThread} => mutex' = mutex /\ lockSlots' = lockSlots
             /\ Others(t)'
      PROVE  IInv'
  <2>1. lockSlots' \in Table /\ dataSlots' \in Table
    BY <1>1, <1>3, SearchIs, FdTableAssumption
  <2>2. TypeOK'
    BY <1>1, <1>2, <1>3, <2>1 DEF TypeOK, Places, Table
  <2>3. \A g \in Fds : SameFd(g)
    BY <1>1, <1>2, <1>3, SearchIs, FdTableAssumption DEF SameFd
  <2>4. Elsewhere(t, 0)
    BY <1>2, <1>3, <2>3 DEF Elsewhere, StaysAt
  <2> QED  BY <1>3, <2>2, <2>4, NoFdStep
<1>4. CASE OpenRefused(t)
  <2>1. Goto(t, "refused") /\ Set(t, 0, 0, "lock") /\ UNCHANGED <<lockSlots, dataSlots, mutex>>
    BY <1>4 DEF OpenRefused, tables
  <2>2. /\ pc' \in [Threads -> Places] /\ pc'[t] = "refused"
        /\ \A u \in Threads \ {t} : pc'[u] = pc[u]
    BY <1>1, <2>1, GotoIs DEF Places
  <2>3. loc' \in [Threads -> Locals] /\ \A u \in Threads \ {t} : loc'[u] = loc[u]
    BY <1>1, <2>1, SetIs, FdTableAssumption DEF Files
  <2>4. Others(t)'
    BY <2>2 DEF Others
  <2> QED  BY <1>1, <1>3, <2>1, <2>2, <2>3, <2>4 DEF Acting, TypeOK
<1>5. CASE FindLock(t)
  <2>1. mutex = NoThread /\ lockSlots' = Swept(lockSlots) /\ dataSlots' = dataSlots
    BY <1>5 DEF FindLock
  <2>2. CASE Found(lockSlots) = 0
    <3>1. Leave(t) /\ mutex' = mutex
      BY <1>5, <2>2 DEF FindLock
    <3>2. Others(t)'
      BY <1>1, <3>1, LeaveIs, FdTableAssumption DEF Others
    <3> QED  BY <1>1, <1>3, <2>1, <3>1, <3>2, LeaveIs, FdTableAssumption DEF Acting
  <2>3. CASE Found(lockSlots) # 0
    <3>1. Set(t, 0, Found(lockSlots), "lock") /\ Goto(t, "share") /\ mutex' = t
      BY <1>5, <2>3 DEF FindLock
    <3>2. Found(lockSlots) \in Fds /\ In(Swept(lockSlots), Found(lockSlots))
      BY <1>1, <2>3, SearchIs, FdTableAssumption
    <3>3. /\ pc' \in [Threads -> Places] /\ pc'[t] = "share"
          /\ \A u \in Threads \ {t} : pc'[u] = pc[u]
      BY <1>1, <3>1, GotoIs DEF Places
    <3>4. /\ loc' \in [Threads -> Locals] /\ \A u \in Threads \ {t} : loc'[u] = loc[u]
          /\ loc'[t].from = Found(lockSlots)
      BY <1>1, <3>1, <3>2, SetIs, FdTableAssumption DEF Files, Fds
    <3>5. Others(t)'
      BY <2>1, <3>1, <3>2, <3>3, <3>4 DEF Others
    <3> QED  BY <1>1, <1>3, <2>1, <3>1, <3>3, <3>4, <3>5 DEF Acting
  <2> QED  BY <2>2, <2>3
<1>6. CASE ShareFails(t)
  <2>1. Leave(t) /\ mutex' = NoThread /\ UNCHANGED <<lockSlots, dataSlots>> /\ pc[t] = "share"
    BY <1>6 DEF ShareFails, tables, At
  <2>2. mutex = t
    BY <2>1 DEF IInv, Others
  <2>3. Others(t)'
    BY <1>1, <2>1, LeaveIs, FdTableAssumption DEF Others
  <2> QED  BY <1>1, <1>3, <2>1, <2>2, <2>3, LeaveIs, FdTableAssumption DEF Acting
<1>7. CASE FindData(t)
  <2>1. /\ mutex = NoThread /\ dataSlots' = Swept(dataSlots) /\ lockSlots' = lockSlots
        /\ Found(dataSlots) # 0 /\ mutex' = t
        /\ Set(t, 0, Found(dataSlots), "data") /\ Goto(t, "truncate")
    BY <1>7 DEF FindData
  <2>2. Found(dataSlots) \in Fds
    BY <1>1, <2>1, SearchIs, FdTableAssumption
  <2>3. /\ pc' \in [Threads -> Places] /\ pc'[t] = "truncate"
        /\ \A u \in Threads \ {t} : pc'[u] = pc[u]
    BY <1>1, <2>1, GotoIs DEF Places
  <2>4. /\ loc' \in [Threads -> Locals] /\ \A u \in Threads \ {t} : loc'[u] = loc[u]
    BY <1>1, <2>1, <2>2, SetIs, FdTableAssumption DEF Files, Fds
  <2>5. Others(t)'
    BY <2>1, <2>3 DEF Others
  <2> QED  BY <1>1, <1>3, <2>1, <2>3, <2>4, <2>5 DEF Acting
<1>8. CASE FindNoData(t)
  <2>1. /\ mutex = NoThread /\ dataSlots' = Swept(dataSlots)
        /\ UNCHANGED <<lockSlots, mutex, pc, loc>> /\ pc[t] = "idle"
    BY <1>8 DEF FindNoData, At
  <2>2. Others(t)'
    BY <2>1 DEF Others
  <2> QED  BY <1>1, <1>3, <2>1, <2>2 DEF Acting, TypeOK, Places
<1>9. CASE Ftruncate(t)
  <2>1. Leave(t) /\ mutex' = NoThread /\ UNCHANGED <<lockSlots, dataSlots>> /\ pc[t] = "truncate"
    BY <1>9 DEF Ftruncate, tables, At
  <2>2. mutex = t
    BY <2>1 DEF IInv, Others
  <2>3. Others(t)'
    BY <1>1, <2>1, LeaveIs, FdTableAssumption DEF Others
  <2> QED  BY <1>1, <1>3, <2>1, <2>2, <2>3, LeaveIs, FdTableAssumption DEF Acting
<1> QED  BY <1>4, <1>5, <1>6, <1>7, <1>8, <1>9

\* The records that an open, or the sharing of a lock, still owes.
LEMMA CacheRegisterStep ==
  ASSUME IInv, NEW t \in Threads, CacheRegister(t)
  PROVE  IInv'
<1>1. /\ TypeOK /\ lockSlots \in Table /\ dataSlots \in Table /\ pc[t] = "cache"
      /\ mutex = NoThread /\ Goto(t, "register")
      /\ UNCHANGED <<desc, path, native, mutex, loc, given, owner, stray>>
  BY DEF IInv, TypeOK, Table, CacheRegister, At
<1>2. PICK fd \in Fds : fd = loc[t].fd
  BY <1>1 DEF IInv, Opening
<1>3. /\ desc[fd] # NoFile /\ owner[fd] = NoThread /\ fd \notin stray /\ Records(fd)
      /\ \A u \in Threads \ {t} : ~Opens(u, fd)
      /\ loc[t].file \in {"lock", "data"} /\ desc[fd] = loc[t].file /\ Opens(t, fd)
  BY <1>1, <1>2 DEF IInv, Opening, Opens
<1>4. /\ lockSlots' \in Table /\ dataSlots' \in Table
      /\ \A g \in Fds \ {fd} : /\ In(lockSlots', g) <=> In(lockSlots, g)
                               /\ In(dataSlots', g) <=> In(dataSlots, g)
      /\ desc[fd] # "lock" => lockSlots' = lockSlots
      /\ desc[fd] # "data" => dataSlots' = dataSlots
      /\ fd \notin lost' => InSlots(fd)'
      /\ lost \subseteq lost' /\ lost' \subseteq lost \cup {fd}
  <2>1. CASE loc[t].file = "lock"
    <3>1. /\ lockSlots' \in Registrations(lockSlots, fd) /\ dataSlots' = dataSlots
          /\ lost' = lost \cup Unlisted(fd, lockSlots')
      BY <1>2, <2>1 DEF CacheRegister
    <3>2. /\ lockSlots' \in Table
          /\ \A g \in Fds \ {fd} : In(lockSlots', g) <=> In(lockSlots, g)
      BY <1>1, <3>1, RegistrationIs, FdTableAssumption
    <3> QED  BY <1>1, <1>3, <2>1, <3>1, <3>2 DEF InSlots, Unlisted
  <2>2. CASE loc[t].file = "data"
    <3>1. /\ dataSlots' \in Registrations(dataSlots, fd) /\ lockSlots' = lockSlots
          /\ lost' = lost \cup Unlisted(fd, dataSlots')
      BY <1>2, <2>2 DEF CacheRegister
    <3>2. /\ dataSlots' \in Table
          /\ \A g \in Fds \ {fd} : In(dataSlots', g) <=> In(dataSlots, g)
      BY <1>1, <3>1, RegistrationIs, FdTableAssumption
    <3> QED  BY <1>1, <1>3, <2>2, <3>1, <3>2 DEF InSlots, Unlisted
  <2> QED  BY <1>3, <2>1, <2>2
<1>5. /\ pc' \in [Threads -> Places] /\ pc'[t] = "register"
      /\ \A u \in Threads \ {t} : pc'[u] = pc[u]
  BY <1>1, GotoIs DEF Places
<1>6. TypeOK'
  BY <1>1, <1>4, <1>5 DEF TypeOK, Places, Table
<1>7. Elsewhere(t, fd)
  BY <1>1, <1>2, <1>4, <1>5 DEF Elsewhere, StaysAt, SameFd
<1>8. \A u \in Threads : /\ Opens(u, fd)' <=> Opens(u, fd)
                         /\ Clears(u, fd)' <=> Clears(u, fd)
  BY <1>1, <1>5 DEF Opens, Clears
<1>9. Pending(fd)' <=> Pending(fd)
  BY <1>1, <1>5 DEF Pending
<1>10. SlotsTrue(fd) => SlotsTrue(fd)'
  BY <1>1, <1>4 DEF SlotsTrue
<1>11. Records(fd)'
  BY <1>1, <1>3, <1>8, <1>9, <1>10 DEF Records
<1>12. Opening(t)'
  BY <1>1, <1>2, <1>3, <1>4, <1>5, <1>8 DEF Opening, NoFile
<1>13. Copying(t)' /\ Others(t)' /\ HandleOf(t)'
  BY <1>5 DEF Copying, Others, HandleOf
<1> QED  BY <1>3, <1>6, <1>7, <1>11, <1>12, <1>13, OwnStep

LEMMA ShareLockStep ==
  ASSUME IInv, NEW t \in Threads, ShareLock(t)
  PROVE  IInv'
<1> DEFINE n == NewFd
<1>1. /\ TypeOK /\ lockSlots \in Table /\ n \in Fds /\ desc[n] = NoFile /\ pc[t] = "share"
      /\ NoThread \notin Threads
  BY NewFdIs, FdTableAssumption DEF IInv, TypeOK, Table, ShareLock, At
<1>2. PICK fd \in Fds : fd = n
  BY <1>1
<1> HIDE DEF n
<1>3. PICK from \in Fds : from = loc[t].from
  BY <1>1 DEF IInv, Others
<1>4. mutex = t /\ In(lockSlots, from) /\ desc[from] # NoFile
  BY <1>1, <1>3 DEF IInv, Others, ShareLock
<1>5. /\ desc' = [desc EXCEPT ![fd] = desc[from]] /\ Give
      /\ lockSlots' \in Registrations(lockSlots, fd) /\ dataSlots' = dataSlots
      /\ lost' = lost \cup Unlisted(fd, lockSlots')
      /\ stray' = IF from \in stray \/ Pending(from) THEN stray \cup {fd} ELSE stray
      /\ mutex' = NoThread /\ Set(t, fd, 0, "lock") /\ Goto(t, "register")
      /\ UNCHANGED <<path, native, owner>>
  BY <1>2, <1>3 DEF ShareLock, n
<1>6. /\ owner[fd] = NoThread /\ fd \notin lost /\ fd \notin stray
      /\ ~Pending(fd) => ~In(lockSlots, fd) /\ ~In(dataSlots, fd)
      /\ Records(from)
  BY <1>1, <1>2, FreshFd DEF IInv
<1>7. /\ pc' \in [Threads -> Places] /\ pc'[t] = "register"
      /\ \A u \in Threads \ {t} : pc'[u] = pc[u]
  BY <1>1, <1>5, GotoIs DEF Places
<1>8. /\ loc' \in [Threads -> Locals] /\ \A u \in Threads \ {t} : loc'[u] = loc[u]
      /\ loc'[t].fd = fd /\ loc'[t].file = "lock"
  BY <1>1, <1>5, SetIs, FdTableAssumption DEF Fds, Files
<1>9. /\ desc'[fd] = desc[from] /\ \A g \in Fds \ {fd} : desc'[g] = desc[g]
      /\ desc' \in [Fds -> Files \cup {NoFile}]
  BY <1>1, <1>5 DEF TypeOK
<1>10. /\ lockSlots' \in Table
       /\ \A g \in Fds \ {fd} : In(lockSlots', g) <=> In(lockSlots, g)
  BY <1>1, <1>5, RegistrationIs, FdTableAssumption
<1>11. /\ lost \subseteq lost' /\ lost' \subseteq lost \cup {fd}
       /\ fd \notin lost' => In(lockSlots', fd)
       /\ stray \subseteq stray' /\ stray' \subseteq stray \cup {fd}
  BY <1>5 DEF Unlisted
<1>12. fd \notin stray' => desc'[fd] = "lock"
  BY <1>4, <1>5, <1>6, <1>9 DEF Records, SlotsTrue
<1>13. TypeOK'
  BY <1>1, <1>5, <1>7, <1>8, <1>9, <1>10, <1>11, FdTableAssumption
     DEF TypeOK, Places, Give, Table
<1>14. Elsewhere(t, fd)
  BY <1>1, <1>4, <1>5, <1>7, <1>8, <1>9, <1>10, <1>11
     DEF Elsewhere, StaysAt, SameFd, Acting
<1>15. /\ Records(fd)' /\ \A u \in Threads \ {t} : ~Opens(u, fd)'
  BY <1>1, <1>2, <1>4, <1>5, <1>6, <1>7, <1>8, <1>9, <1>12, <1>14, NewNumber DEF Acting
<1>16. Opening(t)'
  BY <1>4, <1>5, <1>6, <1>7, <1>8, <1>9, <1>11, <1>12, <1>15 DEF Opening, InSlots, NoFile
<1>17. Copying(t)' /\ Others(t)' /\ HandleOf(t)'
  BY <1>7 DEF Copying, Others, HandleOf
<1> QED  BY <1>1, <1>2, <1>13, <1>14, <1>15, <1>16, <1>17, OwnStep

LEMMA RegisterStep ==
  ASSUME IInv, NEW t \in Threads, Register(t)
  PROVE  IInv'
<1>1. /\ TypeOK /\ pc[t] = "register" /\ Goto(t, "idle") /\ NoThread \notin Threads
      /\ UNCHANGED <<desc, lockSlots, dataSlots, mutex, given, stray>>
  BY FdTableAssumption DEF IInv, Register, At
<1>2. PICK fd \in Fds : fd = loc[t].fd
  BY <1>1 DEF IInv, Opening
<1> DEFINE locals == [loc EXCEPT ![t] = NoLoc]
<1>3. PICK file \in Keepable(loc[t].file) :
        /\ owner' = [owner EXCEPT ![fd] = t] /\ SetRecord(fd, file, locals)
        /\ lost' = lost \cup Unkept(fd, file)
  BY <1>2 DEF Register
<1>4. /\ locals \in [Threads -> Locals] /\ \A u \in Threads \ {t} : locals[u] = loc[u]
  BY <1>1, FdTableAssumption DEF TypeOK, NoLoc, Locals
<1>5. file \in Files \cup {NoFile} /\ file \in {loc[t].file, NoFile}
  BY <1>1, <1>3 DEF TypeOK, Locals, Keepable
<1> HIDE DEF locals
<1>6. /\ path' \in [Fds -> Files \cup {NoFile}] /\ path'[fd] = file
      /\ native' \in [Fds -> BOOLEAN] /\ ~native'[fd]
      /\ \A g \in Fds \ {fd} : path'[g] = path[g] /\ native'[g] = native[g]
      /\ loc' \in [Threads -> Locals]
      /\ \A u \in Threads \ {t} :
           /\ loc'[u].fd = loc[u].fd /\ loc'[u].from = loc[u].from
           /\ loc'[u].file = loc[u].file /\ (loc'[u] # loc[u] => loc[u].fd = fd)
  BY <1>1, <1>3, <1>4, <1>5, SetRecordIs
<1>7. /\ pc' \in [Threads -> Places] /\ pc'[t] = "idle"
      /\ \A u \in Threads \ {t} : pc'[u] = pc[u]
  BY <1>1, GotoIs DEF Places
<1>8. /\ owner' \in [Fds -> Threads \cup {NoThread}] /\ owner'[fd] = t
      /\ \A g \in Fds \ {fd} : owner'[g] = owner[g]
  BY <1>1, <1>3 DEF TypeOK
<1>9. /\ desc[fd] # NoFile /\ Records(fd) /\ Opens(t, fd)
      /\ fd \notin stray => file \in {NoFile, desc[fd]}
      /\ fd \notin lost \cup stray => InSlots(fd)
      /\ lost \subseteq lost' /\ lost' \subseteq lost \cup {fd}
      /\ fd \notin lost' => file # NoFile
  BY <1>1, <1>2, <1>3, <1>5 DEF IInv, Opening, Opens, Unkept
<1>10. TypeOK'
  BY <1>1, <1>6, <1>7, <1>8, <1>9 DEF TypeOK, Places
<1>11. Elsewhere(t, fd)
  BY <1>1, <1>2, <1>6, <1>7, <1>8, <1>9 DEF Elsewhere, StaysAt, SameFd, Acting
<1>12. Pending(fd)' <=> Pending(fd)
  BY <1>1, <1>6, <1>7 DEF Pending
<1>13. /\ InSlots(fd) => InSlots(fd)'
       /\ SlotsTrue(fd) => SlotsTrue(fd)'
  BY <1>1 DEF InSlots, SlotsTrue
<1>14. Records(fd)'
  BY <1>1, <1>6, <1>8, <1>9, <1>12, <1>13 DEF Records
<1>15. Opening(t)' /\ Copying(t)' /\ Others(t)' /\ HandleOf(t)'
  BY <1>7 DEF Opening, Copying, Others, HandleOf
<1> QED  BY <1>9, <1>10, <1>11, <1>14, <1>15, OwnStep

-----------------------------------------------------------------------------
(***************************************************************************)
(* Closing and copying a descriptor.                                        *)
(***************************************************************************)
LEMMA CloseStep ==
  ASSUME IInv, NEW t \in Threads, NEW fd \in Fds, Close(t, fd)
  PROVE  IInv'
<1>1. /\ TypeOK /\ pc[t] = "idle" /\ owner[fd] = t /\ Records(fd)
      /\ Set(t, fd, 0, NoFile) /\ Goto(t, "closing")
      /\ desc' = [desc EXCEPT ![fd] = NoFile] /\ owner' = [owner EXCEPT ![fd] = NoThread]
      /\ lost' = lost \ {fd} /\ stray' = stray \ {fd}
      /\ UNCHANGED <<path, native, lockSlots, dataSlots, mutex, given>>
  BY DEF IInv, Close, Owns, At, tables
<1>2. /\ pc' \in [Threads -> Places] /\ pc'[t] = "closing"
      /\ \A u \in Threads \ {t} : pc'[u] = pc[u]
  BY <1>1, GotoIs DEF Places
<1>3. /\ loc' \in [Threads -> Locals] /\ \A u \in Threads \ {t} : loc'[u] = loc[u]
      /\ loc'[t].fd = fd
  BY <1>1, SetIs, FdTableAssumption DEF Fds
<1>4. /\ desc' \in [Fds -> Files \cup {NoFile}] /\ owner' \in [Fds -> Threads \cup {NoThread}]
      /\ desc'[fd] = NoFile /\ owner'[fd] = NoThread
      /\ \A g \in Fds \ {fd} : desc'[g] = desc[g] /\ owner'[g] = owner[g]
  BY <1>1 DEF TypeOK
<1>5. TypeOK'
  BY <1>1, <1>2, <1>3, <1>4 DEF TypeOK, Places
<1>6. Elsewhere(t, fd)
  BY <1>1, <1>2, <1>3, <1>4 DEF Elsewhere, StaysAt, SameFd, Acting
<1>7. Clears(t, fd)' /\ Pending(fd)'
  BY <1>2, <1>3 DEF Clears, Pending
<1>8. Records(fd)'
  BY <1>1, <1>4, <1>7 DEF Records
<1>9. Opening(t)' /\ Copying(t)' /\ Others(t)' /\ HandleOf(t)'
  BY <1>2, <1>3 DEF Opening, Copying, Others, HandleOf
<1> QED  BY <1>1, <1>5, <1>6, <1>8, <1>9, OwnStep

\* dup, dup2 and fcntl: the number first, its records in three later steps.
LEMMA CopiedStep ==
  ASSUME IInv, NEW t \in Threads, NEW old \in Fds, NEW new \in Fds, old # new,
         Owns(t, old), desc[new] = NoFile \/ owner[new] = t, Give, Copied(t, old, new)
  PROVE  IInv'
<1>1. /\ TypeOK /\ pc[t] = "idle" /\ owner[old] = t /\ desc[old] # NoFile /\ t # NoThread
      /\ Records(new) /\ Set(t, new, old, NoFile) /\ Goto(t, "copy")
      /\ desc' = [desc EXCEPT ![new] = desc[old]] /\ owner' = [owner EXCEPT ![new] = t]
      /\ lost' = IF old \in lost THEN lost \cup {new} ELSE lost \ {new}
      /\ stray' = IF old \in stray \/ Pending(old) THEN stray \cup {new} ELSE stray \ {new}
      /\ UNCHANGED <<path, native, lockSlots, dataSlots, mutex>>
  BY FdTableAssumption DEF IInv, Records, Copied, Owns, At, tables
<1>2. /\ pc' \in [Threads -> Places] /\ pc'[t] = "copy"
      /\ \A u \in Threads \ {t} : pc'[u] = pc[u]
  BY <1>1, GotoIs DEF Places
<1>3. /\ loc' \in [Threads -> Locals] /\ \A u \in Threads \ {t} : loc'[u] = loc[u]
      /\ loc'[t].fd = new /\ loc'[t].from = old
  BY <1>1, SetIs, FdTableAssumption DEF Fds
<1>4. /\ desc' \in [Fds -> Files \cup {NoFile}] /\ owner' \in [Fds -> Threads \cup {NoThread}]
      /\ desc'[new] = desc[old] /\ owner'[new] = t
      /\ \A g \in Fds \ {new} : desc'[g] = desc[g] /\ owner'[g] = owner[g]
  BY <1>1 DEF TypeOK
<1>5. \A g \in Fds \ {new} : (g \in lost' <=> g \in lost) /\ (g \in stray' <=> g \in stray)
  BY <1>1
<1>6. TypeOK'
  <2>1. given' \in 0..MaxGiven /\ lost' \subseteq Fds /\ stray' \subseteq Fds
    BY <1>1, FdTableAssumption DEF TypeOK, Give
  <2> QED  BY <1>1, <1>2, <1>3, <1>4, <2>1 DEF TypeOK, Places
<1>7. Elsewhere(t, new)
  BY <1>1, <1>2, <1>3, <1>4, <1>5 DEF Elsewhere, StaysAt, SameFd, Acting
<1>8. Pastes(t, new)' /\ Copies(t, new)' /\ Pending(new)'
  BY <1>2, <1>3 DEF Pastes, Copies, Pending
<1>9. Records(new)'
  BY <1>1, <1>4, <1>8 DEF Records
<1>10. Pending(old)' <=> Pending(old)
  BY <1>7, SameActs
<1>11. Copying(t)'
  BY <1>1, <1>2, <1>3, <1>4, <1>5, <1>10 DEF Copying
<1>12. Opening(t)' /\ Others(t)' /\ HandleOf(t)'
  BY <1>2 DEF Opening, Others, HandleOf
<1> QED  BY <1>6, <1>7, <1>9, <1>11, <1>12, OwnStep

LEMMA DupStep ==
  ASSUME IInv, NEW t \in Threads, NEW fd \in Fds, Dup(t, fd)
  PROVE  IInv'
<1>1. desc[fd] # NoFile
  BY FdTableAssumption DEF IInv, Records, Dup, Owns
<1>2. NewFd \in Fds /\ desc[NewFd] = NoFile
  BY NewFdIs, FdTableAssumption DEF IInv, Dup
<1> QED  BY <1>1, <1>2, CopiedStep DEF Dup

LEMMA Dup2Step ==
  ASSUME IInv, NEW t \in Threads, NEW old \in Fds, NEW new \in Fds, Dup2(t, old, new)
  PROVE  IInv'
BY CopiedStep DEF Dup2, Owns

\* Of what t copies, the records are there and true, but for what copies inherit.
LEMMA Copyist ==
  ASSUME IInv, NEW t \in Threads, pc[t] \in {"copy", "copied", "copycache"}
  PROVE  \E fd \in Fds, from \in Fds :
           /\ from # fd /\ fd = loc[t].fd /\ from = loc[t].from
           /\ owner[fd] = t /\ owner[from] = t /\ desc[from] = desc[fd] /\ t # NoThread
           /\ desc[fd] # NoFile
           /\ fd \notin stray =>
                /\ from \notin stray /\ ~Pending(from)
                /\ path[from] \in {NoFile, desc[from]} /\ SlotsTrue(from)
           /\ fd \notin lost \cup stray =>
                from \notin lost /\ path[from] = desc[from] /\ InSlots(from)
<1>1. /\ loc[t].fd \in Fds /\ loc[t].from \in Fds \ {loc[t].fd} /\ Copying(t)
      /\ Records(loc[t].fd) /\ Records(loc[t].from)
  BY DEF IInv, Copying
<1>2. PICK fd \in Fds, from \in Fds : from # fd /\ fd = loc[t].fd /\ from = loc[t].from
  BY <1>1
<1>3. /\ owner[fd] = t /\ owner[from] = t /\ desc[from] = desc[fd] /\ t # NoThread
      /\ desc[fd] # NoFile
      /\ fd \notin stray => from \notin stray /\ ~Pending(from)
      /\ fd \notin lost \cup stray => from \notin lost
      /\ Records(from)
  BY <1>1, <1>2, FdTableAssumption DEF Copying, Records
<1>4. ~Pending(from) => \A u \in Threads : ~Pastes(u, from) /\ ~Copies(u, from)
  BY DEF Pending, Pastes, Copies
<1>5. fd \notin stray => path[from] \in {NoFile, desc[from]} /\ SlotsTrue(from)
  BY <1>3, <1>4 DEF Records
<1>6. fd \notin lost \cup stray => path[from] = desc[from] /\ InSlots(from)
  BY <1>3, <1>4 DEF Records
<1> QED  BY <1>2, <1>3, <1>5, <1>6

LEMMA CopyRecordStep ==
  ASSUME IInv, NEW t \in Threads, CopyRecord(t)
  PROVE  IInv'
<1>1. /\ TypeOK /\ pc[t] = "copy" /\ Goto(t, "copied")
      /\ UNCHANGED <<desc, path, native, lockSlots, dataSlots, mutex, given, owner, lost, stray>>
  BY DEF IInv, CopyRecord, At, tables
<1>2. PICK fd \in Fds, from \in Fds :
        /\ from # fd /\ fd = loc[t].fd /\ from = loc[t].from
        /\ owner[fd] = t /\ owner[from] = t /\ desc[from] = desc[fd] /\ desc[fd] # NoFile
        /\ fd \notin stray =>
             from \notin stray /\ ~Pending(from) /\ path[from] \in {NoFile, desc[from]}
        /\ fd \notin lost \cup stray => from \notin lost /\ path[from] = desc[from]
  BY <1>1, Copyist
<1>3. Records(fd)
  BY DEF IInv
<1>4. Set(t, fd, from, path[from]) /\ path[from] \in Files \cup {NoFile}
  BY <1>1, <1>2 DEF CopyRecord, TypeOK
<1>5. /\ pc' \in [Threads -> Places] /\ pc'[t] = "copied"
      /\ \A u \in Threads \ {t} : pc'[u] = pc[u]
  BY <1>1, GotoIs DEF Places
<1>6. /\ loc' \in [Threads -> Locals] /\ \A u \in Threads \ {t} : loc'[u] = loc[u]
      /\ loc'[t].fd = fd /\ loc'[t].from = from /\ loc'[t].file = path[from]
  BY <1>1, <1>4, SetIs, FdTableAssumption DEF Fds
<1>7. TypeOK'
  BY <1>1, <1>5, <1>6 DEF TypeOK, Places
<1>8. Elsewhere(t, fd)
  BY <1>1, <1>2, <1>5, <1>6 DEF Elsewhere, StaysAt, SameFd
<1>9. Pastes(t, fd)' /\ Copies(t, fd)' /\ Pending(fd)'
  BY <1>5, <1>6 DEF Pastes, Copies, Pending
<1>10. Records(fd)'
  BY <1>1, <1>2, <1>3, <1>9, FdTableAssumption DEF Records
<1>11. Pending(from)' <=> Pending(from)
  BY <1>2, <1>8, SameActs
<1>12. Copying(t)'
  BY <1>1, <1>2, <1>5, <1>6, <1>11 DEF Copying
<1>13. Opening(t)' /\ Others(t)' /\ HandleOf(t)'
  BY <1>5 DEF Opening, Others, HandleOf
<1> QED  BY <1>2, <1>7, <1>8, <1>10, <1>12, <1>13, OwnStep

LEMMA PasteRecordStep ==
  ASSUME IInv, NEW t \in Threads, PasteRecord(t)
  PROVE  IInv'
<1>1. /\ TypeOK /\ pc[t] = "copied" /\ Goto(t, "copycache") /\ loc \in [Threads -> Locals]
      /\ UNCHANGED <<desc, lockSlots, dataSlots, mutex, given, owner, stray>>
  BY DEF IInv, TypeOK, PasteRecord, At
<1>2. PICK fd \in Fds, from \in Fds :
        /\ from # fd /\ fd = loc[t].fd /\ from = loc[t].from
        /\ owner[fd] = t /\ owner[from] = t /\ desc[from] = desc[fd] /\ desc[fd] # NoFile
        /\ fd \notin stray => from \notin stray /\ ~Pending(from)
        /\ fd \notin lost \cup stray => from \notin lost
  BY <1>1, Copyist
<1>3. PICK file \in Keepable(loc[t].file) :
        SetRecord(fd, file, loc) /\ lost' = lost \cup Unkept(fd, file)
  BY <1>2 DEF PasteRecord
<1>4. /\ Records(fd) /\ file \in Files \cup {NoFile}
      /\ fd \notin stray => file \in {NoFile, desc[fd]}
  BY <1>1, <1>2, <1>3 DEF IInv, Copying, Keepable, Locals
<1>5. /\ lost \subseteq lost' /\ lost' \subseteq lost \cup {fd}
      /\ fd \notin lost' => file # NoFile
  BY <1>3 DEF Unkept
<1>6. /\ path' \in [Fds -> Files \cup {NoFile}] /\ path'[fd] = file
      /\ native' \in [Fds -> BOOLEAN] /\ ~native'[fd]
      /\ \A g \in Fds \ {fd} : path'[g] = path[g] /\ native'[g] = native[g]
      /\ loc' \in [Threads -> Locals]
      /\ \A u \in Threads :
           /\ loc'[u].fd = loc[u].fd /\ loc'[u].from = loc[u].from
           /\ loc'[u].file = loc[u].file /\ (loc'[u] # loc[u] => loc[u].fd = fd)
  BY <1>1, <1>3, <1>4, SetRecordIs
<1>7. /\ pc' \in [Threads -> Places] /\ pc'[t] = "copycache"
      /\ \A u \in Threads \ {t} : pc'[u] = pc[u]
  BY <1>1, GotoIs DEF Places
<1>8. TypeOK'
  BY <1>1, <1>5, <1>6, <1>7 DEF TypeOK, Places
<1>9. Elsewhere(t, fd)
  BY <1>1, <1>2, <1>5, <1>6, <1>7 DEF Elsewhere, StaysAt, SameFd
<1>10. Copies(t, fd)' /\ Pending(fd)'
  BY <1>2, <1>6, <1>7 DEF Copies, Pending
<1>11. Records(fd)'
  BY <1>1, <1>2, <1>4, <1>5, <1>6, <1>10, FdTableAssumption DEF Records
<1>12. Pending(from)' <=> Pending(from)
  BY <1>2, <1>9, SameActs
<1>13. Copying(t)'
  BY <1>1, <1>2, <1>4, <1>5, <1>6, <1>7, <1>12 DEF Copying
<1>14. Opening(t)' /\ Others(t)' /\ HandleOf(t)'
  BY <1>7 DEF Opening, Others, HandleOf
<1> QED  BY <1>2, <1>8, <1>9, <1>11, <1>13, <1>14, OwnStep

LEMMA CopyCacheStep ==
  ASSUME IInv, NEW t \in Threads, CopyCache(t)
  PROVE  IInv'
<1>1. /\ TypeOK /\ lockSlots \in Table /\ dataSlots \in Table /\ pc[t] = "copycache"
      /\ mutex = NoThread /\ Leave(t)
      /\ UNCHANGED <<desc, path, native, mutex, given, owner, stray>>
  BY DEF IInv, TypeOK, Table, CopyCache, At
<1>2. PICK fd \in Fds, from \in Fds :
        /\ from # fd /\ fd = loc[t].fd /\ from = loc[t].from
        /\ owner[fd] = t /\ desc[from] = desc[fd] /\ desc[fd] # NoFile
        /\ fd \notin stray => SlotsTrue(from)
        /\ fd \notin lost \cup stray => InSlots(from)
  BY <1>1, Copyist
<1>3. /\ lockSlots' \in CopySlots(lockSlots, from, fd) /\ dataSlots' \in CopySlots(dataSlots, from, fd)
      /\ lost' = lost \cup (IF In(lockSlots, from) THEN Unlisted(fd, lockSlots') ELSE {})
                      \cup (IF In(dataSlots, from) THEN Unlisted(fd, dataSlots') ELSE {})
  BY <1>2 DEF CopyCache
<1>4. /\ lockSlots' \in Table /\ dataSlots' \in Table
      /\ \A g \in Fds \ {fd} : /\ In(lockSlots', g) <=> In(lockSlots, g)
                               /\ In(dataSlots', g) <=> In(dataSlots, g)
      /\ In(lockSlots', fd) => In(lockSlots, from)
      /\ In(dataSlots', fd) => In(dataSlots, from)
  BY <1>1, <1>2, <1>3, CopySlotsIs, FdTableAssumption
<1>5. /\ lost \subseteq lost' /\ lost' \subseteq lost \cup {fd}
      /\ fd \notin lost' /\ In(lockSlots, from) => In(lockSlots', fd)
      /\ fd \notin lost' /\ In(dataSlots, from) => In(dataSlots', fd)
  BY <1>3 DEF Unlisted
<1>6. /\ pc' \in [Threads -> Places] /\ pc'[t] = "idle" /\ loc' \in [Threads -> Locals]
      /\ \A u \in Threads \ {t} : pc'[u] = pc[u] /\ loc'[u] = loc[u]
  BY <1>1, LeaveIs, FdTableAssumption
<1>7. TypeOK'
  BY <1>1, <1>4, <1>5, <1>6 DEF TypeOK, Places, Table
<1>8. Elsewhere(t, fd)
  BY <1>1, <1>2, <1>4, <1>5, <1>6 DEF Elsewhere, StaysAt, SameFd, Acting
<1>9. \A u \in Threads : Pastes(u, fd)' <=> Pastes(u, fd)
  BY <1>1, <1>6 DEF Pastes
<1>10. fd \notin lost' \cup stray => InSlots(fd)'
  BY <1>1, <1>2, <1>5 DEF InSlots
<1>11. fd \notin stray => SlotsTrue(fd)'
  BY <1>1, <1>2, <1>4 DEF SlotsTrue
<1>12. Records(fd)'
  <2>1. Records(fd)
    BY DEF IInv
  <2> QED  BY <1>1, <1>2, <1>5, <1>9, <1>10, <1>11, <2>1, FdTableAssumption DEF Records
<1>13. Opening(t)' /\ Copying(t)' /\ Others(t)' /\ HandleOf(t)'
  BY <1>6 DEF Opening, Copying, Others, HandleOf
<1> QED  BY <1>2, <1>7, <1>8, <1>12, <1>13, OwnStep

-----------------------------------------------------------------------------
(***************************************************************************)
(* Positioned reads and writes, and the copy that stat makes.               *)
(***************************************************************************)
LEMMA SnapshotStep ==
  ASSUME IInv, NEW t \in Threads, NEW fd \in Fds, Snapshot(t, fd)
  PROVE  IInv'
<1>1. /\ TypeOK /\ pc[t] = "idle" /\ owner[fd] = t /\ Records(fd) /\ Goto(t, "positioned")
      /\ t # NoThread
      /\ UNCHANGED <<desc, path, lockSlots, dataSlots, mutex, given, owner, lost, stray>>
  BY FdTableAssumption DEF IInv, Snapshot, Owns, At
<1>2. PICK opens \in BOOLEAN :
        /\ native' = [native EXCEPT ![fd] = @ \/ (path[fd] # NoFile /\ opens)]
        /\ loc' = [loc EXCEPT ![t] =
             [fd |-> fd, from |-> 0, file |-> IF native'[fd] THEN path[fd] ELSE NoFile,
              handle |-> IF native'[fd] THEN "open" ELSE "none"]]
  BY DEF Snapshot
<1>3. /\ native' \in [Fds -> BOOLEAN] /\ \A g \in Fds \ {fd} : native'[g] = native[g]
      /\ native'[fd] => path[fd] # NoFile
  BY <1>1, <1>2 DEF TypeOK, Records
<1>4. /\ loc' \in [Threads -> Locals] /\ \A u \in Threads \ {t} : loc'[u] = loc[u]
      /\ loc'[t].fd = fd /\ loc'[t].handle \in {"open", "none"}
      /\ loc'[t].handle = "open" => loc'[t].file = path[fd] /\ path[fd] # NoFile
  <2> DEFINE r == [fd |-> fd, from |-> 0, file |-> IF native'[fd] THEN path[fd] ELSE NoFile,
                   handle |-> IF native'[fd] THEN "open" ELSE "none"]
  <2>1. /\ r \in Locals /\ r.fd = fd /\ r.handle \in {"open", "none"}
        /\ r.handle = "open" => r.file = path[fd] /\ path[fd] # NoFile
    BY <1>1, <1>3, FdTableAssumption DEF Locals, TypeOK, Fds
  <2>2. loc' = [loc EXCEPT ![t] = r] /\ loc \in [Threads -> Locals]
    BY <1>1, <1>2 DEF TypeOK
  <2> HIDE DEF r
  <2> QED  BY <2>1, <2>2
<1>5. /\ pc' \in [Threads -> Places] /\ pc'[t] = "positioned"
      /\ \A u \in Threads \ {t} : pc'[u] = pc[u]
  BY <1>1, GotoIs DEF Places
<1>6. TypeOK'
  BY <1>1, <1>3, <1>4, <1>5 DEF TypeOK, Places
<1>7. Elsewhere(t, fd)
  BY <1>1, <1>3, <1>4, <1>5 DEF Elsewhere, StaysAt, SameFd, Acting
<1>8. \A u \in Threads : /\ Copies(u, fd)' <=> Copies(u, fd)
                         /\ Pastes(u, fd)' <=> Pastes(u, fd)
                         /\ Clears(u, fd)' <=> Clears(u, fd)
  BY <1>1, <1>4, <1>5 DEF Copies, Pastes, Clears
<1>9. Pending(fd)' <=> Pending(fd)
  BY <1>1, <1>4, <1>5 DEF Pending
<1>10. InSlots(fd)' = InSlots(fd) /\ SlotsTrue(fd)' = SlotsTrue(fd)
  BY <1>1 DEF InSlots, SlotsTrue
<1>11. Records(fd)'
  BY <1>1, <1>3, <1>8, <1>9, <1>10 DEF Records
<1>12. \A u \in Threads : ~Pastes(u, fd)
  BY <1>1 DEF IInv, Copying, Pastes
<1>13. HandleOf(t)'
  BY <1>1, <1>4, <1>12 DEF HandleOf, Records
<1>14. Opening(t)' /\ Copying(t)' /\ Others(t)'
  BY <1>1, <1>4, <1>5 DEF Opening, Copying, Others
<1> QED  BY <1>1, <1>6, <1>7, <1>11, <1>13, <1>14, OwnStep

\* A transfer ends, with the handle it looked up or an error.
LEMMA TransferStep ==
  ASSUME IInv, NEW t \in Threads, Transfer(t)
  PROVE  IInv'
<1>1. /\ TypeOK /\ pc[t] = "positioned" /\ Leave(t)
      /\ UNCHANGED <<desc, path, native, lockSlots, dataSlots, mutex, given, owner, lost, stray>>
  BY DEF IInv, Transfer, At, tables
<1>2. PICK fd \in Fds : fd = loc[t].fd /\ owner[fd] = t
  BY <1>1 DEF IInv, Others
<1>3. /\ pc' \in [Threads -> Places] /\ pc'[t] = "idle" /\ loc' \in [Threads -> Locals]
      /\ \A u \in Threads \ {t} : pc'[u] = pc[u] /\ loc'[u] = loc[u]
  BY <1>1, LeaveIs, FdTableAssumption
<1>4. TypeOK'
  BY <1>1, <1>3 DEF TypeOK, Places
<1>5. Elsewhere(t, fd)
  BY <1>1, <1>2, <1>3 DEF Elsewhere, StaysAt, SameFd, Acting
<1>6. \A u \in Threads : /\ Copies(u, fd)' <=> Copies(u, fd)
                         /\ Pastes(u, fd)' <=> Pastes(u, fd)
                         /\ Clears(u, fd)' <=> Clears(u, fd)
  BY <1>1, <1>3 DEF Copies, Pastes, Clears
<1>7. Pending(fd)' <=> Pending(fd)
  BY <1>1, <1>3 DEF Pending
<1>8. InSlots(fd)' = InSlots(fd) /\ SlotsTrue(fd)' = SlotsTrue(fd) /\ Records(fd)
  BY <1>1 DEF InSlots, SlotsTrue, IInv
<1>9. Records(fd)'
  BY <1>1, <1>6, <1>7, <1>8 DEF Records
<1>10. Opening(t)' /\ Copying(t)' /\ Others(t)' /\ HandleOf(t)'
  BY <1>3 DEF Opening, Copying, Others, HandleOf
<1> QED  BY <1>2, <1>4, <1>5, <1>9, <1>10, OwnStep

\* stat and truncate by path: their own number, for as long as they need it.
LEMMA StatCopyStep ==
  ASSUME IInv, NEW t \in Threads, StatCopy(t)
  PROVE  IInv'
<1> DEFINE n == NewFd
           src == dataSlots[CHOOSE i \in Listed : \A j \in Listed : i <= j]
<1>1. /\ TypeOK /\ n \in Fds /\ desc[n] = NoFile /\ pc[t] = "idle" /\ src \in Fds
  <2>1. \E k \in Listed : \A j \in Listed : k <= j
    <3>1. Listed # {} /\ Listed \subseteq 1..NSlots /\ NSlots \in Nat
      BY FdTableAssumption DEF StatCopy, Listed, Slots
    <3> QED  BY <3>1, Least
  <2>2. src \in Fds
    BY <2>1, FdTableAssumption DEF IInv, TypeOK, Listed, Fds
  <2> QED  BY <2>2, NewFdIs, FdTableAssumption DEF IInv, StatCopy, At
<1>2. PICK fd \in Fds, from \in Fds : fd = n /\ from = src
  BY <1>1
<1>3. /\ desc[from] # NoFile /\ desc' = [desc EXCEPT ![fd] = desc[from]] /\ Give
      /\ Set(t, fd, 0, NoFile) /\ Goto(t, "probe")
      /\ UNCHANGED <<path, native, lockSlots, dataSlots, mutex, owner, lost, stray>>
  BY <1>2 DEF StatCopy, tables
<1> HIDE DEF n, src
<1>4. /\ pc' \in [Threads -> Places] /\ pc'[t] = "probe"
      /\ \A u \in Threads \ {t} : pc'[u] = pc[u]
  BY <1>1, <1>3, GotoIs DEF Places
<1>5. /\ loc' \in [Threads -> Locals] /\ \A u \in Threads \ {t} : loc'[u] = loc[u]
      /\ loc'[t].fd = fd
  BY <1>1, <1>3, SetIs, FdTableAssumption DEF Fds
<1>6. /\ desc'[fd] = desc[from] /\ \A g \in Fds \ {fd} : desc'[g] = desc[g]
      /\ desc' \in [Fds -> Files \cup {NoFile}]
  BY <1>1, <1>3 DEF TypeOK
<1>7. TypeOK'
  BY <1>1, <1>3, <1>4, <1>5, <1>6, FdTableAssumption DEF TypeOK, Places, Give
<1>8. Elsewhere(t, fd)
  BY <1>1, <1>3, <1>4, <1>5, <1>6 DEF Elsewhere, StaysAt, SameFd, Acting
<1>9. /\ fd \notin stray /\ owner[fd] = NoThread
      /\ ~Pending(fd) => ~In(lockSlots, fd) /\ ~In(dataSlots, fd)
  BY <1>1, <1>2, FreshFd
<1>10. /\ Records(fd)' /\ \A u \in Threads \ {t} : ~Opens(u, fd)'
       /\ Pending(fd)' <=> Pending(fd)
  BY <1>1, <1>2, <1>3, <1>4, <1>5, <1>6, <1>8, <1>9, NewNumber DEF Acting
<1>11. Opening(t)'
  BY <1>3, <1>4, <1>5, <1>6, <1>9, <1>10 DEF Opening
<1>12. Copying(t)' /\ Others(t)' /\ HandleOf(t)'
  BY <1>4 DEF Copying, Others, HandleOf
<1> QED  BY <1>1, <1>2, <1>7, <1>8, <1>10, <1>11, <1>12, OwnStep

LEMMA StatCloseStep ==
  ASSUME IInv, NEW t \in Threads, StatClose(t)
  PROVE  IInv'
<1>1. /\ TypeOK /\ pc[t] = "probe" /\ Leave(t) /\ NoThread \notin Threads
      /\ UNCHANGED <<path, native, lockSlots, dataSlots, mutex, given, owner, stray>>
  BY FdTableAssumption DEF IInv, StatClose, At, tables
<1>2. PICK fd \in Fds : fd = loc[t].fd
  BY <1>1 DEF IInv, Opening
<1>3. /\ owner[fd] = NoThread /\ fd \notin stray /\ Opens(t, fd) /\ Records(fd)
      /\ ~Pending(fd) => ~In(lockSlots, fd) /\ ~In(dataSlots, fd)
  BY <1>1, <1>2 DEF IInv, Opening, Opens
<1>4. /\ desc' = [desc EXCEPT ![fd] = NoFile] /\ lost' = lost \ {fd}
  BY <1>2 DEF StatClose
<1>5. /\ desc' \in [Fds -> Files \cup {NoFile}] /\ desc'[fd] = NoFile
      /\ \A g \in Fds \ {fd} : desc'[g] = desc[g]
  BY <1>1, <1>4 DEF TypeOK
<1>6. /\ pc' \in [Threads -> Places] /\ pc'[t] = "idle" /\ loc' \in [Threads -> Locals]
      /\ \A u \in Threads \ {t} : pc'[u] = pc[u] /\ loc'[u] = loc[u]
  BY <1>1, LeaveIs, FdTableAssumption
<1>7. TypeOK'
  BY <1>1, <1>4, <1>5, <1>6 DEF TypeOK, Places
<1>8. Elsewhere(t, fd)
  BY <1>1, <1>2, <1>4, <1>5, <1>6 DEF Elsewhere, StaysAt, SameFd, Acting
<1>9. /\ \A u \in Threads : Clears(u, fd)' <=> Clears(u, fd)
      /\ Pending(fd)' <=> Pending(fd)
  BY <1>1, <1>6 DEF Clears, Pending
<1>10. Records(fd)'
  BY <1>1, <1>3, <1>4, <1>9 DEF Records, SlotsTrue
<1>11. Opening(t)' /\ Copying(t)' /\ Others(t)' /\ HandleOf(t)'
  BY <1>6 DEF Opening, Copying, Others, HandleOf
<1> QED  BY <1>3, <1>7, <1>8, <1>10, <1>11, OwnStep

-----------------------------------------------------------------------------
(***************************************************************************)
(* What is noted of a close, when the number may be another thread's: the   *)
(* number is then lost, and what is copied from it meanwhile is stray.      *)
(***************************************************************************)
LEMMA LateNote ==
  ASSUME IInv, TypeOK', NEW t \in Threads, NEW fd \in Fds,
         pc[t] \in {"closing", "forget"}, loc[t].fd = fd, Elsewhere(t, fd),
         UNCHANGED <<desc, owner, stray, mutex>>, lost' = lost \cup Reused(fd),
         \/ path'[fd] = NoFile /\ ~native'[fd]
         \/ path'[fd] = path[fd] /\ native'[fd] = native[fd] /\ pc[t] = "forget",
         \/ pc'[t] = "forget"
         \/ pc'[t] = "idle" /\ ~In(lockSlots', fd) /\ ~In(dataSlots', fd),
         \A u \in Threads \ {t} :
           loc'[u] # loc[u] => loc'[u].handle = "closed" /\ loc[u].fd = fd
  PROVE  IInv'
<1>1. /\ Records(fd) /\ Pending(fd) /\ NoThread \notin Threads
      /\ pc'[t] = "forget" => loc'[t].fd = fd
  BY FdTableAssumption DEF IInv, Pending, Elsewhere, Acting
<1>2. fd \in lost' <=> fd \in lost \/ desc[fd] # NoFile
  BY DEF Reused
<1>3. \A u \in Threads \ {t} : StaysAt(u)
  BY DEF Elsewhere
<1>4. \A u \in Threads : /\ Opens(u, fd)' <=> Opens(u, fd)
                         /\ Pastes(u, fd)' <=> Pastes(u, fd)
                         /\ Clears(u, fd)' => Clears(u, fd)
                         /\ u # t => (Clears(u, fd)' <=> Clears(u, fd))
  BY <1>3 DEF Opens, Pastes, Clears, StaysAt
<1>5. \/ Pending(fd)'
      \/ ~In(lockSlots', fd) /\ ~In(dataSlots', fd)
  BY <1>1 DEF Pending
<1>6. pc[t] = "forget" => \A u \in Threads : Clears(u, fd)' <=> Clears(u, fd)
  BY <1>4 DEF Clears
<1>7. Records(fd)'
  BY <1>1, <1>2, <1>4, <1>5, <1>6 DEF Records, SlotsTrue
<1>8. \A g \in Fds : Records(g)'
  BY <1>7, OtherFds
<1>9. ASSUME NEW u \in Threads \ {t}
      PROVE  Opening(u)' /\ Copying(u)' /\ Others(u)' /\ HandleOf(u)'
  <2>1. Opening(u) /\ Copying(u) /\ Others(u) /\ HandleOf(u) /\ StaysAt(u)
    BY <1>3 DEF IInv, HandleOfOwnFile, HandleOf, At
  <2>2. Opening(u)'
    <3>1. CASE Opens(u, fd)
      BY <1>2, <1>4, <1>5, <2>1, <3>1 DEF Opening, Opens, StaysAt
    <3>2. CASE pc[u] \in {"cache", "register", "probe"} /\ loc[u].fd # fd
      BY <3>2, OtherThreads DEF Acting
    <3> QED  BY <2>1, <3>1, <3>2 DEF Opening, Opens, StaysAt
  <2>3. Copying(u)'
    <3>1. CASE Copies(u, fd)
      <4>1. /\ loc[u].from \in Fds \ {fd} /\ owner[fd] = u /\ desc[fd] # NoFile
        BY <1>1, <2>1, <3>1 DEF Copying, Copies, Records
      <4>2. Pending(loc[u].from)' <=> Pending(loc[u].from)
        BY <2>1, <4>1, SameActs DEF StaysAt
      <4> QED  BY <1>2, <2>1, <3>1, <4>1, <4>2 DEF Copying, Copies, StaysAt
    <3>2. CASE pc[u] \in {"copy", "copied", "copycache"} /\ loc[u].from = fd
      BY <1>1, <2>1, <3>2 DEF Copying, StaysAt
    <3>3. CASE pc[u] \in {"copy", "copied", "copycache"} /\ loc[u].from # fd /\ loc[u].fd # fd
      BY <3>3, OtherThreads
    <3> QED  BY <2>1, <3>1, <3>2, <3>3 DEF Copying, Copies, StaysAt
  <2>4. Others(u)'
    <3>1. pc[u] \in {"share", "truncate"} => mutex' = mutex /\ lockSlots' = lockSlots
      BY <1>1, <2>1 DEF Others, Elsewhere
    <3> QED  BY <2>1, <3>1 DEF Others, StaysAt
  <2>5. HandleOf(u)'
    <3> SUFFICES ASSUME pc[u] = "positioned" PROVE HandleOf(u)'
      BY <2>1 DEF HandleOf, StaysAt
    <3>1. loc[u].fd \in Fds /\ owner[loc[u].fd] = u
      BY <2>1 DEF Others
    <3>2. loc[u].fd = fd => fd \in lost'
      BY <1>1, <1>2, <3>1 DEF Records
    <3>3. lost \subseteq lost'
      OBVIOUS
    <3>4. CASE loc'[u] = loc[u]
      BY <2>1, <3>3, <3>4 DEF HandleOf, StaysAt
    <3>5. CASE loc'[u] # loc[u]
      BY <2>1, <3>2, <3>5 DEF HandleOf, StaysAt
    <3> QED  BY <3>4, <3>5
  <2> QED  BY <2>2, <2>3, <2>4, <2>5
<1>10. Opening(t)' /\ Copying(t)' /\ Others(t)' /\ HandleOf(t)'
  BY <1>1 DEF Opening, Copying, Others, HandleOf
<1>11. HandleOfOwnFile'
  BY <1>9, <1>10 DEF HandleOfOwnFile, HandleOf, At
<1> QED  BY <1>8, <1>9, <1>10, <1>11 DEF IInv

\* The two notes of a close, which may come when the number is another thread's.
LEMMA NoteClosedStep ==
  ASSUME IInv, NEW t \in Threads, NoteClosed(t)
  PROVE  IInv'
<1>1. /\ TypeOK /\ pc[t] = "closing" /\ Goto(t, "forget") /\ loc \in [Threads -> Locals]
      /\ UNCHANGED <<desc, lockSlots, dataSlots, mutex, given, owner, stray>>
  BY DEF IInv, TypeOK, NoteClosed, At
<1>2. PICK fd \in Fds : fd = loc[t].fd
  BY <1>1 DEF IInv, Others
<1>3. SetRecord(fd, NoFile, loc) /\ lost' = lost \cup Reused(fd)
  BY <1>2 DEF NoteClosed
<1>4. /\ path' \in [Fds -> Files \cup {NoFile}] /\ path'[fd] = NoFile
      /\ native' \in [Fds -> BOOLEAN] /\ ~native'[fd]
      /\ \A g \in Fds \ {fd} : path'[g] = path[g] /\ native'[g] = native[g]
      /\ loc' \in [Threads -> Locals]
      /\ \A u \in Threads :
           /\ loc'[u].fd = loc[u].fd /\ loc'[u].from = loc[u].from
           /\ loc'[u].file = loc[u].file
           /\ loc'[u] # loc[u] => loc'[u].handle = "closed" /\ loc[u].fd = fd
  BY <1>1, <1>3, SetRecordIs
<1>5. /\ pc' \in [Threads -> Places] /\ pc'[t] = "forget"
      /\ \A u \in Threads \ {t} : pc'[u] = pc[u]
  BY <1>1, GotoIs DEF Places
<1>6. lost' \subseteq lost \cup {fd} /\ lost \subseteq lost'
  BY <1>3 DEF Reused
<1>7. TypeOK'
  BY <1>1, <1>4, <1>5, <1>6 DEF TypeOK, Places
<1>8. Elsewhere(t, fd)
  BY <1>1, <1>2, <1>4, <1>5, <1>6 DEF Elsewhere, StaysAt, SameFd
<1> QED  BY <1>1, <1>2, <1>3, <1>4, <1>5, <1>7, <1>8, LateNote

LEMMA ForgetStep ==
  ASSUME IInv, NEW t \in Threads, Forget(t)
  PROVE  IInv'
<1>1. /\ TypeOK /\ pc[t] = "forget" /\ Leave(t) /\ mutex = NoThread
      /\ lockSlots \in Table /\ dataSlots \in Table
      /\ UNCHANGED <<desc, path, native, mutex, given, owner, stray>>
  BY DEF IInv, TypeOK, Forget, At, Table
<1>2. PICK fd \in Fds : fd = loc[t].fd
  BY <1>1 DEF IInv, Others
<1>3. /\ lockSlots' = Forgot(lockSlots, fd) /\ dataSlots' = Forgot(dataSlots, fd)
      /\ lost' = lost \cup Reused(fd)
  BY <1>2 DEF Forget
<1>4. /\ lockSlots' \in Table /\ dataSlots' \in Table
      /\ \A g \in Fds : /\ In(lockSlots', g) <=> g # fd /\ In(lockSlots, g)
                        /\ In(dataSlots', g) <=> g # fd /\ In(dataSlots, g)
  BY <1>1, <1>3, ForgotIs
<1>5. /\ pc' \in [Threads -> Places] /\ pc'[t] = "idle" /\ loc' \in [Threads -> Locals]
      /\ \A u \in Threads \ {t} : pc'[u] = pc[u] /\ loc'[u] = loc[u]
  BY <1>1, LeaveIs, FdTableAssumption
<1>6. lost' \subseteq lost \cup {fd} /\ lost \subseteq lost'
  BY <1>3 DEF Reused
<1>7. TypeOK'
  BY <1>1, <1>4, <1>5, <1>6 DEF TypeOK, Places, Table
<1>8. Elsewhere(t, fd)
  BY <1>1, <1>2, <1>4, <1>5, <1>6 DEF Elsewhere, StaysAt, SameFd, Acting
<1> QED  BY <1>1, <1>2, <1>3, <1>4, <1>5, <1>7, <1>8, LateNote

-----------------------------------------------------------------------------
(***************************************************************************)
(* The theorems.                                                            *)
(***************************************************************************)
LEMMA Initially == Init => IInv
<1> SUFFICES ASSUME Init PROVE IInv
  OBVIOUS
<1>1. /\ desc = [f \in Fds |-> NoFile] /\ path = [f \in Fds |-> NoFile]
      /\ native = [f \in Fds |-> FALSE] /\ owner = [f \in Fds |-> NoThread]
      /\ lockSlots = [i \in Slots |-> 0] /\ dataSlots = [i \in Slots |-> 0]
      /\ pc = [t \in Threads |-> "idle"] /\ lost = {} /\ stray = {}
  BY DEF Init
<1>2. TypeOK
  BY FdTableAssumption DEF Init, TypeOK, NoLoc, Locals
<1>3. \A fd \in Fds : ~In(lockSlots, fd) /\ ~In(dataSlots, fd)
  BY <1>1 DEF In, Fds
<1>4. \A fd \in Fds : Records(fd)
  BY <1>1, <1>3 DEF Records, SlotsTrue
<1>5. \A t \in Threads : Opening(t) /\ Copying(t) /\ Others(t)
  BY <1>1 DEF Opening, Copying, Others
<1>6. HandleOfOwnFile
  BY <1>1 DEF HandleOfOwnFile, At
<1> QED  BY <1>2, <1>4, <1>5, <1>6 DEF IInv

\* Every step, by the action.
LEMMA Inductive == IInv /\ [Next]_vars => IInv'
<1> SUFFICES ASSUME IInv, [Next]_vars PROVE IInv'
  OBVIOUS
<1>1. CASE UNCHANGED vars
  BY <1>1 DEF vars, tables, IInv, TypeOK, Records, Opening, Copying, Others, HandleOfOwnFile,
     Pending, Opens, Copies, Pastes, Clears, InSlots, SlotsTrue, In, At
<1>2. ASSUME NEW t \in Threads, Step(t) PROVE IInv'
  BY <1>2, CacheRegisterStep, SearchStep, ShareLockStep, RegisterStep, NoteClosedStep,
     ForgetStep, CopyRecordStep, PasteRecordStep, CopyCacheStep, TransferStep, StatCloseStep
     DEF Step
<1>3. ASSUME NEW t \in Threads, Call(t) PROVE IInv'
  <2>1. ASSUME NEW f \in Files, Open(t, f) PROVE IInv'
    BY <2>1, OpenStep DEF Open
  <2>2. CASE Fopen(t)
    BY <2>2, OpenStep DEF Fopen, Files
  <2> QED  BY <1>3, <2>1, <2>2, SearchStep, StatCopyStep, CloseStep, DupStep, Dup2Step,
              SnapshotStep DEF Call
<1> QED  BY <1>1, <1>2, <1>3 DEF Next

\* The invariant holds throughout.
LEMMA Invariant == Spec => []IInv
BY Initially, Inductive, PTL DEF Spec

\* Whatever file_bridge.c's calls do in whatever order, a thread in the middle of one is
\* about descriptors of the host, and the tables hold nothing else.
THEOREM TypeCorrect == Spec => []TypeOK
<1>1. IInv => TypeOK
  BY DEF IInv
<1> QED  BY <1>1, Invariant, PTL

\* positioned_register, positioned_copy_metadata and the unitycache tables keep true
\* records: what is remembered of a descriptor no call is about names its own file,
\* stray copies excepted.
THEOREM RecordsAreTrue == Spec => []RecordsTrue
<1>1. ASSUME IInv, NEW fd \in Fds, ~Pending(fd), fd \notin stray
      PROVE  /\ path[fd] \in {NoFile, desc[fd]}
             /\ In(lockSlots, fd) => desc[fd] = "lock"
             /\ In(dataSlots, fd) => desc[fd] = "data"
  <2>1. \A t \in Threads : ~Clears(t, fd) /\ ~Pastes(t, fd)
    BY <1>1 DEF Pending, Clears, Pastes
  <2> QED  BY <1>1, <2>1 DEF IInv, Records, SlotsTrue
<1>2. IInv => RecordsTrue
  BY <1>1 DEF RecordsTrue
<1> QED  BY <1>2, Invariant, PTL

\* file_note_fd_closed and file_note_fd_duplicated lose no record of a descriptor in a
\* thread's hands but by a late note, for want of a slot, or by copying such a one.
THEOREM RecordsAreKept == Spec => []RecordsKept
<1>1. ASSUME IInv, NEW fd \in Fds, owner[fd] # NoThread, ~Pending(fd), fd \notin lost \cup stray
      PROVE  /\ path[fd] = desc[fd]
             /\ desc[fd] = "lock" => In(lockSlots, fd)
             /\ desc[fd] = "data" => In(dataSlots, fd)
  <2>1. \A t \in Threads : ~Copies(t, fd) /\ ~Pastes(t, fd)
    BY <1>1 DEF Pending, Copies, Pastes
  <2> QED  BY <1>1, <2>1 DEF IInv, Records, InSlots
<1>2. IInv => RecordsKept
  BY <1>1 DEF RecordsKept
<1> QED  BY <1>2, Invariant, PTL

\* file_pread and file_pwrite, which use the native handle after the table is unlocked,
\* use one of their descriptor's file, and only a late note closes it meanwhile.
THEOREM OwnHandle == Spec => []HandleOfOwnFile
<1>1. IInv => HandleOfOwnFile
  BY DEF IInv
<1> QED  BY <1>1, Invariant, PTL
=============================================================================
