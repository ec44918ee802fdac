---------------------------- MODULE FakeFdProofs ----------------------------
(***************************************************************************)
(* For any number of threads, descriptors and addresses and any capacity:   *)
(* the reference counts of the emulated pipes are exact, no woken call      *)
(* touches a freed pipe, no wake-up is lost, and the whole implements       *)
(* bounded FIFO channels.                                                   *)
(*                                                                          *)
(* The inductive invariant is TypeOK /\ RefcountsExact /\ NoLostWakeup.     *)
(* NoLostWakeup needs the counts: fakefd_pipe may only write to a PipeState *)
(* no sleeping call names.  The refinement adds Pending: what a call is     *)
(* that is inside condvarWait, or between two sections of a dup2.           *)
(***************************************************************************)
EXTENDS FakeFd, FiniteSetTheorems, SequenceTheorems, TLAPS

Sides == {"read", "write"}

\* The ends of a pipe are finitely many: the counts are numbers.
LEMMA RefsFinite ==
  ASSUME NEW kind, NEW a
  PROVE  /\ IsFiniteSet(Refs(kind, a))
         /\ Cardinality(Refs(kind, a)) \in Nat
<1>1. IsFiniteSet(Fds)
  BY FS_Interval, FakeFdAssumption DEF Fds
<1>2. Refs(kind, a) \subseteq Fds
  BY DEF Refs
<1> QED BY <1>1, <1>2, FS_Subset, FS_CardinalityType

\* The part of RefcountsExact that is about one pipe.
Exact(a) ==
  /\ pipes[a].readers = Cardinality(Refs("read", a))
  /\ pipes[a].writers = Cardinality(Refs("write", a))
  /\ pipes[a].live <=> Refs("read", a) \cup Refs("write", a) # {}

\* RefcountsExact, pipe by pipe.
LEMMA ExactPointwise == RefcountsExact <=> \A a \in Addrs : Exact(a)
  BY DEF RefcountsExact, Exact

\* An open descriptor names an address, and one of two kinds.
LEMMA OpenEntry ==
  ASSUME TypeOK, NEW f \in Fds, fds[f].kind # "unused"
  PROVE  fds[f].pipe \in Addrs /\ fds[f].kind \in Sides /\ fds[f] \in Entry
  BY DEF TypeOK, Entry, Unused, Sides

\* Clearing a slot takes it from the ends of the pipe it named.
LEMMA RefsClosed ==
  ASSUME TypeOK, NEW f \in Fds, fds[f].kind # "unused",
         fds' = [fds EXCEPT ![f] = Unused], NEW kind \in Sides, NEW a \in Addrs
  PROVE  /\ f \in Refs(kind, a) <=> fds[f].kind = kind /\ fds[f].pipe = a
         /\ Refs(kind, a)' = Refs(kind, a) \ {f}
  BY DEF TypeOK, Refs, Sides, Unused

\* clone_into_slot_locked keeps the counts exact.
LEMMA CloneExact ==
  ASSUME TypeOK, RefcountsExact, NEW f \in Fds, NEW g \in Fds,
         fds[f].kind # "unused", fds[g].kind = "unused", Clone(f, g)
  PROVE  RefcountsExact'
<1> DEFINE e == fds[f]
<1>1. e.pipe \in Addrs /\ e.kind \in Sides /\ e \in Entry
  BY OpenEntry
<1>2. /\ fds' = [fds EXCEPT ![g] = e]
      /\ pipes' = [pipes EXCEPT ![e.pipe] = Shared(pipes[e.pipe], e.kind)]
  BY DEF Clone
<1> SUFFICES ASSUME NEW a \in Addrs PROVE Exact(a)'
  BY DEF RefcountsExact, Exact
<1>3. Exact(a) /\ pipes[a] \in PipeState
  BY DEF RefcountsExact, Exact, TypeOK
<1>4. \A kind \in Sides :
        /\ g \notin Refs(kind, a)
        /\ Refs(kind, a)' = IF e.kind = kind /\ e.pipe = a
                              THEN Refs(kind, a) \cup {g} ELSE Refs(kind, a)
  <2> SUFFICES ASSUME NEW kind \in Sides
               PROVE  /\ g \notin Refs(kind, a)
                      /\ Refs(kind, a)' = IF e.kind = kind /\ e.pipe = a
                                            THEN Refs(kind, a) \cup {g} ELSE Refs(kind, a)
    OBVIOUS
  <2> QED BY <1>2 DEF TypeOK, Refs, Sides
<1>5. \A kind \in Sides :
        g \notin Refs(kind, a) =>
          Cardinality(Refs(kind, a) \cup {g}) = Cardinality(Refs(kind, a)) + 1
  <2> SUFFICES ASSUME NEW kind \in Sides, g \notin Refs(kind, a)
               PROVE  Cardinality(Refs(kind, a) \cup {g}) = Cardinality(Refs(kind, a)) + 1
    OBVIOUS
  <2>1. IsFiniteSet(Refs(kind, a))
    BY RefsFinite
  <2> QED BY <2>1, FS_AddElement
<1>6. CASE e.pipe # a
  <2>1. pipes'[a] = pipes[a]
    BY <1>2, <1>6 DEF TypeOK
  <2>2. Refs("read", a)' = Refs("read", a) /\ Refs("write", a)' = Refs("write", a)
    BY <1>4, <1>6 DEF Sides
  <2> QED BY <1>3, <2>1, <2>2 DEF Exact
<1>7. CASE e.pipe = a /\ e.kind = "read"
  <2>1. pipes'[a] = [pipes[a] EXCEPT !.readers = pipes[a].readers + 1]
    BY <1>2, <1>7 DEF TypeOK, Shared
  <2>2. Refs("read", a)' = Refs("read", a) \cup {g} /\ Refs("write", a)' = Refs("write", a)
    BY <1>4, <1>7 DEF Sides
  <2>3. Cardinality(Refs("read", a)') = Cardinality(Refs("read", a)) + 1
    BY <1>4, <1>5, <2>2 DEF Sides
  <2>4. pipes[a].live
    <3>1. f \in Refs("read", a)
      BY <1>7 DEF Refs
    <3> QED BY <1>3, <3>1 DEF Exact
  <2>5. /\ pipes'[a].readers = pipes[a].readers + 1
        /\ pipes'[a].writers = pipes[a].writers
        /\ pipes'[a].live
    BY <1>3, <2>1, <2>4 DEF PipeState
  <2> QED BY <1>3, <2>2, <2>3, <2>5 DEF Exact
<1>8. CASE e.pipe = a /\ e.kind = "write"
  <2>1. pipes'[a] = [pipes[a] EXCEPT !.writers = pipes[a].writers + 1]
    BY <1>2, <1>8 DEF TypeOK, Shared
  <2>2. Refs("write", a)' = Refs("write", a) \cup {g} /\ Refs("read", a)' = Refs("read", a)
    BY <1>4, <1>8 DEF Sides
  <2>3. Cardinality(Refs("write", a)') = Cardinality(Refs("write", a)) + 1
    BY <1>4, <1>5, <2>2 DEF Sides
  <2>4. pipes[a].live
    <3>1. f \in Refs("write", a)
      BY <1>8 DEF Refs
    <3> QED BY <1>3, <3>1 DEF Exact
  <2>5. /\ pipes'[a].writers = pipes[a].writers + 1
        /\ pipes'[a].readers = pipes[a].readers
        /\ pipes'[a].live
    BY <1>3, <2>1, <2>4 DEF PipeState
  <2> QED BY <1>3, <2>2, <2>3, <2>5 DEF Exact
<1> QED BY <1>1, <1>6, <1>7, <1>8 DEF Sides

\* fakefd_close, and the close inside dup2, keep the counts exact and free
\* the PipeState with its last end.
LEMMA CloseExact ==
  ASSUME TypeOK, RefcountsExact, NEW f \in Fds, fds[f].kind # "unused", CloseSlot(f)
  PROVE  RefcountsExact'
<1> DEFINE e == fds[f]
<1>1. e.pipe \in Addrs /\ e.kind \in Sides
  BY OpenEntry
<1>2. /\ fds' = [fds EXCEPT ![f] = Unused]
      /\ pipes' = [pipes EXCEPT ![e.pipe] = Dropped(pipes[e.pipe], e.kind)]
  BY DEF CloseSlot
<1> SUFFICES ASSUME NEW a \in Addrs PROVE Exact(a)'
  BY DEF RefcountsExact, Exact
<1>3. Exact(a) /\ pipes[a] \in PipeState
  BY DEF RefcountsExact, Exact, TypeOK
<1>4. \A kind \in Sides :
        /\ f \in Refs(kind, a) <=> e.kind = kind /\ e.pipe = a
        /\ Refs(kind, a)' = Refs(kind, a) \ {f}
  BY <1>2, RefsClosed
<1>5. \A kind \in Sides :
        /\ Cardinality(Refs(kind, a)) \in Nat
        /\ Cardinality(Refs(kind, a)) = 0 <=> Refs(kind, a) = {}
        /\ f \in Refs(kind, a) =>
             Cardinality(Refs(kind, a) \ {f}) = Cardinality(Refs(kind, a)) - 1
        /\ Cardinality(Refs(kind, a) \ {f}) = 0 <=> Refs(kind, a) \ {f} = {}
  <2> SUFFICES ASSUME NEW kind \in Sides
               PROVE  /\ Cardinality(Refs(kind, a)) \in Nat
                      /\ Cardinality(Refs(kind, a)) = 0 <=> Refs(kind, a) = {}
                      /\ f \in Refs(kind, a) =>
                           Cardinality(Refs(kind, a) \ {f}) = Cardinality(Refs(kind, a)) - 1
                      /\ Cardinality(Refs(kind, a) \ {f}) = 0 <=> Refs(kind, a) \ {f} = {}
    OBVIOUS
  <2>1. IsFiniteSet(Refs(kind, a)) /\ Cardinality(Refs(kind, a)) \in Nat
    BY RefsFinite
  <2>2. /\ IsFiniteSet(Refs(kind, a) \ {f})
        /\ f \in Refs(kind, a) =>
             Cardinality(Refs(kind, a) \ {f}) = Cardinality(Refs(kind, a)) - 1
    BY <2>1, FS_RemoveElement
  <2> QED BY <2>1, <2>2, FS_EmptySet
<1>6. CASE e.pipe # a
  <2>1. pipes'[a] = pipes[a]
    BY <1>2, <1>6 DEF TypeOK
  <2>2. Refs("read", a)' = Refs("read", a) /\ Refs("write", a)' = Refs("write", a)
    BY <1>4, <1>6 DEF Sides
  <2> QED BY <1>3, <2>1, <2>2 DEF Exact
<1>7. CASE e.pipe = a /\ e.kind = "read"
  <2>1. /\ Refs("read", a)' = Refs("read", a) \ {f}
        /\ Refs("write", a)' = Refs("write", a)
        /\ f \in Refs("read", a)
    BY <1>4, <1>7 DEF Sides
  <2>2. pipes[a].readers > 0 /\ pipes[a].readers \in Nat
    BY <1>3, <1>5, <2>1 DEF Exact, Sides
  <2>3. pipes'[a] = Dropped(pipes[a], "read")
    BY <1>2, <1>7 DEF TypeOK
  <2>4. /\ pipes'[a].readers = pipes[a].readers - 1
        /\ pipes'[a].writers = pipes[a].writers
        /\ pipes'[a].live <=> pipes[a].live /\ ~(pipes[a].readers = 1 /\ pipes[a].writers = 0)
    BY <1>3, <2>2, <2>3 DEF Dropped, Less, Zeroed, PipeState
  <2>5. /\ pipes'[a].readers = Cardinality(Refs("read", a)')
        /\ pipes'[a].writers = Cardinality(Refs("write", a)')
    BY <1>3, <1>5, <2>1, <2>4 DEF Exact, Sides
  <2>6. /\ Refs("read", a)' = {} <=> pipes[a].readers = 1
        /\ Refs("write", a)' = {} <=> pipes[a].writers = 0
    BY <1>3, <1>5, <2>1, <2>2 DEF Exact, Sides
  <2>7. pipes[a].live
    BY <1>3, <2>1 DEF Exact
  <2> QED BY <2>4, <2>5, <2>6, <2>7 DEF Exact
<1>8. CASE e.pipe = a /\ e.kind = "write"
  <2>1. /\ Refs("write", a)' = Refs("write", a) \ {f}
        /\ Refs("read", a)' = Refs("read", a)
        /\ f \in Refs("write", a)
    BY <1>4, <1>8 DEF Sides
  <2>2. pipes[a].writers > 0 /\ pipes[a].writers \in Nat
    BY <1>3, <1>5, <2>1 DEF Exact, Sides
  <2>3. pipes'[a] = Dropped(pipes[a], "write")
    BY <1>2, <1>8 DEF TypeOK
  <2>4. /\ pipes'[a].writers = pipes[a].writers - 1
        /\ pipes'[a].readers = pipes[a].readers
        /\ pipes'[a].live <=> pipes[a].live /\ ~(pipes[a].writers = 1 /\ pipes[a].readers = 0)
    BY <1>3, <2>2, <2>3 DEF Dropped, Less, Zeroed, PipeState
  <2>5. /\ pipes'[a].writers = Cardinality(Refs("write", a)')
        /\ pipes'[a].readers = Cardinality(Refs("read", a)')
    BY <1>3, <1>5, <2>1, <2>4 DEF Exact, Sides
  <2>6. /\ Refs("write", a)' = {} <=> pipes[a].writers = 1
        /\ Refs("read", a)' = {} <=> pipes[a].readers = 0
    BY <1>3, <1>5, <2>1, <2>2 DEF Exact, Sides
  <2>7. pipes[a].live
    BY <1>3, <2>1 DEF Exact
  <2> QED BY <2>4, <2>5, <2>6, <2>7 DEF Exact
<1> QED BY <1>1, <1>6, <1>7, <1>8 DEF Sides

\* fakefd_pipe starts a PipeState with one end of each kind.
LEMMA PipeExact ==
  ASSUME TypeOK, RefcountsExact, NEW t \in Threads, Pipe(t)
  PROVE  RefcountsExact'
<1>1. PICK r \in Fds, w \in Fds, b \in Addrs :
        /\ fds[r].kind = "unused" /\ fds[w].kind = "unused" /\ r < w
        /\ ~pipes[b].live
        /\ fds' = [fds EXCEPT ![r] = Open("read", b), ![w] = Open("write", b)]
        /\ pipes' = [pipes EXCEPT ![b] = [Zeroed(TRUE) EXCEPT !.readers = 1, !.writers = 1]]
  BY DEF Pipe, FreeFrom
<1> SUFFICES ASSUME NEW a \in Addrs PROVE Exact(a)'
  BY DEF RefcountsExact, Exact
<1>2. Exact(a) /\ fds \in [Fds -> Entry] /\ pipes \in [Addrs -> PipeState] /\ r # w
  BY <1>1 DEF RefcountsExact, Exact, TypeOK, Fds
<1>3. CASE a # b
  <2>1. pipes'[a] = pipes[a]
    BY <1>1, <1>2, <1>3
  <2>2. Refs("read", a)' = Refs("read", a) /\ Refs("write", a)' = Refs("write", a)
    BY <1>1, <1>2, <1>3 DEF Refs, Open
  <2> QED BY <1>2, <2>1, <2>2 DEF Exact
<1>4. CASE a = b
  <2>1. Refs("read", a) = {} /\ Refs("write", a) = {}
    BY <1>1, <1>2, <1>4 DEF Exact
  <2>2. Refs("read", a)' = {r} /\ Refs("write", a)' = {w}
    BY <1>1, <1>2, <1>4, <2>1 DEF Refs, Open
  <2>3. Cardinality({r}) = 1 /\ Cardinality({w}) = 1
    BY FS_Singleton
  <2>4. pipes'[a].readers = 1 /\ pipes'[a].writers = 1 /\ pipes'[a].live
    BY <1>1, <1>2, <1>4 DEF Zeroed
  <2> QED BY <2>2, <2>3, <2>4 DEF Exact
<1> QED BY <1>3, <1>4

-----------------------------------------------------------------------------
PCs == {"idle", "wait", "woken", "d2close", "d2clone"}

\* The part of TypeOK that is about the threads.
ThreadsTyped ==
  /\ pc \in [Threads -> PCs]
  /\ call \in [Threads -> Locals]
  /\ \A t \in Threads : pc[t] \in {"d2close", "d2clone"} => call[t].count \in Fds

\* A call that returns or waits leaves typed locals; only the caller can be
\* asleep after a wake-up, and a caller that returns is not.
LEMMA ReturnType ==
  ASSUME TypeOK, NEW t \in Threads, NEW c, NEW what, NEW bytes, NEW flags,
         NEW p \in {pc, WakeAll(pc)}, Return(t, p, c, what, bytes, flags)
  PROVE  /\ ThreadsTyped'
         /\ \A u \in Threads : pc'[u] = "wait" =>
              u # t /\ pc[u] = "wait" /\ call'[u] = call[u] /\ p = pc
<1>1. NoCall \in Locals
  BY FakeFdAssumption DEF NoCall, Asked, Locals, Fds
<1>2. /\ p \in [Threads -> PCs]
      /\ \A u \in Threads : p[u] = "wait" => pc[u] = "wait" /\ p = pc
      /\ \A u \in Threads : p[u] \in {"d2close", "d2clone"} => p[u] = pc[u]
  BY DEF TypeOK, WakeAll, PCs
<1>3. pc' = [p EXCEPT ![t] = "idle"] /\ call' = [call EXCEPT ![t] = NoCall]
  BY DEF Return
<1> QED BY <1>1, <1>2, <1>3 DEF TypeOK, PCs, ThreadsTyped

\* The same for a call that goes to sleep.
LEMMA WaitType ==
  ASSUME TypeOK, NEW t \in Threads, NEW c \in Locals,
         NEW p \in {pc, WakeAll(pc)}, Wait(t, p, c)
  PROVE  /\ ThreadsTyped'
         /\ call'[t] = c
         /\ \A u \in Threads : pc'[u] = "wait" =>
              u = t \/ (pc[u] = "wait" /\ call'[u] = call[u] /\ p = pc)
<1>1. /\ p \in [Threads -> PCs]
      /\ \A u \in Threads : p[u] = "wait" => pc[u] = "wait" /\ p = pc
      /\ \A u \in Threads : p[u] \in {"d2close", "d2clone"} => p[u] = pc[u]
  BY DEF TypeOK, WakeAll, PCs
<1>2. pc' = [p EXCEPT ![t] = "wait"] /\ call' = [call EXCEPT ![t] = c]
  BY DEF Wait
<1> QED BY <1>1, <1>2 DEF TypeOK, PCs, ThreadsTyped

\* An index taken modulo the capacity is an index of the ring.
LEMMA ModRange ==
  ASSUME NEW x \in Nat, NEW m \in Nat \ {0}
  PROVE  x % m \in 0 .. m - 1
  OBVIOUS

\* What one section of fakefd_read or fakefd_write guarantees.
BodyPost(t, c) ==
  /\ pipes' \in [Addrs -> PipeState]
  /\ \A a \in Addrs : /\ pipes'[a].readers = pipes[a].readers
                      /\ pipes'[a].writers = pipes[a].writers
                      /\ pipes'[a].live = pipes[a].live
  /\ ThreadsTyped'
  /\ \A u \in Threads : pc'[u] = "wait" =>
       \/ pc[u] = "wait" /\ call'[u] = call[u] /\ pipes' = pipes
       \/ call'[u].fd = c.fd /\ call'[u].op = c.op /\ call'[u].pipe = c.pipe /\ MustWait(call[u])'

\* The read section keeps the counts, and sleeps only on an empty pipe.
LEMMA ReadStep ==
  ASSUME TypeOK, NEW t \in Threads, NEW c \in Locals, c.op = "read", c.pipe \in Addrs,
         ReadBody(t, c)
  PROVE  BodyPost(t, c)
<1> DEFINE p == pipes[c.pipe]
           n == Lesser(c.count, p.length)
<1>1. p \in PipeState /\ pipes \in [Addrs -> PipeState]
  BY DEF TypeOK
<1>2. CASE p.length = 0 /\ p.writers # 0 /\ ~fds[c.fd].nonblock /\ Wait(t, pc, c) /\ UNCHANGED pipes
  <2>1. /\ ThreadsTyped' /\ call'[t] = c
        /\ \A u \in Threads : pc'[u] = "wait" =>
              u = t \/ (pc[u] = "wait" /\ call'[u] = call[u])
    BY <1>2, WaitType
  <2>2. MustWait(call[t])'
    BY <1>2, <2>1 DEF MustWait
  <2>3. \A u \in Threads : pc'[u] = "wait" =>
          \/ pc[u] = "wait" /\ call'[u] = call[u] /\ pipes' = pipes
          \/ call'[u].fd = c.fd /\ call'[u].op = c.op /\ call'[u].pipe = c.pipe /\ MustWait(call[u])'
    BY <1>2, <2>1, <2>2
  <2>4. /\ pipes' \in [Addrs -> PipeState]
        /\ \A a \in Addrs : pipes'[a] = pipes[a]
    BY <1>1, <1>2
  <2> QED BY <2>1, <2>3, <2>4 DEF BodyPost
<1>3. ASSUME NEW what, Return(t, pc, c, what, <<>>, {}), UNCHANGED pipes
      PROVE  BodyPost(t, c)
  BY <1>1, <1>3, ReturnType DEF BodyPost
<1>4. CASE /\ p.length > 0
           /\ pipes' = [pipes EXCEPT ![c.pipe].head = (p.head + n) % Cap,
                                     ![c.pipe].length = p.length - n]
           /\ Return(t, WakeAll(pc), c, "data", Taken(p, n), {})
  <2>1. n \in 0 .. p.length /\ n \in Nat
    BY <1>1 DEF Lesser, Locals, PipeState
  <2>2. (p.head + n) % Cap \in 0 .. Cap - 1 /\ p.length - n \in 0 .. Cap
    <3> HIDE DEF n
    <3>1. p.head + n \in Nat /\ p.length - n \in 0 .. Cap
      BY <1>1, <2>1, FakeFdAssumption DEF PipeState
    <3> QED BY <3>1, ModRange, FakeFdAssumption
  <2>3. /\ pipes'[c.pipe] = [p EXCEPT !.head = (p.head + n) % Cap, !.length = p.length - n]
        /\ \A a \in Addrs \ {c.pipe} : pipes'[a] = pipes[a]
        /\ DOMAIN pipes' = Addrs /\ pipes' = [a \in Addrs |-> pipes'[a]]
    BY <1>1, <1>4
  <2> HIDE DEF n
  <2>4. /\ pipes'[c.pipe] \in PipeState
        /\ pipes'[c.pipe].readers = p.readers /\ pipes'[c.pipe].writers = p.writers
        /\ pipes'[c.pipe].live = p.live
    BY <1>1, <2>2, <2>3 DEF PipeState
  <2>5. pipes' \in [Addrs -> PipeState]
    BY <1>1, <2>3, <2>4
  <2>6. /\ ThreadsTyped'
        /\ \A u \in Threads : pc'[u] # "wait"
    <3>1. \A u \in Threads : WakeAll(pc)[u] # "wait"
      BY DEF WakeAll
    <3>2. /\ ThreadsTyped'
          /\ \A u \in Threads : pc'[u] = "wait" => pc[u] = "wait" /\ WakeAll(pc) = pc
      BY <1>4, ReturnType
    <3> QED BY <3>1, <3>2
  <2> QED BY <2>3, <2>4, <2>5, <2>6 DEF BodyPost
<1> QED BY <1>2, <1>3, <1>4 DEF ReadBody

\* The ring stays a ring of bytes when a chunk is copied into it.
LEMMA StoredType ==
  ASSUME NEW p \in PipeState, NEW done \in Nat, NEW n \in 0 .. Cap - p.length
  PROVE  Stored(p, done, n) \in [0 .. Cap - 1 -> Nat]
<1> DEFINE tail == (p.head + p.length) % Cap
           first == Lesser(n, Cap - tail)
<1>1. n \in Nat /\ p.head + p.length \in Nat /\ p.data \in [0 .. Cap - 1 -> Nat]
  BY FakeFdAssumption DEF PipeState
<1>2. tail \in 0 .. Cap - 1
  BY <1>1, ModRange, FakeFdAssumption
<1> HIDE DEF tail
<1>3. first \in 0 .. n
  BY <1>1, <1>2, FakeFdAssumption DEF Lesser
<1> HIDE DEF first
<1> DEFINE v(i) == IF tail <= i /\ i < tail + first THEN done + (i - tail) + 1
                   ELSE IF i < n - first THEN done + first + i + 1
                   ELSE p.data[i]
<1>4. \A i \in 0 .. Cap - 1 : v(i) \in Nat
  BY <1>1, <1>2, <1>3, FakeFdAssumption
<1>5. Stored(p, done, n) = [i \in 0 .. Cap - 1 |-> v(i)]
  BY DEF Stored, tail, first
<1> HIDE DEF v
<1> QED BY <1>4, <1>5

\* The write section keeps the counts, and sleeps only on a full ring.
LEMMA WriteStep ==
  ASSUME TypeOK, NEW t \in Threads, NEW c \in Locals, c.op = "write", c.pipe \in Addrs,
         WriteBody(t, c)
  PROVE  BodyPost(t, c)
<1> DEFINE p == pipes[c.pipe]
           n == Lesser(c.count - c.total, Cap - p.length)
<1>1. p \in PipeState /\ pipes \in [Addrs -> PipeState]
  BY DEF TypeOK
<1>2. CASE p.length = Cap /\ p.readers # 0 /\ Wait(t, pc, c) /\ UNCHANGED pipes
  <2>1. /\ ThreadsTyped' /\ call'[t] = c
        /\ \A u \in Threads : pc'[u] = "wait" =>
              u = t \/ (pc[u] = "wait" /\ call'[u] = call[u])
    BY <1>2, WaitType
  <2>2. MustWait(call[t])'
    BY <1>2, <2>1 DEF MustWait
  <2>3. \A u \in Threads : pc'[u] = "wait" =>
          \/ pc[u] = "wait" /\ call'[u] = call[u] /\ pipes' = pipes
          \/ call'[u].fd = c.fd /\ call'[u].op = c.op /\ call'[u].pipe = c.pipe /\ MustWait(call[u])'
    BY <1>2, <2>1, <2>2
  <2>4. /\ pipes' \in [Addrs -> PipeState]
        /\ \A a \in Addrs : pipes'[a] = pipes[a]
    BY <1>1, <1>2
  <2> QED BY <2>1, <2>3, <2>4 DEF BodyPost
<1>3. ASSUME NEW what, NEW bytes, Return(t, pc, c, what, bytes, {}), UNCHANGED pipes
      PROVE  BodyPost(t, c)
  BY <1>1, <1>3, ReturnType DEF BodyPost
<1>4. CASE /\ p.length < Cap /\ p.readers # 0
           /\ pipes' = [pipes EXCEPT ![c.pipe].data = Stored(p, c.total, n),
                                     ![c.pipe].length = p.length + n]
           /\ IF c.total + n = c.count \/ fds[c.fd].nonblock
                THEN Return(t, WakeAll(pc), c, "wrote", Sent(c.total + n), {})
                ELSE Wait(t, WakeAll(pc), [c EXCEPT !.total = c.total + n])
  <2>1. /\ n \in 0 .. Cap - p.length /\ n \in Nat
        /\ c.total + n <= c.count
        /\ c.total + n # c.count => p.length + n = Cap
    BY <1>1, <1>4, FakeFdAssumption DEF Lesser, Locals, PipeState
  <2>2. /\ Stored(p, c.total, n) \in [0 .. Cap - 1 -> Nat]
        /\ p.length + n \in 0 .. Cap
        /\ [c EXCEPT !.total = c.total + n] \in Locals
    <3> HIDE DEF n
    <3>1. c.total \in Nat /\ p.length \in 0 .. Cap
      BY <1>1 DEF Locals, PipeState
    <3>2. Stored(p, c.total, n) \in [0 .. Cap - 1 -> Nat]
      BY <1>1, <2>1, <3>1, StoredType
    <3>3. [c EXCEPT !.total = c.total + n] \in Locals
      BY <2>1, <3>1 DEF Locals
    <3> QED BY <2>1, <3>1, <3>2, <3>3, FakeFdAssumption
  <2>3. /\ pipes'[c.pipe] = [p EXCEPT !.data = Stored(p, c.total, n), !.length = p.length + n]
        /\ \A a \in Addrs \ {c.pipe} : pipes'[a] = pipes[a]
        /\ DOMAIN pipes' = Addrs /\ pipes' = [a \in Addrs |-> pipes'[a]]
    BY <1>1, <1>4
  <2> HIDE DEF n
  <2>4. /\ pipes'[c.pipe] \in PipeState
        /\ pipes'[c.pipe].readers = p.readers /\ pipes'[c.pipe].writers = p.writers
        /\ pipes'[c.pipe].live = p.live /\ pipes'[c.pipe].length = p.length + n
    BY <1>1, <2>2, <2>3 DEF PipeState
  <2>5. pipes' \in [Addrs -> PipeState]
    BY <1>1, <2>3, <2>4
  <2>6. \A u \in Threads : WakeAll(pc)[u] # "wait"
    BY DEF WakeAll
  <2>7. CASE Return(t, WakeAll(pc), c, "wrote", Sent(c.total + n), {})
    <3>1. /\ ThreadsTyped'
          /\ \A u \in Threads : pc'[u] = "wait" => pc[u] = "wait" /\ WakeAll(pc) = pc
      BY <2>7, ReturnType
    <3>2. \A u \in Threads : pc'[u] # "wait"
      BY <2>6, <3>1
    <3> QED BY <2>3, <2>4, <2>5, <3>1, <3>2 DEF BodyPost
  <2>8. CASE /\ c.total + n # c.count
             /\ Wait(t, WakeAll(pc), [c EXCEPT !.total = c.total + n])
    <3> DEFINE d == [c EXCEPT !.total = c.total + n]
    <3>1. d \in Locals /\ d.fd = c.fd /\ d.op = c.op /\ d.pipe = c.pipe
      BY <2>2 DEF Locals
    <3> HIDE DEF d
    <3>2. Wait(t, WakeAll(pc), d)
      BY <2>8 DEF d
    <3>3. /\ ThreadsTyped' /\ call'[t] = d
          /\ \A u \in Threads : pc'[u] = "wait" =>
                u = t \/ (pc[u] = "wait" /\ WakeAll(pc) = pc)
      BY <3>1, <3>2, WaitType
    <3>4. \A u \in Threads : pc'[u] = "wait" => u = t
      BY <2>6, <3>3
    <3>5. MustWait(call[t])'
      BY <1>4, <2>1, <2>4, <2>8, <3>1, <3>3 DEF MustWait
    <3> QED BY <2>3, <2>4, <2>5, <3>1, <3>3, <3>4, <3>5 DEF BodyPost
  <2> QED BY <1>4, <2>7, <2>8
<1> QED BY <1>2, <1>3, <1>4 DEF WriteBody

-----------------------------------------------------------------------------
IInv == TypeOK /\ RefcountsExact /\ NoLostWakeup

\* A descriptor that is open names an allocated PipeState.
LEMMA NamedIsLive ==
  ASSUME TypeOK, RefcountsExact, NEW f \in Fds, fds[f].kind # "unused"
  PROVE  pipes[fds[f].pipe].live
<1>1. fds[f].pipe \in Addrs /\ fds[f].kind \in Sides
  BY OpenEntry
<1>2. f \in Refs("read", fds[f].pipe) \cup Refs("write", fds[f].pipe)
  BY <1>1 DEF Refs, Sides
<1> QED BY <1>1, <1>2 DEF RefcountsExact

\* A sleeping call has an open descriptor on an allocated PipeState.
LEMMA Asleep ==
  ASSUME IInv, NEW u \in Threads, pc[u] = "wait"
  PROVE  /\ call[u].fd \in Fds /\ fds[call[u].fd].kind # "unused"
         /\ call[u].pipe \in Addrs /\ pipes[call[u].pipe].live
<1>1. call[u] \in Locals /\ Names(call[u].fd, call[u].op, call[u].pipe)
  BY DEF IInv, TypeOK, NoLostWakeup
<1>2. call[u].fd \in Fds /\ fds[call[u].fd].kind # "unused"
  BY <1>1 DEF Names, Locals
<1> QED BY <1>1, <1>2, OpenEntry, NamedIsLive DEF Names, IInv

\* A step that wakes nobody keeps the sleepers right if the open descriptors
\* stay what they are and no allocated pipe loses its last end or changes its
\* number of bytes.
LEMMA SleepersKept ==
  ASSUME IInv,
         \A u \in Threads : pc'[u] = "wait" => pc[u] = "wait" /\ call'[u] = call[u],
         \A f \in Fds : fds[f].kind # "unused" =>
           fds'[f].kind = fds[f].kind /\ fds'[f].pipe = fds[f].pipe,
         \A a \in Addrs : pipes[a].live =>
           /\ pipes'[a].length = pipes[a].length
           /\ pipes[a].readers # 0 => pipes'[a].readers # 0
           /\ pipes[a].writers # 0 => pipes'[a].writers # 0
  PROVE  NoLostWakeup'
<1> SUFFICES ASSUME NEW u \in Threads, pc'[u] = "wait"
             PROVE  (Names(call[u].fd, call[u].op, call[u].pipe) /\ MustWait(call[u]))'
  BY DEF NoLostWakeup
<1>1. pc[u] = "wait" /\ call'[u] = call[u]
  OBVIOUS
<1>2. Names(call[u].fd, call[u].op, call[u].pipe) /\ MustWait(call[u])
  BY <1>1 DEF IInv, NoLostWakeup
<1> QED BY <1>1, <1>2, Asleep DEF Names, MustWait

\* A call that fails, or only looks, changes nothing but its own locals.
LEMMA ReturnStep ==
  ASSUME IInv, NEW t \in Threads, NEW c, NEW what, NEW bytes, NEW flags,
         Return(t, pc, c, what, bytes, flags), UNCHANGED <<fds, pipes>>
  PROVE  IInv'
<1>1. /\ ThreadsTyped'
      /\ \A u \in Threads : pc'[u] = "wait" => pc[u] = "wait" /\ call'[u] = call[u]
  BY ReturnType DEF IInv
<1>2. TypeOK'
  BY <1>1 DEF IInv, TypeOK, PCs, ThreadsTyped
<1>3. RefcountsExact'
  BY DEF IInv, RefcountsExact, Refs
<1>4. NoLostWakeup'
  BY <1>1, SleepersKept
<1> QED BY <1>2, <1>3, <1>4 DEF IInv

\* One section of a read or write, on a descriptor that names its pipe.
LEMMA BodyInv ==
  ASSUME IInv, NEW t \in Threads, NEW c \in Locals, c.op \in Sides,
         Names(c.fd, c.op, c.pipe), Body(t, c), UNCHANGED fds
  PROVE  IInv'
<1>1. c.fd \in Fds /\ c.pipe \in Addrs
  <2>1. c.fd \in Fds /\ fds[c.fd].kind # "unused"
    BY DEF Locals, Names, Sides
  <2> QED BY <2>1, OpenEntry DEF Names, IInv
<1>2. BodyPost(t, c)
  BY <1>1, ReadStep, WriteStep DEF Body, Sides, IInv
<1>3. TypeOK'
  BY <1>2 DEF BodyPost, IInv, TypeOK, PCs, ThreadsTyped
<1>4. RefcountsExact'
  BY <1>2, ZenonT(60) DEF BodyPost, IInv, RefcountsExact, Refs
<1>5. NoLostWakeup'
  <2> SUFFICES ASSUME NEW u \in Threads, pc'[u] = "wait"
               PROVE  (Names(call[u].fd, call[u].op, call[u].pipe) /\ MustWait(call[u]))'
    BY DEF NoLostWakeup
  <2>1. CASE pc[u] = "wait" /\ call'[u] = call[u] /\ pipes' = pipes
    BY <2>1 DEF IInv, NoLostWakeup, Names, MustWait
  <2>2. CASE /\ call'[u].fd = c.fd /\ call'[u].op = c.op /\ call'[u].pipe = c.pipe
             /\ MustWait(call[u])'
    BY <2>2 DEF Names
  <2> QED BY <1>2, <2>1, <2>2 DEF BodyPost
<1> QED BY <1>3, <1>4, <1>5 DEF IInv

\* The types of a pipe that gains or loses an end, and of the table around it.
LEMMA EndsType ==
  ASSUME NEW p \in PipeState, NEW kind \in Sides
  PROVE  /\ Shared(p, kind) \in PipeState /\ Dropped(p, kind) \in PipeState
         /\ Shared(p, kind).length = p.length
         /\ p.readers # 0 => Shared(p, kind).readers # 0
         /\ p.writers # 0 => Shared(p, kind).writers # 0
<1>1. Zeroed(FALSE) \in PipeState /\ Zeroed(TRUE) \in PipeState
  BY FakeFdAssumption DEF Zeroed, PipeState
<1>2. /\ Shared(p, kind) \in PipeState
      /\ Shared(p, kind).length = p.length
      /\ p.readers # 0 => Shared(p, kind).readers # 0
      /\ p.writers # 0 => Shared(p, kind).writers # 0
  <2>1. CASE kind = "read"
    BY <2>1 DEF Shared, PipeState
  <2>2. CASE kind # "read"
    BY <2>2 DEF Shared, PipeState
  <2> QED BY <2>1, <2>2
<1>3. Dropped(p, kind) \in PipeState
  <2>1. Less(p.readers) \in Nat /\ Less(p.writers) \in Nat
    BY DEF Less, PipeState
  <2>2. /\ [p EXCEPT !.readers = Less(p.readers)] \in PipeState
        /\ [p EXCEPT !.writers = Less(p.writers)] \in PipeState
    BY <2>1 DEF PipeState
  <2> QED BY <1>1, <2>2 DEF Dropped
<1> QED BY <1>2, <1>3

\* dup, and the last section of dup2: nobody is woken, nobody needs to be.
LEMMA CloneStep ==
  ASSUME IInv, NEW t \in Threads, NEW f \in Fds, NEW g \in Fds,
         fds[f].kind # "unused", fds[g].kind = "unused", Clone(f, g),
         NEW c, NEW value, Return(t, pc, c, "ok", value, {})
  PROVE  IInv'
<1> DEFINE e == fds[f]
<1>1. e.pipe \in Addrs /\ e.kind \in Sides /\ e \in Entry /\ TypeOK
  BY OpenEntry DEF IInv
<1>2. /\ fds' = [fds EXCEPT ![g] = e]
      /\ pipes' = [pipes EXCEPT ![e.pipe] = Shared(pipes[e.pipe], e.kind)]
  BY DEF Clone
<1>3. /\ ThreadsTyped'
      /\ \A u \in Threads : pc'[u] = "wait" => pc[u] = "wait" /\ call'[u] = call[u]
  BY <1>1, ReturnType
<1>4. pipes[e.pipe] \in PipeState /\ Shared(pipes[e.pipe], e.kind) \in PipeState
  BY <1>1, EndsType DEF TypeOK
<1>5. TypeOK'
  BY <1>1, <1>2, <1>3, <1>4 DEF TypeOK, PCs, ThreadsTyped
<1>6. RefcountsExact'
  BY CloneExact DEF IInv
<1>7. NoLostWakeup'
  <2>1. \A h \in Fds : fds[h].kind # "unused" =>
          fds'[h].kind = fds[h].kind /\ fds'[h].pipe = fds[h].pipe
    BY <1>1, <1>2 DEF TypeOK
  <2>2. /\ Shared(pipes[e.pipe], e.kind).length = pipes[e.pipe].length
        /\ pipes[e.pipe].readers # 0 => Shared(pipes[e.pipe], e.kind).readers # 0
        /\ pipes[e.pipe].writers # 0 => Shared(pipes[e.pipe], e.kind).writers # 0
    BY <1>1, <1>4, EndsType
  <2>3. \A a \in Addrs : pipes[a].live =>
          /\ pipes'[a].length = pipes[a].length
          /\ pipes[a].readers # 0 => pipes'[a].readers # 0
          /\ pipes[a].writers # 0 => pipes'[a].writers # 0
    <3> SUFFICES ASSUME NEW a \in Addrs
                 PROVE  /\ pipes'[a].length = pipes[a].length
                        /\ pipes[a].readers # 0 => pipes'[a].readers # 0
                        /\ pipes[a].writers # 0 => pipes'[a].writers # 0
      OBVIOUS
    <3>1. CASE a = e.pipe
      <4>1. pipes'[a] = Shared(pipes[e.pipe], e.kind)
        BY <1>1, <1>2, <3>1 DEF TypeOK
      <4> QED BY <2>2, <3>1, <4>1
    <3>2. CASE a # e.pipe
      <4>1. pipes'[a] = pipes[a]
        BY <1>1, <1>2, <3>2 DEF TypeOK
      <4> QED BY <4>1
    <3> QED BY <3>1, <3>2
  <2> QED BY <1>3, <2>1, <2>3, SleepersKept
<1> QED BY <1>5, <1>6, <1>7 DEF IInv

\* close, and the close inside dup2, wake every sleeper.
LEMMA CloseStep ==
  ASSUME IInv, NEW f \in Fds, fds[f].kind # "unused", CloseSlot(f),
         ThreadsTyped',
         \A u \in Threads : pc'[u] # "wait"
  PROVE  IInv'
<1> DEFINE e == fds[f]
<1>1. e.pipe \in Addrs /\ e.kind \in Sides /\ TypeOK
  BY OpenEntry DEF IInv
<1>2. /\ fds' = [fds EXCEPT ![f] = Unused]
      /\ pipes' = [pipes EXCEPT ![e.pipe] = Dropped(pipes[e.pipe], e.kind)]
  BY DEF CloseSlot
<1>3. Dropped(pipes[e.pipe], e.kind) \in PipeState /\ Unused \in Entry
  BY <1>1, EndsType DEF TypeOK, Entry
<1>4. TypeOK'
  BY <1>1, <1>2, <1>3 DEF TypeOK, PCs, ThreadsTyped
<1>5. RefcountsExact'
  BY CloseExact DEF IInv
<1>6. NoLostWakeup'
  BY DEF NoLostWakeup
<1> QED BY <1>4, <1>5, <1>6 DEF IInv

\* pipe touches only slots and a PipeState that nobody names.
LEMMA PipeStep ==
  ASSUME IInv, NEW t \in Threads, Pipe(t)
  PROVE  IInv'
<1>1. PICK r \in Fds, w \in Fds, b \in Addrs :
        /\ fds[r].kind = "unused" /\ fds[w].kind = "unused"
        /\ ~pipes[b].live
        /\ fds' = [fds EXCEPT ![r] = Open("read", b), ![w] = Open("write", b)]
        /\ pipes' = [pipes EXCEPT ![b] = [Zeroed(TRUE) EXCEPT !.readers = 1, !.writers = 1]]
        /\ Return(t, pc, Asked("pipe", 0, 0), "ok", <<r, w>>, {})
  BY DEF Pipe, FreeFrom
<1>2. TypeOK /\ RefcountsExact /\ NoLostWakeup
  BY DEF IInv
<1>3. /\ ThreadsTyped'
      /\ \A u \in Threads : pc'[u] = "wait" => pc[u] = "wait" /\ call'[u] = call[u]
  BY <1>1, <1>2, ReturnType
<1>4. TypeOK'
  <2>1. Open("read", b) \in Entry /\ Open("write", b) \in Entry
    BY DEF Open, Entry
  <2>2. [Zeroed(TRUE) EXCEPT !.readers = 1, !.writers = 1] \in PipeState
    <3> DEFINE z == Zeroed(TRUE)
    <3>1. z \in PipeState
      BY FakeFdAssumption DEF Zeroed, PipeState
    <3> HIDE DEF z
    <3>2. [z EXCEPT !.readers = 1, !.writers = 1] \in PipeState
      BY <3>1 DEF PipeState
    <3> QED BY <3>2 DEF z
  <2>3. fds' \in [Fds -> Entry]
    BY <1>1, <1>2, <2>1 DEF TypeOK
  <2>4. pipes' \in [Addrs -> PipeState]
    BY <1>1, <1>2, <2>2 DEF TypeOK
  <2> QED BY <1>3, <2>3, <2>4 DEF TypeOK, PCs, ThreadsTyped
<1>5. RefcountsExact'
  BY <1>2, PipeExact
<1>6. NoLostWakeup'
  <2>1. \A h \in Fds : fds[h].kind # "unused" =>
          fds'[h].kind = fds[h].kind /\ fds'[h].pipe = fds[h].pipe
    BY <1>1, <1>2 DEF TypeOK
  <2>2. \A a \in Addrs : pipes[a].live => pipes'[a] = pipes[a]
    BY <1>1, <1>2 DEF TypeOK
  <2> QED BY <1>3, <2>1, <2>2, SleepersKept
<1> QED BY <1>4, <1>5, <1>6 DEF IInv

-----------------------------------------------------------------------------
\* No descriptor is open and no PipeState allocated: all counts are zero.
LEMMA IInit == Init => IInv
<1> SUFFICES ASSUME Init PROVE IInv
  OBVIOUS
<1>1. TypeOK
  <2>1. NoCall \in Locals
    BY FakeFdAssumption DEF NoCall, Asked, Locals, Fds
  <2>2. Zeroed(FALSE) \in PipeState
    BY FakeFdAssumption DEF Zeroed, PipeState
  <2> QED BY <2>1, <2>2 DEF Init, TypeOK, Entry
<1>2. RefcountsExact
  <2> SUFFICES ASSUME NEW a \in Addrs PROVE Exact(a)
    BY ExactPointwise
  <2>1. Refs("read", a) = {} /\ Refs("write", a) = {}
    BY DEF Init, Refs, Unused
  <2>2. pipes[a] = Zeroed(FALSE)
    BY DEF Init
  <2>3. Cardinality({}) = 0
    BY FS_EmptySet
  <2>4. pipes[a].readers = 0 /\ pipes[a].writers = 0 /\ ~pipes[a].live
    BY <2>2 DEF Zeroed
  <2>5. Refs("read", a) \cup Refs("write", a) = {}
    BY <2>1
  <2> QED BY <2>1, <2>3, <2>4, <2>5 DEF Exact
<1>3. NoLostWakeup
  BY DEF Init, NoLostWakeup
<1> QED BY <1>1, <1>2, <1>3 DEF IInv

\* The first section of fakefd_read and fakefd_write.
LEMMA BeginStep ==
  ASSUME IInv, NEW t \in Threads, Begin(t)
  PROVE  IInv'
<1>1. PICK op \in Sides, f \in Fds, n \in 1 .. MaxCount :
        LET c == [op |-> op, fd |-> f, pipe |-> fds[f].pipe, count |-> n, total |-> 0]
        IN  IF fds[f].kind = op /\ c.pipe # NoAddr THEN Body(t, c)
            ELSE Return(t, pc, c, "badf", <<>>, {}) /\ UNCHANGED pipes
  BY DEF Begin, Sides
<1> DEFINE c == [op |-> op, fd |-> f, pipe |-> fds[f].pipe, count |-> n, total |-> 0]
<1>2. UNCHANGED fds
  BY DEF Begin
<1>3. c \in Locals /\ c.op = op /\ c.fd = f /\ c.pipe = fds[f].pipe
  BY FakeFdAssumption DEF Locals, Sides, IInv, TypeOK, Entry, Unused
<1>4. CASE Return(t, pc, c, "badf", <<>>, {}) /\ UNCHANGED pipes
  BY <1>2, <1>4, ReturnStep
<1>5. CASE fds[f].kind = op /\ Body(t, c)
  <2>1. Names(c.fd, c.op, c.pipe)
    BY <1>3, <1>5 DEF Names
  <2> HIDE DEF c
  <2> QED BY <1>2, <1>3, <1>5, <2>1, BodyInv
<1> QED BY <1>1, <1>4, <1>5

\* A woken call looks at its descriptor before it goes on.
LEMMA ResumeStep ==
  ASSUME IInv, NEW t \in Threads, Resume(t)
  PROVE  IInv'
<1> DEFINE c == call[t]
<1>1. /\ UNCHANGED fds
      /\ IF Names(c.fd, c.op, c.pipe) THEN Body(t, c)
         ELSE Return(t, pc, c, "badf", <<>>, {}) /\ UNCHANGED pipes
  BY DEF Resume
<1>2. c \in Locals /\ TypeOK
  BY DEF IInv, TypeOK
<1>3. CASE Names(c.fd, c.op, c.pipe) /\ Body(t, c)
  <2>1. c.op \in Sides
    BY <1>2, <1>3 DEF Names, Locals, TypeOK, Entry, Unused, Sides
  <2> QED BY <1>1, <1>2, <1>3, <2>1, BodyInv
<1>4. CASE Return(t, pc, c, "badf", <<>>, {}) /\ UNCHANGED pipes
  BY <1>1, <1>4, ReturnStep
<1> QED BY <1>1, <1>3, <1>4

\* Every step preserves the inductive invariant.
LEMMA IStep == IInv /\ [Next]_vars => IInv'
<1> SUFFICES ASSUME IInv, [Next]_vars PROVE IInv'
  OBVIOUS
<1>1. TypeOK
  BY DEF IInv
<1>2. \A p \in {WakeAll(pc)} : p \in [Threads -> PCs] /\ \A u \in Threads : p[u] # "wait"
  BY <1>1 DEF WakeAll, TypeOK, PCs
<1>3. ASSUME NEW t \in Threads, PipeFails(t) PROVE IInv'
  BY <1>3, ReturnStep DEF PipeFails
<1>4. ASSUME NEW t \in Threads, Close(t) PROVE IInv'
  <2>1. PICK f \in Fds :
          LET c == Asked("close", f, 0) IN
          IF fds[f].kind # "unused"
            THEN CloseSlot(f) /\ Return(t, WakeAll(pc), c, "ok", <<>>, {})
            ELSE Return(t, pc, c, "badf", <<>>, {}) /\ UNCHANGED <<fds, pipes>>
    BY <1>4 DEF Close
  <2> DEFINE c == Asked("close", f, 0)
  <2>2. CASE fds[f].kind # "unused" /\ CloseSlot(f) /\ Return(t, WakeAll(pc), c, "ok", <<>>, {})
    <3>1. /\ ThreadsTyped'
          /\ \A u \in Threads : pc'[u] = "wait" => pc[u] = "wait" /\ WakeAll(pc) = pc
      BY <1>1, <2>2, ReturnType
    <3>2. \A u \in Threads : pc'[u] # "wait"
      BY <1>2, <3>1
    <3> QED BY <2>2, <3>1, <3>2, CloseStep
  <2>3. CASE Return(t, pc, c, "badf", <<>>, {}) /\ UNCHANGED <<fds, pipes>>
    BY <2>3, ReturnStep
  <2> QED BY <2>1, <2>2, <2>3
<1>5. ASSUME NEW t \in Threads, Dup(t) PROVE IInv'
  <2>1. CASE UNCHANGED <<fds, pipes>> /\ \E c, what : Return(t, pc, c, what, <<>>, {})
    BY <2>1, ReturnStep
  <2>2. ASSUME NEW f \in Fds, NEW min \in Fds, fds[f].kind # "unused",
               NEW g \in Fds, FreeFrom(g, min), Clone(f, g),
               NEW c, Return(t, pc, c, "ok", <<g>>, {})
        PROVE  IInv'
    BY <2>2, CloneStep DEF FreeFrom
  <2> QED BY <1>5, <2>1, <2>2 DEF Dup
<1>6. ASSUME NEW t \in Threads, Dup2Look(t) PROVE IInv'
  <2>1. PICK f \in Fds, g \in Fds :
          LET asked == Asked("dup2", f, g) IN
          \/ \E what : Return(t, pc, asked, what, <<>>, {})
          \/ /\ pc' = [pc EXCEPT ![t] = IF fds[g].kind # "unused" THEN "d2close" ELSE "d2clone"]
             /\ call' = [call EXCEPT ![t] = asked]
    BY <1>6 DEF Dup2Look
  <2> DEFINE c == Asked("dup2", f, g)
  <2>0. c \in Locals /\ c.count = g
    BY FakeFdAssumption DEF Asked, Locals, Fds
  <2>5. \/ \E what : Return(t, pc, c, what, <<>>, {})
        \/ /\ pc' = [pc EXCEPT ![t] = IF fds[g].kind # "unused" THEN "d2close" ELSE "d2clone"]
           /\ call' = [call EXCEPT ![t] = c]
    BY <2>1
  <2> HIDE DEF c
  <2>2. UNCHANGED <<fds, pipes>>
    BY <1>6 DEF Dup2Look
  <2>3. CASE \E what : Return(t, pc, c, what, <<>>, {})
    BY <2>2, <2>3, ReturnStep
  <2>4. CASE /\ pc' = [pc EXCEPT ![t] = IF fds[g].kind # "unused" THEN "d2close" ELSE "d2clone"]
             /\ call' = [call EXCEPT ![t] = c]
    <3>2. /\ ThreadsTyped'
          /\ \A u \in Threads : pc'[u] = "wait" => pc[u] = "wait" /\ call'[u] = call[u]
      BY <1>1, <2>0, <2>4 DEF TypeOK, PCs, ThreadsTyped
    <3>3. TypeOK'
      BY <1>1, <2>2, <3>2 DEF TypeOK, PCs, ThreadsTyped
    <3>4. RefcountsExact'
      BY <2>2 DEF IInv, RefcountsExact, Refs
    <3>5. NoLostWakeup'
      BY <2>2, <3>2, SleepersKept
    <3> QED BY <3>3, <3>4, <3>5 DEF IInv
  <2> QED BY <2>3, <2>4, <2>5
<1>7. ASSUME NEW t \in Threads, Dup2Close(t) PROVE IInv'
  <2> DEFINE g == call[t].count
  <2>1. CASE fds[g].kind # "unused" /\ CloseSlot(g) /\ pc' = [WakeAll(pc) EXCEPT ![t] = "d2clone"]
    <3>1. ThreadsTyped' /\ \A u \in Threads : pc'[u] # "wait"
      <4> DEFINE p == WakeAll(pc)
      <4>1. /\ p \in [Threads -> PCs] /\ \A u \in Threads : p[u] # "wait"
            /\ \A u \in Threads : p[u] \in {"d2close", "d2clone"} => p[u] = pc[u]
        BY <1>1 DEF WakeAll, TypeOK, PCs
      <4> HIDE DEF p
      <4>2. pc' = [p EXCEPT ![t] = "d2clone"] /\ UNCHANGED call /\ pc[t] = "d2close"
        BY <1>7, <2>1 DEF Dup2Close, p
      <4> QED BY <1>1, <4>1, <4>2 DEF ThreadsTyped, TypeOK, PCs
    <3>2. g \in Fds
      BY <1>1, <1>7 DEF Dup2Close, TypeOK
    <3> HIDE DEF g
    <3> QED BY <2>1, <3>1, <3>2, CloseStep
  <2>2. CASE UNCHANGED <<fds, pipes, call>> /\ pc' = [pc EXCEPT ![t] = "d2clone"]
    <3>1. /\ ThreadsTyped'
          /\ \A u \in Threads : pc'[u] = "wait" => pc[u] = "wait" /\ call'[u] = call[u]
      BY <1>1, <1>7, <2>2 DEF Dup2Close, ThreadsTyped, TypeOK, PCs
    <3>2. TypeOK'
      BY <1>1, <2>2, <3>1 DEF ThreadsTyped, TypeOK, PCs
    <3>3. RefcountsExact'
      BY <2>2 DEF IInv, RefcountsExact, Refs
    <3>4. NoLostWakeup'
      BY <2>2, <3>1, SleepersKept
    <3> QED BY <3>2, <3>3, <3>4 DEF IInv
  <2> QED BY <1>7, <2>1, <2>2 DEF Dup2Close
<1>8. ASSUME NEW t \in Threads, Dup2Clone(t) PROVE IInv'
  <2> DEFINE f == call[t].fd
             g == call[t].count
  <2>1. CASE UNCHANGED <<fds, pipes>> /\ \E what : Return(t, pc, call[t], what, <<>>, {})
    BY <2>1, ReturnStep
  <2>2. CASE /\ fds[f].kind # "unused" /\ fds[g].kind = "unused"
             /\ Clone(f, g) /\ Return(t, pc, call[t], "ok", <<>>, {})
    <3>1. f \in Fds /\ g \in Fds
      BY <1>1, <1>8 DEF Dup2Clone, TypeOK, Locals
    <3> HIDE DEF f, g
    <3> QED BY <2>2, <3>1, CloneStep
  <2> QED BY <1>8, <2>1, <2>2 DEF Dup2Clone
<1>9. ASSUME NEW t \in Threads, SetFl(t) PROVE IInv'
  <2>1. PICK f \in Fds, n \in {0, 1} :
          IF fds[f].kind # "unused"
            THEN /\ fds' = [fds EXCEPT ![f].nonblock = (n = 1)]
                 /\ Return(t, pc, Asked("setfl", f, n), "ok", <<>>, {})
            ELSE Return(t, pc, Asked("setfl", f, n), "badf", <<>>, {}) /\ UNCHANGED fds
    BY <1>9 DEF SetFl
  <2> DEFINE b == n = 1
             c == Asked("setfl", f, n)
  <2>5. /\ b \in BOOLEAN
        /\ IF fds[f].kind # "unused"
             THEN fds' = [fds EXCEPT ![f].nonblock = b] /\ Return(t, pc, c, "ok", <<>>, {})
             ELSE Return(t, pc, c, "badf", <<>>, {}) /\ UNCHANGED fds
    BY <2>1
  <2> HIDE DEF b, c
  <2>2. UNCHANGED pipes
    BY <1>9 DEF SetFl
  <2>3. CASE Return(t, pc, c, "badf", <<>>, {}) /\ UNCHANGED fds
    BY <2>2, <2>3, ReturnStep
  <2>4. CASE /\ fds[f].kind # "unused"
             /\ fds' = [fds EXCEPT ![f].nonblock = b] /\ Return(t, pc, c, "ok", <<>>, {})
    <3>1. /\ ThreadsTyped'
          /\ \A u \in Threads : pc'[u] = "wait" => pc[u] = "wait" /\ call'[u] = call[u]
      BY <1>1, <2>4, ReturnType
    <3>2. /\ fds' \in [Fds -> Entry]
          /\ \A h \in Fds : fds'[h].kind = fds[h].kind /\ fds'[h].pipe = fds[h].pipe
      <4>1. fds[f] \in [kind : {"read", "write"}, pipe : Addrs, nonblock : BOOLEAN]
        BY <1>1, <2>4 DEF TypeOK, Entry, Unused
      <4>2. /\ fds'[f] \in [kind : {"read", "write"}, pipe : Addrs, nonblock : BOOLEAN]
            /\ fds'[f].kind = fds[f].kind /\ fds'[f].pipe = fds[f].pipe
        BY <1>1, <2>4, <2>5, <4>1 DEF TypeOK
      <4>3. \A h \in Fds \ {f} : fds'[h] = fds[h]
        BY <1>1, <2>4 DEF TypeOK
      <4>4. fds' = [h \in Fds |-> fds'[h]]
        BY <1>1, <2>4 DEF TypeOK
      <4> QED BY <1>1, <4>2, <4>3, <4>4 DEF TypeOK, Entry
    <3>3. TypeOK'
      BY <1>1, <2>2, <3>1, <3>2 DEF TypeOK, ThreadsTyped, PCs
    <3>4. RefcountsExact'
      <4>1. \A kind, a : Refs(kind, a)' = Refs(kind, a)
        BY <3>2 DEF Refs
      <4> QED BY <2>2, <4>1 DEF IInv, RefcountsExact
    <3>5. NoLostWakeup'
      BY <2>2, <3>1, <3>2, SleepersKept
    <3> QED BY <3>3, <3>4, <3>5 DEF IInv
  <2> QED BY <2>3, <2>4, <2>5
<1>10. ASSUME NEW t \in Threads, Ready(t) PROVE IInv'
  BY <1>10, ReturnStep DEF Ready
<1>11. CASE UNCHANGED vars
  <2>1. TypeOK'
    BY <1>1, <1>11 DEF vars, TypeOK
  <2>2. RefcountsExact'
    BY <1>11 DEF vars, IInv, RefcountsExact, Refs
  <2>3. NoLostWakeup'
    BY <1>11 DEF vars, IInv, NoLostWakeup, Names, MustWait
  <2> QED BY <2>1, <2>2, <2>3 DEF IInv
<1> QED
  BY <1>3, <1>4, <1>5, <1>6, <1>7, <1>8, <1>9, <1>10, <1>11, PipeStep, BeginStep, ResumeStep
  DEF Next

-----------------------------------------------------------------------------
\* The inductive invariant holds in every reachable state.
LEMMA Invariance == Spec => []IInv
  BY IInit, IStep, PTL DEF Spec

\* No ring ever holds more than its capacity, and the tables keep their types.
THEOREM TypeCorrect == Spec => []TypeOK
<1>1. IInv => TypeOK
  BY DEF IInv
<1> QED BY <1>1, Invariance, PTL

\* The reference counts of the pipes are the numbers of their open ends.
THEOREM RefcountsCorrect == Spec => []RefcountsExact
<1>1. IInv => RefcountsExact
  BY DEF IInv
<1> QED BY <1>1, Invariance, PTL

\* A call sleeps only while it has to.
THEOREM NoWakeupLost == Spec => []NoLostWakeup
<1>1. IInv => NoLostWakeup
  BY DEF IInv
<1> QED BY <1>1, Invariance, PTL

\* A woken call never dereferences a freed PipeState.
THEOREM WokenCallsSafe == Spec => []NoUseAfterFree
<1>1. IInv => NoUseAfterFree
  <2> SUFFICES ASSUME IInv, NEW t \in Threads,
                      Names(call[t].fd, call[t].op, call[t].pipe)
               PROVE  pipes[call[t].pipe].live
    BY DEF NoUseAfterFree
  <2>1. call[t].fd \in Fds /\ fds[call[t].fd].kind # "unused"
    BY DEF IInv, TypeOK, Locals, Names
  <2> QED BY <2>1, NamedIsLive DEF IInv, Names
<1> QED BY <1>1, Invariance, PTL

-----------------------------------------------------------------------------
(***************************************************************************)
(* The ring buffer holds a sequence of bytes.                               *)
(***************************************************************************)
\* An index that has run past the end of the ring at most once.
LEMMA Wrap ==
  ASSUME NEW m \in Nat \ {0}, NEW x \in Nat, x < m + m
  PROVE  x % m = IF x < m THEN x ELSE x - m
<1>1. CASE x < m
  BY <1>1
<1>2. CASE x >= m
  BY <1>2
<1> QED  BY <1>1, <1>2

\* Where the k-th byte of a ring lies whose head is h.
Spot(h, k) == IF h + k - 1 < Cap THEN h + k - 1 ELSE h + k - 1 - Cap

\* Where the tail of a ring lies: a head moved on by n.
Moved(h, n) == IF h + n < Cap THEN h + n ELSE h + n - Cap

\* An index taken modulo the capacity.
LEMMA MovedIs ==
  ASSUME NEW h \in 0 .. Cap - 1, NEW n \in 0 .. Cap
  PROVE  (h + n) % Cap = Moved(h, n) /\ Moved(h, n) \in 0 .. Cap - 1
<1>1. h \in Nat /\ n \in Nat /\ h + n \in Nat /\ h + n < Cap + Cap
  BY FakeFdAssumption
<1>2. PICK x \in Nat : x = h + n /\ x < Cap + Cap
  BY <1>1
<1>3. x % Cap = IF x < Cap THEN x ELSE x - Cap
  BY <1>2, Wrap, FakeFdAssumption
<1> QED  BY <1>1, <1>2, <1>3, FakeFdAssumption DEF Moved

LEMMA SpotIs ==
  ASSUME NEW h \in 0 .. Cap - 1, NEW k \in 1 .. Cap
  PROVE  (h + k - 1) % Cap = Spot(h, k) /\ Spot(h, k) \in 0 .. Cap - 1
<1>1. k - 1 \in 0 .. Cap /\ h + (k - 1) = h + k - 1
  BY FakeFdAssumption
<1>2. (h + (k - 1)) % Cap = Moved(h, k - 1) /\ Moved(h, k - 1) \in 0 .. Cap - 1
  BY <1>1, MovedIs
<1>3. Moved(h, k - 1) = Spot(h, k)
  BY <1>1 DEF Moved, Spot
<1> QED  BY <1>1, <1>2, <1>3

\* The places of the bytes that a read leaves do not change.
LEMMA SpotMoved ==
  ASSUME NEW h \in 0 .. Cap - 1, NEW l \in 0 .. Cap, NEW n \in 0 .. l, NEW k \in 1 .. l - n
  PROVE  Spot(Moved(h, n), k) = Spot(h, n + k) /\ n + k \in 1 .. l
  BY FakeFdAssumption DEF Spot, Moved

\* The bytes that are there lie outside of what a write fills.
LEMMA SpotsApart ==
  ASSUME NEW h \in 0 .. Cap - 1, NEW l \in 0 .. Cap, NEW n \in 0 .. Cap - l, NEW k \in 1 .. l,
         NEW first, first = Lesser(n, Cap - Moved(h, l))
  PROVE  ~(Moved(h, l) <= Spot(h, k) /\ Spot(h, k) < Moved(h, l) + first) /\ ~(Spot(h, k) < n - first)
  BY FakeFdAssumption DEF Spot, Moved, Lesser

\* The bytes that a write fills, from the tail to the end and then from the start.
LEMMA SpotsFilled ==
  ASSUME NEW h \in 0 .. Cap - 1, NEW l \in 0 .. Cap, NEW n \in 0 .. Cap - l, NEW k \in 1 .. n,
         NEW first, first = Lesser(n, Cap - Moved(h, l)), NEW i, i = Spot(h, l + k),
         NEW done \in Nat
  PROVE  IF Moved(h, l) <= i /\ i < Moved(h, l) + first THEN done + (i - Moved(h, l)) + 1 = done + k
         ELSE i < n - first /\ done + first + i + 1 = done + k
  BY FakeFdAssumption DEF Spot, Moved, Lesser

\* What a ring is: its numbers, and its bytes in order.
LEMMA Ring ==
  ASSUME NEW p \in PipeState
  PROVE  /\ p.head \in 0 .. Cap - 1 /\ p.length \in 0 .. Cap
         /\ p.data \in [0 .. Cap - 1 -> Nat]
         /\ \A k \in 1 .. p.length : Spot(p.head, k) \in 0 .. Cap - 1
         /\ Contents(p) = [k \in 1 .. p.length |-> p.data[Spot(p.head, k)]]
         /\ Contents(p) \in Seq(Nat) /\ Len(Contents(p)) = p.length
<1>1. p.head \in 0 .. Cap - 1 /\ p.length \in 0 .. Cap /\ p.data \in [0 .. Cap - 1 -> Nat]
  BY DEF PipeState
<1>2. 1 .. p.length \subseteq 1 .. Cap /\ p.length \in Nat
  BY <1>1, FakeFdAssumption
<1>3. \A k \in 1 .. p.length : (p.head + k - 1) % Cap = Spot(p.head, k) /\ Spot(p.head, k) \in 0 .. Cap - 1
  BY <1>1, <1>2, SpotIs
<1>4. Contents(p) = [k \in 1 .. p.length |-> p.data[Spot(p.head, k)]]
  BY <1>3 DEF Contents
<1>5. \A k \in 1 .. p.length : p.data[Spot(p.head, k)] \in Nat
  BY <1>1, <1>3
<1>6. Contents(p) \in Seq(Nat) /\ Len(Contents(p)) = p.length
  BY <1>2, <1>4, <1>5
<1> QED  BY <1>1, <1>3, <1>4, <1>6

\* The copies out of the ring are its first bytes.
LEMMA TakenIsPrefix ==
  ASSUME NEW p \in PipeState, NEW n \in 0 .. p.length
  PROVE  Taken(p, n) = SubSeq(Contents(p), 1, n)
<1> DEFINE first == Lesser(n, Cap - p.head)
<1>1. /\ p.head \in 0 .. Cap - 1 /\ p.length \in 0 .. Cap
      /\ Contents(p) = [k \in 1 .. p.length |-> p.data[Spot(p.head, k)]]
      /\ Contents(p) \in Seq(Nat) /\ Len(Contents(p)) = p.length
  BY Ring
<1>2. n \in Nat /\ n <= p.length /\ p.length \in Nat /\ 1 .. n \subseteq 1 .. p.length
  BY <1>1, FakeFdAssumption
<1>3. Taken(p, n) =
        [k \in 1 .. n |-> IF k <= first THEN p.data[p.head + k - 1] ELSE p.data[k - first - 1]]
  BY DEF Taken
<1>4. \A k \in 1 .. n : Spot(p.head, k) = IF k <= first THEN p.head + k - 1 ELSE k - first - 1
  BY <1>1, <1>2, FakeFdAssumption DEF Spot, Lesser
<1> HIDE DEF first
<1>5. Taken(p, n) = [k \in 1 .. n |-> p.data[Spot(p.head, k)]]
  BY <1>3, <1>4
<1>6. SubSeq(Contents(p), 1, n) = [k \in 1 .. n |-> Contents(p)[k]]
  BY <1>1, <1>2
<1>7. \A k \in 1 .. n : Contents(p)[k] = p.data[Spot(p.head, k)]
  BY <1>1, <1>2
<1> QED  BY <1>5, <1>6, <1>7

\* A ring whose head has moved on holds the bytes that are left.
LEMMA ReadLeaves ==
  ASSUME NEW p \in PipeState, NEW q \in PipeState, NEW n \in 0 .. p.length,
         q.data = p.data, q.head = Moved(p.head, n), q.length = p.length - n
  PROVE  Contents(q) = SubSeq(Contents(p), n + 1, Len(Contents(p)))
<1>1. /\ p.head \in 0 .. Cap - 1 /\ p.length \in 0 .. Cap
      /\ Contents(p) = [k \in 1 .. p.length |-> p.data[Spot(p.head, k)]]
      /\ Contents(p) \in Seq(Nat) /\ Len(Contents(p)) = p.length
      /\ Contents(q) = [k \in 1 .. q.length |-> q.data[Spot(q.head, k)]]
  BY Ring
<1>2. n \in Nat /\ n <= p.length /\ p.length \in Nat
  BY <1>1, FakeFdAssumption
<1>3. \A k \in 1 .. p.length - n :
        Spot(q.head, k) = Spot(p.head, n + k) /\ n + k \in 1 .. p.length
  BY <1>1, SpotMoved
<1>4. SubSeq(Contents(p), n + 1, Len(Contents(p))) = [k \in 1 .. p.length - n |-> Contents(p)[n + k]]
  BY <1>1, <1>2
<1>5. \A k \in 1 .. p.length - n : Contents(p)[n + k] = p.data[Spot(q.head, k)]
  BY <1>1, <1>3
<1>6. Contents(q) = [k \in 1 .. p.length - n |-> p.data[Spot(q.head, k)]]
  BY <1>1
<1> QED  BY <1>4, <1>5, <1>6

\* A chunk copied in from the tail on comes after the bytes of before.
LEMMA WriteAppends ==
  ASSUME NEW p \in PipeState, NEW q \in PipeState, NEW done \in Nat,
         NEW n \in 0 .. Cap - p.length, NEW s \in Seq(Nat), Len(s) = n,
         \A k \in 1 .. n : s[k] = done + k,
         q.data = Stored(p, done, n), q.head = p.head, q.length = p.length + n
  PROVE  Contents(q) = Contents(p) \o s
<1> DEFINE h == p.head
           l == p.length
<1>1. /\ h \in 0 .. Cap - 1 /\ l \in 0 .. Cap
      /\ \A k \in 1 .. l : Spot(h, k) \in 0 .. Cap - 1
      /\ Contents(p) = [k \in 1 .. l |-> p.data[Spot(h, k)]]
      /\ Contents(p) \in Seq(Nat) /\ Len(Contents(p)) = l
  BY Ring
<1>2. /\ \A k \in 1 .. l + n : Spot(h, k) \in 0 .. Cap - 1
      /\ Contents(q) = [k \in 1 .. l + n |-> q.data[Spot(h, k)]]
      /\ Contents(q) \in Seq(Nat) /\ Len(Contents(q)) = l + n
  BY Ring
<1>3. PICK first : first = Lesser(n, Cap - Moved(h, l))
  OBVIOUS
<1>4. (h + l) % Cap = Moved(h, l)
  BY <1>1, MovedIs
<1>5. q.data = [i \in 0 .. Cap - 1 |->
                 IF Moved(h, l) <= i /\ i < Moved(h, l) + first THEN done + (i - Moved(h, l)) + 1
                 ELSE IF i < n - first THEN done + first + i + 1 ELSE p.data[i]]
  BY <1>3, <1>4 DEF Stored
<1>6. ASSUME NEW k \in 1 .. l
      PROVE  q.data[Spot(h, k)] = p.data[Spot(h, k)]
  <2>1. ~(Moved(h, l) <= Spot(h, k) /\ Spot(h, k) < Moved(h, l) + first) /\ ~(Spot(h, k) < n - first)
    BY <1>1, <1>3, SpotsApart
  <2> QED  BY <1>1, <1>5, <2>1
<1>7. ASSUME NEW k \in 1 .. n
      PROVE  q.data[Spot(h, l + k)] = done + k
  <2>1. l + k \in 1 .. l + n
    BY <1>1
  <2>2. PICK i \in 0 .. Cap - 1 : i = Spot(h, l + k)
    BY <1>2, <2>1
  <2>3. IF Moved(h, l) <= i /\ i < Moved(h, l) + first THEN done + (i - Moved(h, l)) + 1 = done + k
        ELSE i < n - first /\ done + first + i + 1 = done + k
    BY <1>1, <1>3, <2>2, SpotsFilled
  <2> QED  BY <1>5, <2>2, <2>3
<1>8. /\ Contents(p) \o s \in Seq(Nat) /\ Len(Contents(p) \o s) = l + n
      /\ \A k \in 1 .. l + n :
           (Contents(p) \o s)[k] = IF k <= l THEN Contents(p)[k] ELSE s[k - l]
  BY <1>1, ConcatProperties
<1>9. ASSUME NEW k \in 1 .. l + n
      PROVE  Contents(q)[k] = (Contents(p) \o s)[k]
  <2>1. Contents(q)[k] = q.data[Spot(h, k)]
    BY <1>2
  <2>2. CASE k <= l
    <3>1. k \in 1 .. l
      BY <1>1, <2>2
    <3>2. Contents(p)[k] = p.data[Spot(h, k)]
      BY <1>1, <3>1
    <3> QED  BY <1>6, <1>8, <2>1, <2>2, <3>1, <3>2
  <2>3. CASE ~(k <= l)
    <3> HIDE DEF l
    <3>0. l \in Int /\ n \in Int
      BY <1>1, FakeFdAssumption
    <3>1. PICK j \in 1 .. n : k = l + j /\ j = k - l
      <4>1. k - l \in 1 .. n /\ k = l + (k - l)
        BY <2>3, <3>0
      <4> QED  BY <4>1
    <3>2. (Contents(p) \o s)[k] = s[j] /\ s[j] = done + j
      BY <1>8, <2>3, <3>1
    <3>3. q.data[Spot(h, k)] = done + j
      BY <1>7, <3>1
    <3> QED  BY <2>1, <3>2, <3>3
  <2> QED  BY <2>2, <2>3
<1> QED  BY <1>2, <1>8, <1>9, SeqEqual

\* An empty ring holds nothing, and only an empty one.
LEMMA EmptyRing ==
  ASSUME NEW p \in PipeState
  PROVE  Contents(p) = <<>> <=> p.length = 0
BY Ring, EmptySeq

-----------------------------------------------------------------------------
(***************************************************************************)
(* The refinement of PipeChannels.                                          *)
(***************************************************************************)
\* What the channels' variables queue and call stand for.
Bytes == [a \in Addrs |-> IF pipes[a].live THEN Contents(pipes[a]) ELSE <<>>]
Inside == [t \in Threads |-> Serving(t)]

\* A call inside condvarWait is a read or a write with bytes left to go, and a
\* call between two sections of fakefd_dup2 is a dup2.
Pending ==
  \A t \in Threads :
    /\ pc[t] \in {"wait", "woken"} => call[t].op \in Sides /\ call[t].total < call[t].count
    /\ pc[t] \in {"d2close", "d2clone"} => call[t].op = "dup2"

\* One thread moves on, whoever it wakes: no other thread is inside of another call.
LEMMA MovesOn ==
  ASSUME TypeOK, NEW t \in Threads, NEW p \in {pc, WakeAll(pc)}, NEW at, NEW c,
         pc' = [p EXCEPT ![t] = at], call' = [call EXCEPT ![t] = c]
  PROVE  Inside' = [Inside EXCEPT ![t] = IF at = "idle" THEN NoCall
                                         ELSE IF at = "d2close" THEN [c EXCEPT !.op = "replace"]
                                         ELSE c]
<1>1. /\ p \in [Threads -> PCs] /\ call \in [Threads -> Locals]
      /\ \A u \in Threads : /\ p[u] = "idle" <=> pc[u] = "idle"
                            /\ p[u] = "d2close" <=> pc[u] = "d2close"
  BY DEF TypeOK, WakeAll, PCs
<1>2. pc'[t] = at /\ call'[t] = c
  BY <1>1
<1>3. \A u \in Threads \ {t} : pc'[u] = p[u] /\ call'[u] = call[u]
  BY <1>1
<1>4. \A u \in Threads \ {t} : Inside'[u] = Inside[u]
  BY <1>1, <1>3 DEF Inside, Serving
<1>5. Inside'[t] = IF at = "idle" THEN NoCall
                   ELSE IF at = "d2close" THEN [c EXCEPT !.op = "replace"] ELSE c
  BY <1>2 DEF Inside, Serving
<1> QED  BY <1>4, <1>5 DEF Inside

\* A call that returns, whoever it wakes, is over; no other call changes.
LEMMA ReturnMaps ==
  ASSUME TypeOK, NEW t \in Threads, NEW c, NEW what, NEW bytes, NEW flags,
         NEW p \in {pc, WakeAll(pc)}, Return(t, p, c, what, bytes, flags)
  PROVE  Channels!Return(t, c, what, bytes, flags)
<1>1. /\ pc' = [p EXCEPT ![t] = "idle"] /\ call' = [call EXCEPT ![t] = NoCall]
      /\ last' = Result(c, what, bytes, flags)
  BY DEF Return
<1>2. Inside' = [Inside EXCEPT ![t] = NoCall]
  BY <1>1, MovesOn
<1>3. Channels!NoCall = NoCall /\ Channels!Result(c, what, bytes, flags) = Result(c, what, bytes, flags)
  BY DEF Channels!Result, Channels!NoCall, Channels!Asked, Result, NoCall, Asked
<1> QED  BY <1>1, <1>2, <1>3, Zenon DEF Channels!Return, Inside

\* A call that goes on in a later section is inside of what it goes on with.
LEMMA StayMaps ==
  ASSUME TypeOK, NEW t \in Threads, NEW c, NEW p \in {pc, WakeAll(pc)},
         NEW at, at # "idle",
         pc' = [p EXCEPT ![t] = at], call' = [call EXCEPT ![t] = c], last' = Nothing
  PROVE  Channels!Stay(t, IF at = "d2close" THEN [c EXCEPT !.op = "replace"] ELSE c)
<1>1. PICK d : d = IF at = "d2close" THEN [c EXCEPT !.op = "replace"] ELSE c
  OBVIOUS
<1>2. Inside' = [Inside EXCEPT ![t] = d]
  BY <1>1, MovesOn
<1>3. last' = Channels!Nothing
  BY DEF Channels!Nothing, Channels!Result, Channels!NoCall, Channels!Asked,
         Nothing, Result, NoCall, Asked
<1>4. Channels!Stay(t, d)
  BY <1>2, <1>3, Zenon DEF Channels!Stay, Inside
<1> QED  BY <1>1, <1>4 DEF Channels!Stay

\* A call that goes to sleep is inside of itself, with the locals it sleeps with.
LEMMA WaitMaps ==
  ASSUME TypeOK, NEW t \in Threads, NEW c, NEW p \in {pc, WakeAll(pc)}, Wait(t, p, c)
  PROVE  Channels!Stay(t, c)
<1>1. pc' = [p EXCEPT ![t] = "wait"] /\ call' = [call EXCEPT ![t] = c] /\ last' = Nothing
  BY DEF Wait
<1>2. Channels!Stay(t, IF "wait" = "d2close" THEN [c EXCEPT !.op = "replace"] ELSE c)
  BY <1>1, StayMaps
<1> QED  BY <1>2 DEF Channels!Stay

\* A pipe has no readers or writers when no descriptor is such an end of it.
LEMMA NoEnds ==
  ASSUME RefcountsExact, NEW a \in Addrs
  PROVE  /\ pipes[a].readers = 0 <=> Channels!Ends("read", a) = {}
         /\ pipes[a].writers = 0 <=> Channels!Ends("write", a) = {}
<1>1. \A kind \in Sides : Cardinality(Refs(kind, a)) = 0 <=> Refs(kind, a) = {}
  BY RefsFinite, FS_EmptySet
<1>2. \A kind : Channels!Ends(kind, a) = Refs(kind, a)
  BY DEF Channels!Ends, Refs
<1> QED  BY <1>1, <1>2 DEF RefcountsExact, Sides

\* A pipe is in use when it is allocated.
LEMMA LiveInUse ==
  ASSUME TypeOK, RefcountsExact, NEW a \in Addrs
  PROVE  pipes[a].live <=> \E f \in Fds : fds[f].pipe = a
<1>1. \A f \in Fds : fds[f].pipe = a => fds[f].kind \in Sides
  BY FakeFdAssumption DEF TypeOK, Entry, Unused, Sides
<1> QED  BY <1>1 DEF RefcountsExact, Refs, Sides

\* What a pipe's sequence is while it is allocated.
LEMMA BytesIs ==
  ASSUME TypeOK, NEW a \in Addrs, pipes[a].live
  PROVE  /\ Bytes[a] = Contents(pipes[a]) /\ Bytes[a] \in Seq(Nat)
         /\ Len(Bytes[a]) = pipes[a].length
         /\ Bytes[a] = <<>> <=> pipes[a].length = 0
  BY Ring, EmptyRing DEF Bytes, TypeOK

\* A step that changes one pipe at most.
LEMMA BytesChange ==
  ASSUME NEW a \in Addrs, NEW s, NEW q, pipes'[a] = q,
         s = IF q.live THEN Contents(q) ELSE <<>>,
         \A b \in Addrs \ {a} : pipes'[b] = pipes[b]
  PROVE  Bytes' = [Bytes EXCEPT ![a] = s]
<1>1. \A b \in Addrs \ {a} : Bytes'[b] = Bytes[b]
  BY DEF Bytes, Contents
<1>2. Bytes'[a] = s
  BY DEF Bytes, Contents
<1> QED  BY <1>1, <1>2 DEF Bytes

\* A read's section is a Recv.
LEMMA ReadMaps ==
  ASSUME IInv, NEW t \in Threads, NEW c \in Locals, c.op = "read",
         Names(c.fd, c.op, c.pipe), c \in Channels!Calls(t, "read"),
         ReadBody(t, c), UNCHANGED fds
  PROVE  Channels!Recv(t)
<1> DEFINE p == pipes[c.pipe]
           n == Lesser(c.count, p.length)
<1>1. TypeOK /\ RefcountsExact /\ c.fd \in Fds /\ c.pipe \in Addrs /\ p.live /\ p \in PipeState
  <2>1. c.fd \in Fds /\ fds[c.fd].kind # "unused" /\ fds[c.fd].pipe = c.pipe
    BY DEF Locals, Names
  <2> QED  BY <2>1, OpenEntry, NamedIsLive DEF IInv, TypeOK
<1>2. Channels!Valid(c)
  BY DEF Names, Channels!Valid
<1>3. /\ Bytes[c.pipe] = Contents(p) /\ Bytes[c.pipe] \in Seq(Nat)
      /\ Len(Bytes[c.pipe]) = p.length
      /\ Bytes[c.pipe] = <<>> <=> p.length = 0
      /\ p.writers = 0 <=> Channels!Ends("write", c.pipe) = {}
  BY <1>1, BytesIs, NoEnds
<1>4. p.length \in Nat /\ p.length <= Cap /\ c.count \in Nat
  BY <1>1, Ring, FakeFdAssumption DEF Locals
<1>5. CASE p.length = 0 /\ UNCHANGED pipes
  <2>1. Bytes' = Bytes
    BY <1>5 DEF Bytes, Contents
  <2>2. IF p.writers = 0 THEN Channels!Return(t, c, "eof", <<>>, {})
        ELSE IF fds[c.fd].nonblock THEN Channels!Return(t, c, "again", <<>>, {})
             ELSE Channels!Stay(t, c)
    BY <1>1, <1>4, <1>5, ReturnMaps, WaitMaps DEF ReadBody
  <2> QED  BY <1>2, <1>3, <1>5, <2>1, <2>2 DEF Channels!Recv, Bytes
<1>6. CASE p.length > 0
  <2>1. /\ pipes' = [pipes EXCEPT ![c.pipe].head = (p.head + n) % Cap,
                                  ![c.pipe].length = p.length - n]
        /\ Return(t, WakeAll(pc), c, "data", Taken(p, n), {})
    BY <1>6 DEF ReadBody
  <2>2. n \in 0 .. p.length /\ n = IF c.count < Len(Bytes[c.pipe]) THEN c.count ELSE Len(Bytes[c.pipe])
    BY <1>3, <1>4 DEF Lesser
  <2>3. PICK m \in 0 .. p.length : m = n
    BY <2>2
  <2>4. (p.head + m) % Cap = Moved(p.head, m) /\ Moved(p.head, m) \in 0 .. Cap - 1
    <3>1. p.head \in 0 .. Cap - 1 /\ m \in 0 .. Cap
      BY <1>1, <1>4, <2>3, Ring, FakeFdAssumption
    <3> QED  BY <3>1, MovedIs
  <2>5. pipes' = [pipes EXCEPT ![c.pipe].head = Moved(p.head, m), ![c.pipe].length = p.length - m]
    BY <2>1, <2>3, <2>4
  <2>6. PICK q : q = [p EXCEPT !.head = Moved(p.head, m), !.length = p.length - m]
    OBVIOUS
  <2>7. /\ q \in PipeState /\ q.live /\ q.data = p.data
        /\ q.head = Moved(p.head, m) /\ q.length = p.length - m
    <3>1. p.length - m \in 0 .. Cap
      BY <1>4, <2>3, FakeFdAssumption
    <3> QED  BY <1>1, <2>4, <2>6, <3>1 DEF PipeState
  <2>8. pipes'[c.pipe] = q /\ \A b \in Addrs \ {c.pipe} : pipes'[b] = pipes[b]
    BY <1>1, <2>5, <2>6 DEF TypeOK
  <2>9. Contents(q) = SubSeq(Contents(p), m + 1, Len(Contents(p)))
    BY <1>1, <2>3, <2>7, ReadLeaves
  <2>10. Bytes' = [Bytes EXCEPT ![c.pipe] = SubSeq(Bytes[c.pipe], m + 1, Len(Bytes[c.pipe]))]
    <3>1. Contents(q) = SubSeq(Bytes[c.pipe], m + 1, Len(Bytes[c.pipe]))
      BY <1>3, <2>9
    <3> HIDE DEF n
    <3> QED  BY <1>1, <2>7, <2>8, <3>1, BytesChange
  <2>11. Channels!Return(t, c, "data", SubSeq(Bytes[c.pipe], 1, m), {})
    <3>1. Taken(p, m) = SubSeq(Bytes[c.pipe], 1, m)
      BY <1>1, <1>3, <2>3, TakenIsPrefix
    <3>2. Return(t, WakeAll(pc), c, "data", SubSeq(Bytes[c.pipe], 1, m), {})
      BY <2>1, <2>3, <3>1
    <3> QED  BY <1>1, <3>2, ReturnMaps
  <2>12. m = IF c.count < Len(Bytes[c.pipe]) THEN c.count ELSE Len(Bytes[c.pipe])
    BY <2>2, <2>3
  <2> HIDE DEF n, p
  <2>13. LET b == Bytes[c.pipe]
             k == IF c.count < Len(b) THEN c.count ELSE Len(b)
         IN  IF b # <<>>
               THEN /\ Bytes' = [Bytes EXCEPT ![c.pipe] = SubSeq(b, k + 1, Len(b))]
                    /\ Channels!Return(t, c, "data", SubSeq(b, 1, k), {})
               ELSE /\ UNCHANGED Bytes
                    /\ IF Channels!Ends("write", c.pipe) = {}
                         THEN Channels!Return(t, c, "eof", <<>>, {})
                         ELSE IF fds[c.fd].nonblock
                                THEN Channels!Return(t, c, "again", <<>>, {}) ELSE Channels!Stay(t, c)
    BY <1>3, <1>6, <2>10, <2>11, <2>12
  <2> QED  BY <1>2, <2>13, Zenon DEF Channels!Recv, Bytes
<1> QED  BY <1>4, <1>5, <1>6 DEF ReadBody

\* A write's section is a Send.
LEMMA WriteMaps ==
  ASSUME IInv, NEW t \in Threads, NEW c \in Locals, c.op = "write", c.total < c.count,
         Names(c.fd, c.op, c.pipe), c \in Channels!Calls(t, "write"),
         WriteBody(t, c), UNCHANGED fds
  PROVE  Channels!Send(t)
<1> DEFINE p == pipes[c.pipe]
           n == Lesser(c.count - c.total, Cap - p.length)
<1>1. TypeOK /\ RefcountsExact /\ c.fd \in Fds /\ c.pipe \in Addrs /\ p.live /\ p \in PipeState
  <2>1. c.fd \in Fds /\ fds[c.fd].kind # "unused" /\ fds[c.fd].pipe = c.pipe
    BY DEF Locals, Names
  <2> QED  BY <2>1, OpenEntry, NamedIsLive DEF IInv, TypeOK
<1>2. Channels!Valid(c)
  BY DEF Names, Channels!Valid
<1>3. /\ Bytes[c.pipe] = Contents(p) /\ Bytes[c.pipe] \in Seq(Nat)
      /\ Len(Bytes[c.pipe]) = p.length
      /\ p.readers = 0 <=> Channels!Ends("read", c.pipe) = {}
  BY <1>1, BytesIs, NoEnds
<1>4. p.length \in Nat /\ p.length <= Cap /\ c.count \in Nat /\ c.total \in Nat
  BY <1>1, Ring, FakeFdAssumption DEF Locals
<1>5. PICK m \in Nat :
        /\ m = n /\ m <= c.count - c.total /\ m <= Cap - p.length /\ m \in 0 .. Cap - p.length
        /\ m = IF c.count - c.total < Cap - Len(Bytes[c.pipe]) THEN c.count - c.total
               ELSE Cap - Len(Bytes[c.pipe])
  <2>1. PICK room : room = Cap - p.length /\ room \in Nat
    BY <1>4, FakeFdAssumption
  <2>2. PICK rest : rest = c.count - c.total /\ rest \in Nat
    BY <1>4
  <2>3. n = Lesser(rest, room)
    BY <2>1, <2>2
  <2> HIDE DEF n
  <2>4. n \in Nat /\ n <= rest /\ n <= room /\ n \in 0 .. room
    BY <2>1, <2>2, <2>3 DEF Lesser
  <2>5. n = IF rest < room THEN rest ELSE room
    BY <2>3 DEF Lesser
  <2>6. Cap - Len(Bytes[c.pipe]) = room
    BY <1>3, <2>1
  <2>7. n = IF c.count - c.total < Cap - Len(Bytes[c.pipe]) THEN c.count - c.total
            ELSE Cap - Len(Bytes[c.pipe])
    BY <2>2, <2>5, <2>6
  <2> QED  BY <2>1, <2>2, <2>4, <2>7
<1>6. CASE p.readers = 0 /\ UNCHANGED pipes
  <2>1. Bytes' = Bytes
    BY <1>6 DEF Bytes, Contents
  <2>2. IF c.total > 0 THEN Channels!Return(t, c, "wrote", Sent(c.total), {})
        ELSE Channels!Return(t, c, "pipe", <<>>, {})
    BY <1>1, <1>6, ReturnMaps DEF WriteBody
  <2> QED  BY <1>2, <1>3, <1>6, <2>1, <2>2 DEF Channels!Send, Bytes, Sent
<1> DEFINE s == SubSeq(Channels!Payload(c), 1, m)
<1>7. s \in Seq(Nat) /\ Len(s) = m /\ \A k \in 1 .. m : s[k] = c.total + k
  <2>1. Channels!Payload(c) = [k \in 1 .. c.count - c.total |-> c.total + k]
    BY DEF Channels!Payload
  <2>2. c.count - c.total \in Nat
    BY <1>4
  <2> HIDE DEF n, p
  <2>3. Channels!Payload(c) \in Seq(Nat) /\ Len(Channels!Payload(c)) = c.count - c.total
    BY <1>4, <2>1, <2>2
  <2>4. s = [k \in 1 .. m |-> Channels!Payload(c)[k]]
    BY <1>5, <2>2, <2>3
  <2>5. \A k \in 1 .. m : Channels!Payload(c)[k] = c.total + k
    BY <1>4, <1>5, <2>1, <2>2
  <2> QED  BY <1>4, <1>5, <2>4, <2>5
<1> HIDE DEF s
<1>8. ASSUME p.readers # 0, Bytes' = [Bytes EXCEPT ![c.pipe] = Bytes[c.pipe] \o s],
             \/ /\ c.total + m = c.count \/ (fds[c.fd].nonblock /\ c.total + m > 0)
                /\ Channels!Return(t, c, "wrote", Sent(c.total + m), {})
             \/ /\ c.total + m = 0 /\ fds[c.fd].nonblock
                /\ Channels!Return(t, c, "again", <<>>, {})
             \/ /\ c.total + m < c.count /\ ~fds[c.fd].nonblock
                /\ Channels!Stay(t, [c EXCEPT !.total = c.total + m])
      PROVE  Channels!Send(t)
  <2>1. Channels!Ends("read", c.pipe) # {}
    BY <1>3, <1>8
  <2>2. m = IF c.count - c.total < Cap - Len(Bytes[c.pipe]) THEN c.count - c.total
            ELSE Cap - Len(Bytes[c.pipe])
    BY <1>5
  <2> HIDE DEF n, p
  <2>3. LET b == Bytes[c.pipe]
            free == Cap - Len(b)
            k == IF c.count - c.total < free THEN c.count - c.total ELSE free
            sent == Sent(c.total + k)
        IN  IF Channels!Ends("read", c.pipe) = {}
              THEN /\ UNCHANGED Bytes
                   /\ IF c.total > 0 THEN Channels!Return(t, c, "wrote", Sent(c.total), {})
                                     ELSE Channels!Return(t, c, "pipe", <<>>, {})
              ELSE /\ Bytes' = [Bytes EXCEPT ![c.pipe] = b \o SubSeq(Channels!Payload(c), 1, k)]
                   /\ \/ /\ c.total + k = c.count \/ (fds[c.fd].nonblock /\ c.total + k > 0)
                         /\ Channels!Return(t, c, "wrote", sent, {})
                      \/ /\ c.total + k = 0 /\ fds[c.fd].nonblock
                         /\ Channels!Return(t, c, "again", <<>>, {})
                      \/ /\ c.total + k < c.count /\ ~fds[c.fd].nonblock
                         /\ Channels!Stay(t, [c EXCEPT !.total = c.total + k])
    <3> DEFINE free == Cap - Len(Bytes[c.pipe])
               k == IF c.count - c.total < free THEN c.count - c.total ELSE free
    <3>1. k = m
      BY <2>2
    <3>2. Bytes' = [Bytes EXCEPT ![c.pipe] = Bytes[c.pipe] \o SubSeq(Channels!Payload(c), 1, k)]
      BY <1>8, <3>1 DEF s
    <3>3. \/ /\ c.total + k = c.count \/ (fds[c.fd].nonblock /\ c.total + k > 0)
             /\ Channels!Return(t, c, "wrote", Sent(c.total + k), {})
          \/ /\ c.total + k = 0 /\ fds[c.fd].nonblock
             /\ Channels!Return(t, c, "again", <<>>, {})
          \/ /\ c.total + k < c.count /\ ~fds[c.fd].nonblock
             /\ Channels!Stay(t, [c EXCEPT !.total = c.total + k])
      <4>1. PICK d : d = [c EXCEPT !.total = c.total + m] /\ d = [c EXCEPT !.total = c.total + k]
        BY <3>1
      <4>2. PICK e : e = Sent(c.total + m) /\ e = Sent(c.total + k)
        BY <3>1
      <4>3. \/ /\ c.total + m = c.count \/ (fds[c.fd].nonblock /\ c.total + m > 0)
               /\ Channels!Return(t, c, "wrote", e, {})
            \/ /\ c.total + m = 0 /\ fds[c.fd].nonblock
               /\ Channels!Return(t, c, "again", <<>>, {})
            \/ /\ c.total + m < c.count /\ ~fds[c.fd].nonblock
               /\ Channels!Stay(t, d)
        BY <1>8, <4>1, <4>2 DEF Channels!Return, Channels!Stay
      <4> QED  BY <3>1, <4>1, <4>2, <4>3 DEF Channels!Return, Channels!Stay
    <3> QED  BY <2>1, <3>2, <3>3, Zenon
  <2> QED  BY <1>2, <2>3, Zenon DEF Channels!Send, Bytes, Sent
<1>9. CASE p.length = Cap /\ p.readers # 0 /\ UNCHANGED pipes
  <2>1. m = 0
    BY <1>4, <1>5, <1>9, FakeFdAssumption
  <2>2. s = <<>>
    BY <1>7, <2>1, EmptySeq
  <2>3. Bytes' = [Bytes EXCEPT ![c.pipe] = Bytes[c.pipe] \o s]
    <3>1. Bytes[c.pipe] \o s = Bytes[c.pipe]
      BY <1>3, <2>2, ConcatEmptySeq
    <3>2. Bytes' = Bytes
      BY <1>9 DEF Bytes, Contents
    <3> QED  BY <3>1, <3>2 DEF Bytes
  <2>4. [c EXCEPT !.total = c.total + m] = c /\ c.total + m = c.total
    BY <1>4, <2>1 DEF Locals
  <2>5. IF ~fds[c.fd].nonblock THEN Channels!Stay(t, c)
        ELSE IF c.total > 0 THEN Channels!Return(t, c, "wrote", Sent(c.total), {})
             ELSE Channels!Return(t, c, "again", <<>>, {})
    BY <1>1, <1>4, <1>9, ReturnMaps, WaitMaps, FakeFdAssumption DEF WriteBody
  <2> QED  BY <1>4, <1>8, <1>9, <2>3, <2>4, <2>5
<1>10. CASE p.length < Cap /\ p.readers # 0
  <2>1. /\ pipes' = [pipes EXCEPT ![c.pipe].data = Stored(p, c.total, m),
                                  ![c.pipe].length = p.length + m]
        /\ IF c.total + m = c.count \/ fds[c.fd].nonblock
             THEN Return(t, WakeAll(pc), c, "wrote", Sent(c.total + m), {})
             ELSE Wait(t, WakeAll(pc), [c EXCEPT !.total = c.total + m])
    BY <1>4, <1>5, <1>10, FakeFdAssumption DEF WriteBody
  <2>2. m > 0
    <3>1. Cap - p.length > 0 /\ c.count - c.total > 0
      BY <1>4, <1>10, FakeFdAssumption
    <3> QED  BY <1>5, <3>1 DEF Lesser
  <2>3. PICK d : d = Stored(p, c.total, m) /\ d \in [0 .. Cap - 1 -> Nat]
    BY <1>1, <1>4, <1>5, StoredType
  <2>4. PICK q : q = [p EXCEPT !.data = d, !.length = p.length + m]
    OBVIOUS
  <2>5. /\ q \in PipeState /\ q.live /\ q.data = d
        /\ q.head = p.head /\ q.length = p.length + m
    <3>1. p.length + m \in 0 .. Cap
      BY <1>4, <1>5, FakeFdAssumption
    <3> QED  BY <1>1, <2>3, <2>4, <3>1 DEF PipeState
  <2>6. pipes'[c.pipe] = q /\ \A b \in Addrs \ {c.pipe} : pipes'[b] = pipes[b]
    BY <1>1, <2>1, <2>3, <2>4 DEF TypeOK
  <2>7. Contents(q) = Contents(p) \o s
    <3>1. q.data = Stored(p, c.total, m)
      BY <2>3, <2>5
    <3> HIDE DEF n
    <3>2. c.total \in Nat /\ m \in 0 .. Cap - p.length
      BY <1>4, <1>5
    <3>3. p \in PipeState
      BY <1>1
    <3> HIDE DEF p
    <3> QED  BY <1>7, <2>5, <3>1, <3>2, <3>3, WriteAppends
  <2>8. Bytes' = [Bytes EXCEPT ![c.pipe] = Bytes[c.pipe] \o s]
    <3>1. Contents(q) = Bytes[c.pipe] \o s
      BY <1>3, <2>7
    <3> HIDE DEF n
    <3> QED  BY <1>1, <2>5, <2>6, <3>1, BytesChange
  <2>9. IF c.total + m = c.count \/ fds[c.fd].nonblock
          THEN Channels!Return(t, c, "wrote", Sent(c.total + m), {})
          ELSE Channels!Stay(t, [c EXCEPT !.total = c.total + m])
    BY <1>1, <2>1, ReturnMaps, WaitMaps
  <2> QED  BY <1>4, <1>5, <1>8, <1>10, <2>2, <2>8, <2>9
<1> QED  BY <1>4, <1>6, <1>9, <1>10, FakeFdAssumption DEF WriteBody

\* An idle thread is inside of no call.
LEMMA NotInside ==
  ASSUME NEW t \in Threads, pc[t] = "idle"
  PROVE  Inside[t] = Channels!NoCall
  BY DEF Inside, Serving, NoCall, Asked, Channels!NoCall, Channels!Asked

\* A call that fails changes nothing.
LEMMA FailMaps ==
  ASSUME TypeOK, NEW t \in Threads, NEW c, NEW what, Return(t, pc, c, what, <<>>, {}),
         UNCHANGED <<fds, pipes>>
  PROVE  Channels!Fail(t, c, what)
<1>1. Channels!Return(t, c, what, <<>>, {})
  BY ReturnMaps
<1>2. UNCHANGED <<fds, Bytes>>
  BY DEF Bytes, Contents
<1> QED  BY <1>1, <1>2, Zenon DEF Channels!Fail, Bytes

\* A free descriptor is an unused slot.
LEMMA FreeIs ==
  ASSUME TypeOK, NEW f \in Fds
  PROVE  Channels!Free(f) <=> fds[f].kind = "unused"
  BY DEF TypeOK, Entry, Unused, Channels!Free, Channels!Shut

\* alloc_slot_from finds the lowest free descriptor.
LEMMA LowestIs ==
  ASSUME TypeOK, NEW f \in Fds, NEW min \in Nat, FreeFrom(f, min)
  PROVE  Channels!Lowest(f, min)
<1>1. \A g \in Fds : Channels!Free(g) <=> fds[g].kind = "unused"
  BY FreeIs
<1>2. \A g \in Fds : min <= g /\ fds[g].kind = "unused" => f <= g
  BY FakeFdAssumption DEF FreeFrom, Fds
<1>3. f >= min /\ fds[f].kind = "unused"
  BY DEF FreeFrom
<1> QED  BY <1>1, <1>2, <1>3 DEF Channels!Lowest

\* The first section of a read or a write.
LEMMA BeginMaps ==
  ASSUME IInv, NEW t \in Threads, Begin(t)
  PROVE  Channels!Recv(t) \/ Channels!Send(t) \/ Channels!BadTransfer(t)
<1>1. PICK op \in Sides, f \in Fds, n \in 1 .. MaxCount :
        LET c == [op |-> op, fd |-> f, pipe |-> fds[f].pipe, count |-> n, total |-> 0]
        IN  IF fds[f].kind = op /\ c.pipe # NoAddr THEN Body(t, c)
            ELSE Return(t, pc, c, "badf", <<>>, {}) /\ UNCHANGED pipes
  BY DEF Begin, Sides
<1>2. UNCHANGED fds /\ pc[t] = "idle" /\ TypeOK
  BY DEF Begin, IInv
<1> DEFINE c == [op |-> op, fd |-> f, pipe |-> fds[f].pipe, count |-> n, total |-> 0]
<1>3. c \in Channels!Calls(t, op)
  <2>1. Inside[t] = Channels!NoCall
    BY <1>2, NotInside
  <2>2. c \in {[op |-> op, fd |-> g, pipe |-> fds[g].pipe, count |-> k, total |-> 0] :
                 g \in Fds, k \in 1 .. MaxCount}
    OBVIOUS
  <2> HIDE DEF c
  <2> QED  BY <2>1, <2>2 DEF Channels!Calls, Inside
<1>4. CASE fds[f].kind = op /\ c.pipe # NoAddr
  <2>1. c \in Locals /\ c.op = op /\ c.total < c.count
    BY <1>2, FakeFdAssumption DEF Locals, Sides, TypeOK, Entry, Unused
  <2>2. Names(c.fd, c.op, c.pipe) /\ Body(t, c)
    BY <1>1, <1>4 DEF Names
  <2> HIDE DEF c
  <2>4. CASE op = "read"
    <3>1. ReadBody(t, c)
      BY <2>1, <2>2, <2>4 DEF Body
    <3> QED  BY <1>2, <1>3, <2>1, <2>2, <2>4, <3>1, ReadMaps
  <2>5. CASE op = "write"
    <3>1. WriteBody(t, c)
      BY <2>1, <2>2, <2>5 DEF Body
    <3> QED  BY <1>2, <1>3, <2>1, <2>2, <2>5, <3>1, WriteMaps
  <2> QED  BY <2>4, <2>5 DEF Sides
<1>5. CASE ~(fds[f].kind = op /\ c.pipe # NoAddr)
  <2>1. fds[f].kind # op
    BY <1>2, <1>5, OpenEntry, FakeFdAssumption DEF Sides
  <2>2. ~Channels!Valid(c)
    BY <2>1 DEF Channels!Valid
  <2>3. Return(t, pc, c, "badf", <<>>, {}) /\ UNCHANGED <<fds, pipes>>
    BY <1>1, <1>2, <1>5
  <2> HIDE DEF c
  <2>4. Channels!Fail(t, c, "badf")
    BY <1>2, <2>3, FailMaps
  <2> QED  BY <1>3, <2>2, <2>4 DEF Channels!BadTransfer, Sides
<1> QED  BY <1>4, <1>5

\* The section of a woken call.
LEMMA ResumeMaps ==
  ASSUME IInv, Pending, NEW t \in Threads, Resume(t)
  PROVE  Channels!Recv(t) \/ Channels!Send(t) \/ Channels!BadTransfer(t)
<1>1. PICK c : c = call[t]
  OBVIOUS
<1>2. /\ UNCHANGED fds /\ pc[t] = "woken" /\ TypeOK /\ c \in Locals
      /\ c.op \in Sides /\ c.total < c.count
      /\ IF Names(c.fd, c.op, c.pipe) THEN Body(t, c)
         ELSE Return(t, pc, c, "badf", <<>>, {}) /\ UNCHANGED pipes
  BY <1>1 DEF Resume, IInv, TypeOK, Pending
<1>3. Inside[t] = c /\ c # Channels!NoCall
  BY <1>1, <1>2 DEF Inside, Serving, Channels!NoCall, Channels!Asked, Sides
<1>4. c \in Channels!Calls(t, c.op)
  BY <1>3 DEF Channels!Calls, Inside
<1>5. CASE ~Names(c.fd, c.op, c.pipe)
  <2>1. Channels!Fail(t, c, "badf")
    BY <1>2, <1>5, FailMaps
  <2>2. ~Channels!Valid(c)
    BY <1>5 DEF Names, Channels!Valid
  <2> QED  BY <1>2, <1>4, <2>1, <2>2 DEF Channels!BadTransfer, Sides
<1>6. CASE Names(c.fd, c.op, c.pipe) /\ c.op = "read"
  BY <1>2, <1>4, <1>6, ReadMaps DEF Body
<1>7. CASE Names(c.fd, c.op, c.pipe) /\ c.op = "write"
  BY <1>2, <1>4, <1>7, WriteMaps DEF Body
<1> QED  BY <1>2, <1>5, <1>6, <1>7 DEF Sides

\* A pipe begins empty, on the two lowest free descriptors.
LEMMA PipeMaps ==
  ASSUME IInv, NEW t \in Threads, Pipe(t)
  PROVE  Channels!Open(t)
<1>1. PICK r \in Fds, w \in Fds, a \in Addrs :
        /\ FreeFrom(r, 0) /\ FreeFrom(w, r + 1) /\ r < w
        /\ ~pipes[a].live
        /\ fds' = [fds EXCEPT ![r] = Open("read", a), ![w] = Open("write", a)]
        /\ pipes' = [pipes EXCEPT ![a] = [Zeroed(TRUE) EXCEPT !.readers = 1, !.writers = 1]]
        /\ Return(t, pc, Asked("pipe", 0, 0), "ok", <<r, w>>, {})
  BY DEF Pipe
<1>2. TypeOK /\ RefcountsExact /\ pc[t] = "idle"
  BY DEF IInv, Pipe
<1>3. /\ Channels!Return(t, Channels!Asked("pipe", 0, 0), "ok", <<r, w>>, {})
      /\ Inside[t] = Channels!NoCall
  <2>1. Channels!Asked("pipe", 0, 0) = Asked("pipe", 0, 0)
    BY DEF Asked, Channels!Asked
  <2> QED  BY <1>1, <1>2, <2>1, ReturnMaps, NotInside
<1>4. Channels!Lowest(r, 0) /\ Channels!Lowest(w, r + 1) /\ r # w
  BY <1>1, <1>2, LowestIs DEF Fds
<1>5. ~Channels!InUse(a)
  BY <1>1, <1>2, LiveInUse DEF Channels!InUse
<1>6. Bytes' = Bytes
  <2>1. pipes'[a].live /\ pipes'[a].length = 0
    BY <1>1, <1>2 DEF TypeOK, Zeroed
  <2>2. \A b \in Addrs \ {a} : pipes'[b] = pipes[b]
    BY <1>1, <1>2 DEF TypeOK
  <2>3. PICK q : q = pipes'[a]
    OBVIOUS
  <2>4. Contents(q) = <<>>
    BY <2>1, <2>3 DEF Contents
  <2>5. Bytes' = [Bytes EXCEPT ![a] = <<>>]
    BY <2>1, <2>2, <2>3, <2>4, BytesChange
  <2>6. Bytes[a] = <<>>
    BY <1>1 DEF Bytes
  <2> QED  BY <2>5, <2>6 DEF Bytes
<1>7. fds' = [fds EXCEPT ![r] = [kind |-> "read", pipe |-> a, nonblock |-> FALSE],
                         ![w] = [kind |-> "write", pipe |-> a, nonblock |-> FALSE]]
  BY <1>1 DEF Open
<1>8. Channels!Free(r) /\ Channels!Free(w)
  BY <1>4 DEF Channels!Lowest
<1> QED  BY <1>3, <1>4, <1>5, <1>6, <1>7, <1>8, Zenon DEF Channels!Open, Bytes, Inside

\* fakefd_pipe fails for the descriptors only when two are not free.
LEMMA PipeFailsMaps ==
  ASSUME IInv, NEW t \in Threads, PipeFails(t)
  PROVE  Channels!Open(t)
<1>1. TypeOK /\ pc[t] = "idle" /\ UNCHANGED <<fds, pipes>>
  BY DEF IInv, PipeFails
<1>2. PICK c : c = Asked("pipe", 0, 0) /\ c = Channels!Asked("pipe", 0, 0)
  BY DEF Asked, Channels!Asked
<1>3. IF \E r, w \in Fds : r # w /\ Channels!Free(r) /\ Channels!Free(w)
        THEN Return(t, pc, c, "nomem", <<>>, {}) ELSE Return(t, pc, c, "mfile", <<>>, {})
  BY <1>1, <1>2, FreeIs DEF PipeFails
<1>4. Inside[t] = Channels!NoCall
  BY <1>1, NotInside
<1>5. IF \E r, w \in Fds : r # w /\ Channels!Free(r) /\ Channels!Free(w)
        THEN Channels!Fail(t, Channels!Asked("pipe", 0, 0), "nomem")
        ELSE Channels!Fail(t, Channels!Asked("pipe", 0, 0), "mfile")
  BY <1>1, <1>2, <1>3, FailMaps DEF Channels!Fail
<1> QED  BY <1>4, <1>5, Zenon DEF Channels!Open, Inside

\* Neither a copied end nor a dropped one that is not the last touches the bytes.
LEMMA EndsKeepBytes ==
  ASSUME NEW p \in PipeState, NEW kind \in Sides
  PROVE  /\ Shared(p, kind).live = p.live /\ Contents(Shared(p, kind)) = Contents(p)
         /\ Dropped(p, kind).live => Contents(Dropped(p, kind)) = Contents(p)
<1>1. Shared(p, kind).live = p.live /\ Contents(Shared(p, kind)) = Contents(p)
  <2>1. CASE kind = "read"
    BY <2>1 DEF Shared, Contents, PipeState
  <2>2. CASE kind # "read"
    BY <2>2 DEF Shared, Contents, PipeState
  <2> QED  BY <2>1, <2>2
<1>2. Dropped(p, kind).live => Contents(Dropped(p, kind)) = Contents(p)
  <2>1. CASE Dropped(p, kind) = Zeroed(FALSE)
    BY <2>1 DEF Zeroed
  <2>2. CASE Dropped(p, kind) = [p EXCEPT !.readers = Less(p.readers)]
    BY <2>2 DEF Contents, PipeState
  <2>3. CASE Dropped(p, kind) = [p EXCEPT !.writers = Less(p.writers)]
    BY <2>3 DEF Contents, PipeState
  <2> QED  BY <2>1, <2>2, <2>3 DEF Dropped
<1> QED  BY <1>1, <1>2

\* Dropping the last end of a pipe drops its bytes, and only that.
LEMMA ShutMaps ==
  ASSUME IInv, NEW f \in Fds, fds[f].kind # "unused", CloseSlot(f)
  PROVE  Channels!Shutting(f) /\ ~Channels!Free(f)
<1>1. PICK a \in Addrs : a = fds[f].pipe
  BY OpenEntry DEF IInv
<1>2. PICK kind \in Sides : kind = fds[f].kind
  BY OpenEntry DEF IInv
<1>3. PICK q : q = Dropped(pipes[a], kind)
  OBVIOUS
<1>4. /\ fds' = [fds EXCEPT ![f] = Unused] /\ pipes' = [pipes EXCEPT ![a] = q]
      /\ TypeOK /\ RefcountsExact
  BY <1>1, <1>2, <1>3 DEF CloseSlot, IInv
<1>5. /\ pipes'[a] = q /\ \A b \in Addrs \ {a} : pipes'[b] = pipes[b]
      /\ pipes[a] \in PipeState
  BY <1>4 DEF TypeOK
<1>6. q.live <=> \E g \in Fds \ {f} : fds[g].pipe = a
  <2>1. RefcountsExact'
    BY <1>4, CloseExact
  <2>2. pipes'[a].live <=> Refs("read", a)' \cup Refs("write", a)' # {}
    BY <2>1 DEF RefcountsExact
  <2>3. \A k \in Sides : Refs(k, a)' = Refs(k, a) \ {f}
    BY <1>4, RefsClosed
  <2>4. \A g \in Fds : fds[g].pipe = a => fds[g].kind \in Sides
    BY <1>4, FakeFdAssumption DEF TypeOK, Entry, Unused, Sides
  <2>5. (Refs("read", a) \ {f}) \cup (Refs("write", a) \ {f}) # {}
          <=> \E g \in Fds \ {f} : fds[g].pipe = a
    BY <2>4 DEF Refs, Sides
  <2> QED  BY <1>5, <2>2, <2>3, <2>5 DEF Sides
<1>7. pipes[a].live
  BY <1>1, <1>4, NamedIsLive
<1>8. Bytes' = IF \E g \in Fds \ {f} : fds[g].pipe = fds[f].pipe
                 THEN Bytes ELSE [Bytes EXCEPT ![fds[f].pipe] = <<>>]
  <2>1. CASE q.live
    <3>1. Contents(q) = Bytes[a]
      BY <1>2, <1>3, <1>5, <1>7, <2>1, EndsKeepBytes DEF Bytes
    <3>2. Bytes' = [Bytes EXCEPT ![a] = Bytes[a]]
      BY <1>5, <2>1, <3>1, BytesChange
    <3> QED  BY <1>1, <1>6, <2>1, <3>2 DEF Bytes
  <2>2. CASE ~q.live
    <3>1. Bytes' = [Bytes EXCEPT ![a] = <<>>]
      BY <1>5, <2>2, BytesChange
    <3> QED  BY <1>1, <1>6, <2>2, <3>1
  <2> QED  BY <2>1, <2>2
<1>9. fds' = [fds EXCEPT ![f] = Channels!Shut]
  BY <1>4 DEF Unused, Channels!Shut
<1>10. ~Channels!Free(f)
  BY <1>4, FreeIs
<1> QED  BY <1>8, <1>9, <1>10, Zenon DEF Channels!Shutting, Bytes

\* A copied descriptor is one more end of the same pipe.
LEMMA CloneMaps ==
  ASSUME IInv, NEW f \in Fds, NEW g \in Fds, fds[f].kind # "unused", Clone(f, g)
  PROVE  Channels!Copied(f, g)
<1>1. PICK a \in Addrs : a = fds[f].pipe
  BY OpenEntry DEF IInv
<1>2. PICK kind \in Sides : kind = fds[f].kind
  BY OpenEntry DEF IInv
<1>3. PICK q : q = Shared(pipes[a], kind)
  OBVIOUS
<1>4. /\ fds' = [fds EXCEPT ![g] = fds[f]] /\ pipes' = [pipes EXCEPT ![a] = q]
      /\ TypeOK /\ RefcountsExact
  BY <1>1, <1>2, <1>3 DEF Clone, IInv
<1>5. /\ pipes'[a] = q /\ \A b \in Addrs \ {a} : pipes'[b] = pipes[b]
      /\ pipes[a] \in PipeState
  BY <1>4 DEF TypeOK
<1>6. Bytes' = Bytes
  <2>1. q.live = pipes[a].live /\ Contents(q) = Contents(pipes[a])
    BY <1>3, <1>5, EndsKeepBytes
  <2>2. Bytes[a] = IF q.live THEN Contents(q) ELSE <<>>
    BY <2>1 DEF Bytes
  <2>3. Bytes' = [Bytes EXCEPT ![a] = Bytes[a]]
    BY <1>5, <2>2, BytesChange
  <2> QED  BY <2>3 DEF Bytes
<1> QED  BY <1>4, <1>6, Zenon DEF Channels!Copied, Bytes

\* fakefd_close is a Close, which fails on a free descriptor.
LEMMA CloseCallMaps ==
  ASSUME IInv, NEW t \in Threads, Close(t)
  PROVE  Channels!Close(t)
<1>1. PICK f \in Fds :
        IF fds[f].kind # "unused"
          THEN CloseSlot(f) /\ Return(t, WakeAll(pc), Asked("close", f, 0), "ok", <<>>, {})
          ELSE Return(t, pc, Asked("close", f, 0), "badf", <<>>, {}) /\ UNCHANGED <<fds, pipes>>
  BY DEF Close
<1>2. TypeOK /\ pc[t] = "idle" /\ Inside[t] = Channels!NoCall
  BY NotInside DEF Close, IInv
<1>3. PICK c : c = Asked("close", f, 0) /\ c = Channels!Asked("close", f, 0)
  BY DEF Asked, Channels!Asked
<1>4. IF Channels!Free(f) THEN Channels!Fail(t, c, "badf")
      ELSE Channels!Shutting(f) /\ Channels!Return(t, c, "ok", <<>>, {})
  <2>1. CASE fds[f].kind # "unused"
    BY <1>1, <1>2, <1>3, <2>1, ShutMaps, ReturnMaps
  <2>2. CASE fds[f].kind = "unused"
    BY <1>1, <1>2, <1>3, <2>2, FreeIs, FailMaps
  <2> QED  BY <2>1, <2>2
<1>5. IF Channels!Free(f) THEN Channels!Fail(t, Channels!Asked("close", f, 0), "badf")
      ELSE Channels!Shutting(f) /\ Channels!Return(t, Channels!Asked("close", f, 0), "ok", <<>>, {})
  BY <1>3, <1>4 DEF Channels!Fail, Channels!Return
<1> QED  BY <1>2, <1>5, Zenon DEF Channels!Close, Inside

\* fakefd_dup copies to the lowest free descriptor from min on, or fails.
LEMMA DupMaps ==
  ASSUME IInv, NEW t \in Threads, Dup(t)
  PROVE  Channels!Dup(t)
<1>1. PICK f \in Fds, min \in Fds :
        LET c == Asked("dup", f, min) IN
        \/ /\ fds[f].kind = "unused"
           /\ Return(t, pc, c, "badf", <<>>, {}) /\ UNCHANGED <<fds, pipes>>
        \/ /\ fds[f].kind # "unused" /\ NoneFree(min)
           /\ Return(t, pc, c, "mfile", <<>>, {}) /\ UNCHANGED <<fds, pipes>>
        \/ /\ fds[f].kind # "unused"
           /\ \E g \in Fds : FreeFrom(g, min) /\ Clone(f, g) /\ Return(t, pc, c, "ok", <<g>>, {})
  BY DEF Dup
<1>2. TypeOK /\ pc[t] = "idle" /\ Inside[t] = Channels!NoCall /\ min \in Nat
  BY NotInside DEF Dup, IInv, Fds
<1>3. PICK c : c = Asked("dup", f, min) /\ c = Channels!Asked("dup", f, min)
  BY DEF Asked, Channels!Asked
<1>4. \A g \in Fds : Channels!Free(g) <=> fds[g].kind = "unused"
  BY <1>2, FreeIs
<1>5. \/ Channels!Free(f) /\ Channels!Fail(t, c, "badf")
      \/ /\ ~Channels!Free(f) /\ (\A g \in Fds : g >= min => ~Channels!Free(g))
         /\ Channels!Fail(t, c, "mfile")
      \/ /\ ~Channels!Free(f)
         /\ \E g \in Fds : /\ Channels!Lowest(g, min) /\ Channels!Copied(f, g)
                           /\ Channels!Return(t, c, "ok", <<g>>, {})
  <2>1. CASE /\ fds[f].kind = "unused"
             /\ Return(t, pc, c, "badf", <<>>, {}) /\ UNCHANGED <<fds, pipes>>
    BY <1>2, <1>4, <2>1, FailMaps
  <2>2. CASE /\ fds[f].kind # "unused" /\ NoneFree(min)
             /\ Return(t, pc, c, "mfile", <<>>, {}) /\ UNCHANGED <<fds, pipes>>
    BY <1>2, <1>4, <2>2, FailMaps DEF NoneFree
  <2>3. ASSUME fds[f].kind # "unused", NEW g \in Fds, FreeFrom(g, min), Clone(f, g),
               Return(t, pc, c, "ok", <<g>>, {})
        PROVE  /\ ~Channels!Free(f) /\ Channels!Lowest(g, min) /\ Channels!Copied(f, g)
               /\ Channels!Return(t, c, "ok", <<g>>, {})
    BY <1>2, <1>4, <2>3, LowestIs, CloneMaps, ReturnMaps
  <2> QED  BY <1>1, <1>3, <2>1, <2>2, <2>3
<1>6. \/ Channels!Free(f) /\ Channels!Fail(t, Channels!Asked("dup", f, min), "badf")
      \/ /\ ~Channels!Free(f) /\ (\A g \in Fds : g >= min => ~Channels!Free(g))
         /\ Channels!Fail(t, Channels!Asked("dup", f, min), "mfile")
      \/ /\ ~Channels!Free(f)
         /\ \E g \in Fds : /\ Channels!Lowest(g, min) /\ Channels!Copied(f, g)
                           /\ Channels!Return(t, Channels!Asked("dup", f, min), "ok", <<g>>, {})
  BY <1>3, <1>5 DEF Channels!Fail, Channels!Return
<1> QED  BY <1>2, <1>6, Zenon DEF Channels!Dup, Inside

\* The three sections of fakefd_dup2.
LEMMA Dup2Maps ==
  ASSUME IInv, Pending, NEW t \in Threads, Dup2Look(t) \/ Dup2Close(t) \/ Dup2Clone(t)
  PROVE  Channels!Dup2(t) \/ Channels!Replace(t) \/ Channels!Copy(t)
<1>1. TypeOK
  BY DEF IInv
<1>2. CASE Dup2Look(t)
  <2>1. PICK f \in Fds, g \in Fds :
          LET c == Asked("dup2", f, g) IN
          \/ /\ f = g
             /\ Return(t, pc, c, IF fds[f].kind # "unused" THEN "ok" ELSE "fails", <<>>, {})
          \/ /\ f # g
             /\ pc' = [pc EXCEPT ![t] = IF fds[g].kind # "unused" THEN "d2close" ELSE "d2clone"]
             /\ call' = [call EXCEPT ![t] = c]
             /\ last' = Nothing
    BY <1>2 DEF Dup2Look
  <2>2. UNCHANGED <<fds, Bytes>> /\ Inside[t] = Channels!NoCall
    BY <1>2, NotInside DEF Dup2Look, Bytes, Contents
  <2>3. PICK c : c = Asked("dup2", f, g) /\ c = Channels!Asked("dup2", f, g)
    BY DEF Asked, Channels!Asked
  <2>4. IF f = g
          THEN Channels!Return(t, c, IF Channels!Free(f) THEN "fails" ELSE "ok", <<>>, {})
          ELSE Channels!Stay(t, IF Channels!Free(g) THEN c ELSE [c EXCEPT !.op = "replace"])
    <3>1. CASE f = g
      <4>1. PICK what : what = (IF fds[f].kind # "unused" THEN "ok" ELSE "fails")
        OBVIOUS
      <4>2. Channels!Return(t, c, what, <<>>, {})
        BY <1>1, <2>1, <2>3, <3>1, <4>1, ReturnMaps
      <4>3. what = IF Channels!Free(f) THEN "fails" ELSE "ok"
        BY <1>1, <4>1, FreeIs
      <4> QED  BY <3>1, <4>2, <4>3
    <3>2. CASE f # g
      <4>1. PICK at : at = (IF fds[g].kind # "unused" THEN "d2close" ELSE "d2clone")
        OBVIOUS
      <4>2. Channels!Stay(t, IF at = "d2close" THEN [c EXCEPT !.op = "replace"] ELSE c)
        BY <1>1, <2>1, <2>3, <3>2, <4>1, StayMaps
      <4>3. at = "d2close" <=> ~Channels!Free(g)
        BY <1>1, <4>1, FreeIs
      <4> QED  BY <3>2, <4>2, <4>3
    <3> QED  BY <3>1, <3>2
  <2>5. LET d == Channels!Asked("dup2", f, g) IN
        IF f = g
          THEN Channels!Return(t, d, IF Channels!Free(f) THEN "fails" ELSE "ok", <<>>, {})
          ELSE Channels!Stay(t, IF Channels!Free(g) THEN d ELSE [d EXCEPT !.op = "replace"])
    BY <2>3, <2>4 DEF Channels!Return, Channels!Stay
  <2>6. Channels!Dup2(t)
    BY <2>2, <2>5, Zenon DEF Channels!Dup2, Inside, Bytes
  <2> QED  BY <2>6
<1>3. CASE Dup2Close(t)
  <2>1. PICK g \in Fds, c \in Locals : c = call[t] /\ g = c.count /\ c.op = "dup2"
    BY <1>1, <1>3 DEF Dup2Close, TypeOK, Pending
  <2>2. /\ IF fds[g].kind # "unused"
             THEN CloseSlot(g) /\ pc' = [WakeAll(pc) EXCEPT ![t] = "d2clone"]
             ELSE pc' = [pc EXCEPT ![t] = "d2clone"] /\ UNCHANGED <<fds, pipes>>
        /\ last' = Nothing /\ call' = [call EXCEPT ![t] = c]
    BY <1>1, <1>3, <2>1 DEF Dup2Close, TypeOK
  <2>3. Inside[t] = [c EXCEPT !.op = "replace"]
    BY <1>3, <2>1 DEF Inside, Serving, Dup2Close
  <2>4. Channels!Stay(t, c)
    <3>1. \E p \in {pc, WakeAll(pc)} : pc' = [p EXCEPT ![t] = "d2clone"]
      BY <2>2
    <3>2. Channels!Stay(t, IF "d2clone" = "d2close" THEN [c EXCEPT !.op = "replace"] ELSE c)
      BY <1>1, <2>2, <3>1, StayMaps
    <3> QED  BY <3>2 DEF Channels!Stay
  <2>5. IF Channels!Free(g) THEN UNCHANGED <<fds, Bytes>> ELSE Channels!Shutting(g)
    <3>1. CASE fds[g].kind # "unused"
      BY <2>2, <3>1, ShutMaps
    <3>2. CASE fds[g].kind = "unused"
      BY <1>1, <2>2, <3>2, FreeIs DEF Bytes, Contents
    <3> QED  BY <3>1, <3>2
  <2>6. /\ Inside[t].op = "replace" /\ Inside[t].count = g
        /\ [Inside[t] EXCEPT !.op = "dup2"] = c
    <3>1. c \in [op : {"none", "read", "write", "dup2"}, fd : Fds, pipe : Addrs \cup {NoAddr},
                 count : Nat, total : Nat]
      BY DEF Locals
    <3>2. c = [op |-> "dup2", fd |-> c.fd, pipe |-> c.pipe, count |-> g, total |-> c.total]
      BY <2>1, <3>1
    <3>3. Inside[t] = [op |-> "replace", fd |-> c.fd, pipe |-> c.pipe, count |-> g,
                       total |-> c.total]
      BY <2>3, <3>2
    <3> QED  BY <3>2, <3>3
  <2>7. IF Channels!Free(Inside[t].count) THEN UNCHANGED <<fds, Bytes>>
        ELSE Channels!Shutting(Inside[t].count)
    <3>1. Inside[t].count = g
      BY <2>6
    <3>2. Channels!Free(Inside[t].count) <=> Channels!Free(g)
      BY <3>1 DEF Channels!Free
    <3>3. Channels!Shutting(Inside[t].count) <=> Channels!Shutting(g)
      BY <3>1, Zenon DEF Channels!Shutting
    <3> QED  BY <2>5, <3>2, <3>3, Zenon
  <2>8. Channels!Stay(t, [Inside[t] EXCEPT !.op = "dup2"])
    BY <2>4, <2>6, Zenon
  <2>9. Inside[t].op = "replace"
    BY <2>6
  <2>10. Channels!Replace(t)
    BY <2>7, <2>8, <2>9, Zenon DEF Channels!Replace, Inside, Bytes
  <2> QED  BY <2>10
<1>4. CASE Dup2Clone(t)
  <2>1. PICK f \in Fds, g \in Fds, c \in Locals :
          c = call[t] /\ f = c.fd /\ g = c.count /\ c.op = "dup2"
    BY <1>1, <1>4 DEF Dup2Clone, TypeOK, Locals, Pending
  <2>2. \/ /\ fds[f].kind = "unused"
           /\ Return(t, pc, c, "badf", <<>>, {}) /\ UNCHANGED <<fds, pipes>>
        \/ /\ fds[f].kind # "unused" /\ fds[g].kind # "unused"
           /\ Return(t, pc, c, "busy", <<>>, {}) /\ UNCHANGED <<fds, pipes>>
        \/ /\ fds[f].kind # "unused" /\ fds[g].kind = "unused"
           /\ Clone(f, g)
           /\ Return(t, pc, c, "ok", <<>>, {})
    BY <1>4, <2>1 DEF Dup2Clone
  <2>3. Inside[t] = c
    BY <1>4, <2>1 DEF Inside, Serving, Dup2Clone
  <2>4. IF Channels!Free(f) THEN Channels!Fail(t, c, "badf")
        ELSE IF ~Channels!Free(g) THEN Channels!Fail(t, c, "busy")
        ELSE Channels!Copied(f, g) /\ Channels!Return(t, c, "ok", <<>>, {})
    <3>1. /\ Channels!Free(f) <=> fds[f].kind = "unused"
          /\ Channels!Free(g) <=> fds[g].kind = "unused"
      BY <1>1, FreeIs
    <3> QED  BY <1>1, <2>2, <3>1, FailMaps, CloneMaps, ReturnMaps
  <2>5. PICK d : d = Inside[t]
    OBVIOUS
  <2>6. d.op = "dup2" /\ d.fd = f /\ d.count = g /\ d = c
    BY <2>1, <2>3, <2>5
  <2>7. IF Channels!Free(d.fd) THEN Channels!Fail(t, d, "badf")
        ELSE IF ~Channels!Free(d.count) THEN Channels!Fail(t, d, "busy")
        ELSE Channels!Copied(d.fd, d.count) /\ Channels!Return(t, d, "ok", <<>>, {})
    BY <2>4, <2>6
  <2>8. Channels!Copy(t)
    BY <2>5, <2>6, <2>7, Zenon DEF Channels!Copy, Inside
  <2> QED  BY <2>8
<1> QED  BY <1>2, <1>3, <1>4

\* fcntl(F_SETFL) is a SetFlags, which fails on a free descriptor.
LEMMA SetFlMaps ==
  ASSUME IInv, NEW t \in Threads, SetFl(t)
  PROVE  Channels!SetFlags(t)
<1>1. PICK f \in Fds, n \in {0, 1} :
        IF fds[f].kind # "unused"
          THEN /\ fds' = [fds EXCEPT ![f].nonblock = (n = 1)]
               /\ Return(t, pc, Asked("setfl", f, n), "ok", <<>>, {})
          ELSE Return(t, pc, Asked("setfl", f, n), "badf", <<>>, {}) /\ UNCHANGED fds
  BY DEF SetFl
<1>2. TypeOK /\ pc[t] = "idle" /\ Inside[t] = Channels!NoCall /\ UNCHANGED pipes
  BY NotInside DEF SetFl, IInv
<1>3. PICK c : c = Asked("setfl", f, n) /\ c = Channels!Asked("setfl", f, n)
  BY DEF Asked, Channels!Asked
<1>4. Channels!Free(f) <=> fds[f].kind = "unused"
  BY <1>2, FreeIs
<1>5. CASE Channels!Free(f)
  <2>1. Channels!Fail(t, c, "badf")
    BY <1>1, <1>2, <1>3, <1>4, <1>5, FailMaps
  <2>2. Channels!Fail(t, Channels!Asked("setfl", f, n), "badf")
    BY <1>3, <2>1 DEF Channels!Fail, Channels!Return
  <2> QED  BY <1>2, <1>5, <2>2, Zenon DEF Channels!SetFlags, Inside
<1>6. CASE ~Channels!Free(f)
  <2>1. fds' = [fds EXCEPT ![f].nonblock = (n = 1)] /\ Return(t, pc, c, "ok", <<>>, {})
    BY <1>1, <1>3, <1>4, <1>6
  <2>2. Channels!Return(t, c, "ok", <<>>, {})
    BY <1>2, <2>1, ReturnMaps
  <2>3. Channels!Return(t, Channels!Asked("setfl", f, n), "ok", <<>>, {})
    BY <1>3, <2>2 DEF Channels!Return
  <2>4. Bytes' = Bytes
    BY <1>2 DEF Bytes, Contents
  <2> QED  BY <1>2, <1>6, <2>1, <2>3, <2>4, Zenon DEF Channels!SetFlags, Bytes, Inside
<1> QED  BY <1>5, <1>6

\* What fakefd_ready reports is what the ends and the bytes say.
LEMMA ReadyMaps ==
  ASSUME IInv, NEW t \in Threads, Ready(t)
  PROVE  Channels!Ready(t)
<1>1. PICK f \in Fds : Return(t, pc, Asked("poll", f, 0), "ready", <<>>, ReadyFlags(f))
  BY DEF Ready
<1>2. /\ TypeOK /\ RefcountsExact /\ pc[t] = "idle"
      /\ UNCHANGED <<fds, pipes>>
  BY DEF Ready, IInv
<1>3. ReadyFlags(f) =
        CASE fds[f].kind = "read" ->
               (IF Bytes[fds[f].pipe] # <<>> \/ Channels!Ends("write", fds[f].pipe) = {}
                  THEN {"read"} ELSE {})
               \cup (IF Channels!Ends("write", fds[f].pipe) = {} THEN {"hup"} ELSE {})
          [] fds[f].kind = "write" ->
               IF Channels!Ends("read", fds[f].pipe) = {} THEN {"err", "hup"}
               ELSE IF Len(Bytes[fds[f].pipe]) < Cap THEN {"write"} ELSE {}
          [] OTHER -> {"err"}
  <2>1. CASE fds[f].kind # "unused"
    <3>1. PICK a \in Addrs : a = fds[f].pipe /\ pipes[a].live
      BY <1>2, <2>1, OpenEntry, NamedIsLive
    <3>2. /\ Bytes[a] = <<>> <=> pipes[a].length = 0
          /\ Len(Bytes[a]) = pipes[a].length
          /\ pipes[a].readers = 0 <=> Channels!Ends("read", a) = {}
          /\ pipes[a].writers = 0 <=> Channels!Ends("write", a) = {}
      BY <1>2, <3>1, BytesIs, NoEnds
    <3>3. fds[f].kind \in Sides
      BY <1>2, <2>1, OpenEntry
    <3>4. CASE fds[f].kind = "read"
      BY <3>1, <3>2, <3>4 DEF ReadyFlags
    <3>5. CASE fds[f].kind = "write"
      BY <3>1, <3>2, <3>5 DEF ReadyFlags
    <3> QED  BY <3>3, <3>4, <3>5 DEF Sides
  <2>2. CASE fds[f].kind = "unused"
    BY <2>2 DEF ReadyFlags
  <2> QED  BY <2>1, <2>2
<1>4. ReadyFlags(f) = Channels!ReadyFlags(f)
  BY <1>3, Zenon DEF Channels!ReadyFlags, Bytes
<1>5. Channels!Return(t, Channels!Asked("poll", f, 0), "ready", <<>>, Channels!ReadyFlags(f))
  <2>1. PICK flags, c : /\ flags = ReadyFlags(f) /\ flags = Channels!ReadyFlags(f)
                        /\ c = Asked("poll", f, 0) /\ c = Channels!Asked("poll", f, 0)
    BY <1>4 DEF Asked, Channels!Asked
  <2>2. Channels!Return(t, c, "ready", <<>>, flags)
    BY <1>1, <1>2, <2>1, ReturnMaps
  <2> QED  BY <2>1, <2>2 DEF Channels!Return
<1>6. UNCHANGED <<fds, Bytes>> /\ Inside[t] = Channels!NoCall
  BY <1>2, NotInside DEF Bytes, Contents
<1> QED  BY <1>5, <1>6, Zenon DEF Channels!Ready, Bytes, Inside

\* One thread moves on, and what it is inside of next is as Pending says.
LEMMA PendingKept ==
  ASSUME TypeOK, Pending, NEW t \in Threads, NEW p \in {pc, WakeAll(pc)}, NEW at, NEW c,
         pc' = [p EXCEPT ![t] = at], call' = [call EXCEPT ![t] = c],
         at \in {"wait", "woken"} => c.op \in Sides /\ c.total < c.count,
         at \in {"d2close", "d2clone"} => c.op = "dup2"
  PROVE  Pending'
<1>1. /\ p \in [Threads -> PCs] /\ call \in [Threads -> Locals]
      /\ \A u \in Threads : p[u] = pc[u] \/ (pc[u] = "wait" /\ p[u] = "woken")
  BY DEF TypeOK, WakeAll, PCs
<1>2. \A u \in Threads \ {t} : pc'[u] = p[u] /\ call'[u] = call[u]
  BY <1>1
<1>3. pc'[t] = at /\ call'[t] = c
  BY <1>1
<1>4. ASSUME NEW u \in Threads \ {t}
      PROVE  /\ pc'[u] \in {"wait", "woken"} =>
                  call'[u].op \in Sides /\ call'[u].total < call'[u].count
             /\ pc'[u] \in {"d2close", "d2clone"} => call'[u].op = "dup2"
  BY <1>1, <1>2 DEF Pending
<1> QED  BY <1>3, <1>4 DEF Pending

\* A write goes to sleep only with bytes left to go.
LEMMA BodyPending ==
  ASSUME TypeOK, Pending, NEW t \in Threads, NEW c \in Locals, c.op \in Sides,
         c.pipe \in Addrs, c.total < c.count, Body(t, c)
  PROVE  Pending'
<1>1. ASSUME NEW p \in {pc, WakeAll(pc)}, NEW d, NEW what, NEW bytes, Return(t, p, d, what, bytes, {})
      PROVE  Pending'
  <2>1. pc' = [p EXCEPT ![t] = "idle"] /\ call' = [call EXCEPT ![t] = NoCall]
    BY <1>1 DEF Return
  <2> QED  BY <2>1, PendingKept
<1>2. ASSUME NEW p \in {pc, WakeAll(pc)}, NEW d, Wait(t, p, d),
             d.op \in Sides, d.total < d.count
      PROVE  Pending'
  <2>1. pc' = [p EXCEPT ![t] = "wait"] /\ call' = [call EXCEPT ![t] = d]
    BY <1>2 DEF Wait
  <2> QED  BY <1>2, <2>1, PendingKept
<1>3. CASE c.op = "read"
  BY <1>1, <1>2, <1>3 DEF Body, ReadBody
<1>4. CASE c.op = "write"
  <2> DEFINE n == Lesser(c.count - c.total, Cap - pipes[c.pipe].length)
             d == [c EXCEPT !.total = c.total + n]
  <2>1. c.count \in Nat /\ c.total \in Nat /\ pipes[c.pipe].length \in 0 .. Cap
    BY DEF Locals, TypeOK, PipeState
  <2>2. n \in Int /\ n <= c.count - c.total
    BY <2>1, FakeFdAssumption DEF Lesser
  <2>3. d.op = c.op /\ d.total = c.total + n /\ d.count = c.count
    BY DEF Locals
  <2>4. c.total + n # c.count => d.total < d.count
    <3> HIDE DEF n, d
    <3> QED  BY <2>1, <2>2, <2>3
  <2>5. \/ \E p \in {pc, WakeAll(pc)} : \E what, bytes : Return(t, p, c, what, bytes, {})
        \/ Wait(t, pc, c)
        \/ c.total + n # c.count /\ Wait(t, WakeAll(pc), d)
    BY <1>4 DEF Body, WriteBody
  <2> HIDE DEF n, d
  <2>6. CASE c.total + n # c.count /\ Wait(t, WakeAll(pc), d)
    BY <1>2, <2>3, <2>4, <2>6
  <2> QED  BY <1>1, <1>2, <2>5, <2>6
<1> QED  BY <1>3, <1>4 DEF Sides

\* Every step keeps the calls that are between two sections what they are.
LEMMA PendingStep == IInv /\ Pending /\ [Next]_vars => Pending'
<1> SUFFICES ASSUME IInv, Pending, [Next]_vars PROVE Pending'
  OBVIOUS
<1>1. TypeOK
  BY DEF IInv
<1>2. ASSUME NEW t \in Threads, NEW p \in {pc, WakeAll(pc)}, NEW c, NEW what, NEW bytes,
             NEW flags, Return(t, p, c, what, bytes, flags)
      PROVE  Pending'
  <2>1. pc' = [p EXCEPT ![t] = "idle"] /\ call' = [call EXCEPT ![t] = NoCall]
    BY <1>2 DEF Return
  <2> QED  BY <1>1, <2>1, PendingKept
<1>3. ASSUME NEW t \in Threads, Begin(t) PROVE Pending'
  <2>1. PICK op \in Sides, f \in Fds, n \in 1 .. MaxCount :
          LET c == [op |-> op, fd |-> f, pipe |-> fds[f].pipe, count |-> n, total |-> 0]
          IN  IF fds[f].kind = op /\ c.pipe # NoAddr THEN Body(t, c)
              ELSE Return(t, pc, c, "badf", <<>>, {}) /\ UNCHANGED pipes
    BY <1>3 DEF Begin, Sides
  <2> DEFINE c == [op |-> op, fd |-> f, pipe |-> fds[f].pipe, count |-> n, total |-> 0]
  <2>2. c \in Locals /\ c.op = op /\ c.total < c.count /\ c.pipe = fds[f].pipe
    BY <1>1, FakeFdAssumption DEF Locals, Sides, TypeOK, Entry, Unused
  <2>3. CASE fds[f].kind = op /\ Body(t, c)
    <3>1. fds[f].pipe \in Addrs
      BY <1>1, <2>3, OpenEntry DEF Sides
    <3> HIDE DEF c
    <3> QED  BY <1>1, <2>2, <2>3, <3>1, BodyPending
  <2>4. CASE Return(t, pc, c, "badf", <<>>, {})
    BY <1>2, <2>4
  <2> QED  BY <2>1, <2>3, <2>4
<1>4. ASSUME NEW t \in Threads, Resume(t) PROVE Pending'
  <2>1. PICK c : c = call[t]
    OBVIOUS
  <2>2. /\ c \in Locals /\ c.op \in Sides /\ c.total < c.count
        /\ IF Names(c.fd, c.op, c.pipe) THEN Body(t, c)
           ELSE Return(t, pc, c, "badf", <<>>, {}) /\ UNCHANGED pipes
    BY <1>1, <1>4, <2>1 DEF Resume, TypeOK, Pending
  <2>3. CASE Names(c.fd, c.op, c.pipe) /\ Body(t, c)
    <3>1. c.fd \in Fds /\ fds[c.fd].kind # "unused" /\ fds[c.fd].pipe = c.pipe
      BY <2>2, <2>3 DEF Locals, Names, Sides
    <3>2. c.pipe \in Addrs
      BY <1>1, <3>1, OpenEntry
    <3> QED  BY <1>1, <2>2, <2>3, <3>2, BodyPending
  <2>4. CASE Return(t, pc, c, "badf", <<>>, {})
    BY <1>2, <2>4
  <2> QED  BY <2>2, <2>3, <2>4
<1>5. ASSUME NEW t \in Threads, Dup2Look(t) PROVE Pending'
  <2>1. PICK f \in Fds, g \in Fds :
          LET c == Asked("dup2", f, g) IN
          \/ \E what : Return(t, pc, c, what, <<>>, {})
          \/ /\ pc' = [pc EXCEPT ![t] = IF fds[g].kind # "unused" THEN "d2close" ELSE "d2clone"]
             /\ call' = [call EXCEPT ![t] = c]
    BY <1>5 DEF Dup2Look
  <2>2. Asked("dup2", f, g).op = "dup2"
    BY DEF Asked
  <2> QED  BY <1>1, <1>2, <2>1, <2>2, PendingKept
<1>6. ASSUME NEW t \in Threads, Dup2Close(t) PROVE Pending'
  <2>1. \E p \in {pc, WakeAll(pc)} : pc' = [p EXCEPT ![t] = "d2clone"]
    BY <1>6 DEF Dup2Close
  <2>2. call' = [call EXCEPT ![t] = call[t]]
    BY <1>1, <1>6 DEF Dup2Close, TypeOK
  <2>3. call[t].op = "dup2"
    BY <1>6 DEF Dup2Close, Pending
  <2> QED  BY <1>1, <2>1, <2>2, <2>3, PendingKept
<1>7. CASE UNCHANGED vars
  BY <1>7 DEF vars, Pending
<1>8. ASSUME NEW t \in Threads, Pipe(t) \/ PipeFails(t) \/ Close(t) \/ Dup(t) PROVE Pending'
  BY <1>2, <1>8 DEF Pipe, PipeFails, Close, Dup
<1>9. ASSUME NEW t \in Threads, Dup2Clone(t) \/ SetFl(t) \/ Ready(t) PROVE Pending'
  BY <1>2, <1>9 DEF Dup2Clone, SetFl, Ready
<1> QED  BY <1>3, <1>4, <1>5, <1>6, <1>7, <1>8, <1>9 DEF Next

\* No pipe is open and no thread inside of a call at first.
LEMMA InitMaps == Init => Channels!Init /\ Pending
<1> SUFFICES ASSUME Init PROVE Channels!Init /\ Pending
  OBVIOUS
<1>1. fds = [f \in Fds |-> Channels!Shut]
  BY DEF Init, Unused, Channels!Shut
<1>2. Bytes = [a \in Addrs |-> <<>>]
  <2>1. \A a \in Addrs : ~pipes[a].live
    BY DEF Init, Zeroed
  <2> QED  BY <2>1 DEF Bytes
<1>3. Inside = [t \in Threads |-> Channels!NoCall]
  BY DEF Init, Inside, Serving, NoCall, Asked, Channels!NoCall, Channels!Asked
<1>4. last = Channels!Nothing
  BY DEF Init, Nothing, Result, NoCall, Asked,
         Channels!Nothing, Channels!Result, Channels!NoCall, Channels!Asked
<1>5. Pending
  BY DEF Init, Pending
<1> QED  BY <1>1, <1>2, <1>3, <1>4, <1>5, Zenon DEF Channels!Init, Bytes, Inside

\* Every step of the emulated pipes is one of the channels.
LEMMA StepMaps ==
  IInv /\ Pending /\ [Next]_vars => [Channels!Next]_<<fds, Bytes, Inside, last>>
<1> SUFFICES ASSUME IInv, Pending, [Next]_vars
             PROVE  Channels!Next \/ UNCHANGED <<fds, Bytes, Inside, last>>
  OBVIOUS
<1>1. CASE UNCHANGED vars
  BY <1>1 DEF vars, Bytes, Inside, Serving, Contents
<1>2. ASSUME NEW t \in Threads,
             \/ Pipe(t) \/ PipeFails(t) \/ Begin(t) \/ Resume(t) \/ Close(t)
             \/ Dup(t) \/ Dup2Look(t) \/ Dup2Close(t) \/ Dup2Clone(t) \/ SetFl(t) \/ Ready(t)
      PROVE  \/ Channels!BadTransfer(t) \/ Channels!Recv(t) \/ Channels!Send(t)
             \/ Channels!Open(t) \/ Channels!Close(t) \/ Channels!Dup(t) \/ Channels!Dup2(t)
             \/ Channels!Replace(t) \/ Channels!Copy(t) \/ Channels!SetFlags(t)
             \/ Channels!Ready(t)
  BY <1>2, PipeMaps, PipeFailsMaps, BeginMaps, ResumeMaps, CloseCallMaps, DupMaps, Dup2Maps,
     SetFlMaps, ReadyMaps
<1>3. CASE Next
  BY <1>2, <1>3 DEF Next, Channels!Next
<1> QED  BY <1>1, <1>3

\* The ring buffers, the counts and the condition variable are bounded FIFO channels: no byte
\* is lost, doubled or reordered by any interleaving of sleepers, closers and dup2s, and every
\* call of source/fakefd.c returns and changes what its arguments and the open ends decide:
\* end of file, EPIPE, EAGAIN, EBADF and EMFILE exactly when they say so.
THEOREM ChannelsImplemented == Spec => ImplementsChannels
<1>1. Init => Channels!Init /\ Pending
  BY InitMaps
<1>2. IInv /\ Pending /\ [Next]_vars => Pending'
  BY PendingStep
<1>3. IInv /\ Pending /\ [Next]_vars => [Channels!Next]_<<fds, Bytes, Inside, last>>
  BY StepMaps
<1> QED  BY <1>1, <1>2, <1>3, Invariance, PTL
         DEF Spec, ImplementsChannels, Channels!Spec, Channels!cvars, Bytes, Inside
=============================================================================
