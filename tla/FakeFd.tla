------------------------------- MODULE FakeFd -------------------------------
(***************************************************************************)
(* The emulated pipes of source/fakefd.c: a table of descriptors, reference *)
(* counted PipeStates with a ring buffer each, one lock and one condition   *)
(* variable for all of them.  Every action is one critical section of       *)
(* g_lock; a call that blocks in condvarWait ends one section and starts    *)
(* another when it is woken, and must look at its descriptor again.         *)
(*                                                                          *)
(* Descriptors are slot numbers (fd - ASNX_FAKE_FD_BASE).  PipeStates are   *)
(* heap addresses: calloc may return one that free has just given back.     *)
(* Byte k of a write has the value k; the FD_CLOEXEC flag is left out, and  *)
(* so is ensure_initialized: the first call is taken to have ended before a  *)
(* second one begins (two first calls at once would both make the lock).    *)
(***************************************************************************)
EXTENDS Integers, Sequences, FiniteSets

CONSTANTS
  Threads,   \* guest threads
  NFds,      \* ASNX_FAKE_FD_COUNT
  Addrs,     \* where a PipeState may be allocated
  NoAddr,    \* NULL
  Cap,       \* PIPE_CAPACITY
  MaxCount,  \* longest read or write asked for
  Uses       \* which of dup, dup2, setfl and poll the guest uses, beside
             \* pipe, read, write and close

ASSUME FakeFdAssumption ==
  /\ NFds \in Nat \ {0}
  /\ Cap \in Nat \ {0}
  /\ MaxCount \in Nat \ {0}
  /\ NoAddr \notin Addrs

VARIABLES
  fds,    \* g_fds
  pipes,  \* the PipeStates, by address; live means allocated
  pc,     \* what each thread is doing: a condvarWait, or a dup2 half done
  call,   \* the locals of its fakefd_read, fakefd_write or fakefd_dup2
  last    \* the call that ended in this step, and what it returned

vars == <<fds, pipes, pc, call, last>>

Fds == 0 .. NFds - 1

Unused == [kind |-> "unused", pipe |-> NoAddr, nonblock |-> FALSE]
\* A call that is no read or write, with its second argument.
Asked(op, f, n) == [op |-> op, fd |-> f, pipe |-> NoAddr, count |-> n, total |-> 0]
NoCall == Asked("none", 0, 0)

\* What call c returned: 0 or an errno, the bytes or descriptors, poll flags.
Result(c, what, value, flags) ==
  [call |-> c, what |-> what, value |-> value, flags |-> flags]
Nothing == Result(NoCall, "none", <<>>, {})

\* calloc zeroes a new PipeState; a free one is not looked at.
Zeroed(live) == [live |-> live, data |-> [i \in 0 .. Cap - 1 |-> 0],
                 head |-> 0, length |-> 0, readers |-> 0, writers |-> 0]

Init ==
  /\ fds = [f \in Fds |-> Unused]
  /\ pipes = [a \in Addrs |-> Zeroed(FALSE)]
  /\ pc = [t \in Threads |-> "idle"]
  /\ call = [t \in Threads |-> NoCall]
  /\ last = Nothing

-----------------------------------------------------------------------------
\* condvarWakeAll on the one condition variable of the module.
WakeAll(p) == [t \in Threads |-> IF p[t] = "wait" THEN "woken" ELSE p[t]]

\* Call c of thread t ends; p is pc after the wake-ups of this section.
Return(t, p, c, what, value, flags) ==
  /\ pc' = [p EXCEPT ![t] = "idle"]
  /\ call' = [call EXCEPT ![t] = NoCall]
  /\ last' = Result(c, what, value, flags)

\* condvarWait: the locals survive, everything else may change meanwhile.
Wait(t, p, c) ==
  /\ pc' = [p EXCEPT ![t] = "wait"]
  /\ call' = [call EXCEPT ![t] = c]
  /\ last' = Nothing

\* alloc_slot_from(min).
FreeFrom(f, min) ==
  /\ f \in Fds /\ f >= min /\ fds[f].kind = "unused"
  /\ \A g \in Fds : min <= g /\ g < f => fds[g].kind # "unused"
NoneFree(min) == \A g \in Fds : g >= min => fds[g].kind # "unused"

Open(kind, a) == [kind |-> kind, pipe |-> a, nonblock |-> FALSE]

\* fakefd_pipe: both slots and the PipeState, or nothing.
Pipe(t) ==
  /\ pc[t] = "idle"
  /\ \E r, w \in Fds, a \in Addrs :
       /\ FreeFrom(r, 0) /\ r < w /\ FreeFrom(w, r + 1)
       /\ ~pipes[a].live
       /\ fds' = [fds EXCEPT ![r] = Open("read", a), ![w] = Open("write", a)]
       /\ pipes' = [pipes EXCEPT ![a] = [Zeroed(TRUE) EXCEPT !.readers = 1, !.writers = 1]]
       /\ Return(t, pc, Asked("pipe", 0, 0), "ok", <<r, w>>, {})

\* No two slots are free, or calloc fails.
PipeFails(t) ==
  /\ pc[t] = "idle"
  /\ IF \E r, w \in Fds : r # w /\ fds[r].kind = "unused" /\ fds[w].kind = "unused"
       THEN Return(t, pc, Asked("pipe", 0, 0), "nomem", <<>>, {})
       ELSE Return(t, pc, Asked("pipe", 0, 0), "mfile", <<>>, {})
  /\ UNCHANGED <<fds, pipes>>

-----------------------------------------------------------------------------
Lesser(a, b) == IF a < b THEN a ELSE b

\* Mutant: the copy out of the ring never wraps to its start.
TakenNoWrap(p, n) == [k \in 1 .. n |-> p.data[Lesser(p.head + k - 1, Cap - 1)]]

\* The two memcpy of fakefd_read: up to the end of the ring, then its start.
Taken(p, n) ==
  LET first == Lesser(n, Cap - p.head)
  IN  [k \in 1 .. n |-> IF k <= first THEN p.data[p.head + k - 1] ELSE p.data[k - first - 1]]

\* The loop of fakefd_read from its test on, for the locals c.
ReadBody(t, c) ==
  LET p == pipes[c.pipe]
      n == Lesser(c.count, p.length)
  IN  \/ /\ p.length = 0 /\ p.writers # 0
         /\ IF fds[c.fd].nonblock THEN Return(t, pc, c, "again", <<>>, {}) ELSE Wait(t, pc, c)
         /\ UNCHANGED pipes
      \/ /\ p.length = 0 /\ p.writers = 0
         /\ Return(t, pc, c, "eof", <<>>, {})
         /\ UNCHANGED pipes
      \/ /\ p.length > 0
         /\ pipes' = [pipes EXCEPT ![c.pipe].head = (p.head + n) % Cap,
                                   ![c.pipe].length = p.length - n]
         /\ Return(t, WakeAll(pc), c, "data", Taken(p, n), {})

\* The two memcpy of fakefd_write: from the tail to the end, then the start.
Stored(p, done, n) ==
  LET tail  == (p.head + p.length) % Cap
      first == Lesser(n, Cap - tail)
  IN  [i \in 0 .. Cap - 1 |->
         IF tail <= i /\ i < tail + first THEN done + (i - tail) + 1
         ELSE IF i < n - first THEN done + first + i + 1
         ELSE p.data[i]]

Sent(total) == [k \in 1 .. total |-> k]

\* The loop of fakefd_write from its test on.  A section appends at most one
\* chunk: what is left over only comes back to a full ring.
WriteBody(t, c) ==
  LET p == pipes[c.pipe]
      n == Lesser(c.count - c.total, Cap - p.length)
  IN  \/ /\ p.length = Cap /\ p.readers # 0
         /\ IF ~fds[c.fd].nonblock THEN Wait(t, pc, c)
            ELSE IF c.total > 0 THEN Return(t, pc, c, "wrote", Sent(c.total), {})
            ELSE Return(t, pc, c, "again", <<>>, {})
         /\ UNCHANGED pipes
      \/ /\ p.readers = 0
         /\ IF c.total > 0 THEN Return(t, pc, c, "wrote", Sent(c.total), {})
            ELSE Return(t, pc, c, "pipe", <<>>, {})
         /\ UNCHANGED pipes
      \/ /\ p.length < Cap /\ p.readers # 0
         /\ pipes' = [pipes EXCEPT ![c.pipe].data = Stored(p, c.total, n),
                                   ![c.pipe].length = p.length + n]
         /\ IF c.total + n = c.count \/ fds[c.fd].nonblock
              THEN Return(t, WakeAll(pc), c, "wrote", Sent(c.total + n), {})
              ELSE Wait(t, WakeAll(pc), [c EXCEPT !.total = c.total + n])

Body(t, c) == IF c.op = "read" THEN ReadBody(t, c) ELSE WriteBody(t, c)

\* Mutant: a woken call trusts the pipe pointer it went to sleep with.
NamesAnyPipe(f, kind, a) == a # NoAddr

\* The descriptor is open for this kind of call and names pipe a.
Names(f, kind, a) == fds[f].kind = kind /\ fds[f].pipe = a

\* fakefd_read and fakefd_write, up to their return or their first wait.
Begin(t) ==
  /\ pc[t] = "idle"
  /\ \E op \in {"read", "write"}, f \in Fds, n \in 1 .. MaxCount :
       LET c == [op |-> op, fd |-> f, pipe |-> fds[f].pipe, count |-> n, total |-> 0]
       IN  IF fds[f].kind = op /\ c.pipe # NoAddr THEN Body(t, c)
           ELSE Return(t, pc, c, "badf", <<>>, {}) /\ UNCHANGED pipes
  /\ UNCHANGED fds

\* condvarWait returns: the slot must still be what it was.
Resume(t) ==
  /\ pc[t] = "woken"
  /\ LET c == call[t]
     IN  IF Names(c.fd, c.op, c.pipe) THEN Body(t, c)
         ELSE Return(t, pc, c, "badf", <<>>, {}) /\ UNCHANGED pipes
  /\ UNCHANGED fds

-----------------------------------------------------------------------------
\* if (p->readers) --p->readers
Less(n) == IF n > 0 THEN n - 1 ELSE 0

\* Mutant: the last reader frees the pipe although it has writers.
DroppedEarly(p, kind) ==
  LET q == IF kind = "read" THEN [p EXCEPT !.readers = Less(p.readers)]
                            ELSE [p EXCEPT !.writers = Less(p.writers)]
  IN  IF q.readers = 0 THEN Zeroed(FALSE) ELSE q

\* A pipe after fakefd_close dropped one of its ends; the last end frees it.
Dropped(p, kind) ==
  LET q == IF kind = "read" THEN [p EXCEPT !.readers = Less(p.readers)]
                            ELSE [p EXCEPT !.writers = Less(p.writers)]
  IN  IF q.readers = 0 /\ q.writers = 0 THEN Zeroed(FALSE) ELSE q

CloseSlot(f) ==
  LET e == fds[f] IN
  /\ fds' = [fds EXCEPT ![f] = Unused]
  /\ pipes' = [pipes EXCEPT ![e.pipe] = Dropped(pipes[e.pipe], e.kind)]

\* Mutant: closing wakes nobody.
CloseQuiet(t) ==
  /\ pc[t] = "idle"
  /\ \E f \in Fds :
       IF fds[f].kind # "unused"
         THEN CloseSlot(f) /\ Return(t, pc, Asked("close", f, 0), "ok", <<>>, {})
         ELSE /\ Return(t, pc, Asked("close", f, 0), "badf", <<>>, {})
              /\ UNCHANGED <<fds, pipes>>

Close(t) ==
  /\ pc[t] = "idle"
  /\ \E f \in Fds :
       IF fds[f].kind # "unused"
         THEN CloseSlot(f) /\ Return(t, WakeAll(pc), Asked("close", f, 0), "ok", <<>>, {})
         ELSE /\ Return(t, pc, Asked("close", f, 0), "badf", <<>>, {})
              /\ UNCHANGED <<fds, pipes>>

\* A pipe after one of its ends was copied.
Shared(p, kind) ==
  IF kind = "read" THEN [p EXCEPT !.readers = p.readers + 1]
                   ELSE [p EXCEPT !.writers = p.writers + 1]

\* clone_into_slot_locked for a free slot.
Clone(f, g) ==
  LET e == fds[f] IN
  /\ fds' = [fds EXCEPT ![g] = e]
  /\ pipes' = [pipes EXCEPT ![e.pipe] = Shared(pipes[e.pipe], e.kind)]

\* fakefd_dup(fd, min_fd), also reached through fcntl(F_DUPFD).
Dup(t) ==
  /\ pc[t] = "idle"
  /\ \E f \in Fds, min \in Fds :
       LET c == Asked("dup", f, min) IN
       \/ /\ fds[f].kind = "unused"
          /\ Return(t, pc, c, "badf", <<>>, {}) /\ UNCHANGED <<fds, pipes>>
       \/ /\ fds[f].kind # "unused" /\ NoneFree(min)
          /\ Return(t, pc, c, "mfile", <<>>, {}) /\ UNCHANGED <<fds, pipes>>
       \/ /\ fds[f].kind # "unused"
          /\ \E g \in Fds : FreeFrom(g, min) /\ Clone(f, g) /\ Return(t, pc, c, "ok", <<g>>, {})

\* fakefd_dup2 looks at newfd, closes it, and clones oldfd into it: three
\* sections, and other threads run between them.  A descriptor that is dup'ed
\* to itself and not open gets -1 and no errno.
Dup2Look(t) ==
  /\ pc[t] = "idle"
  /\ \E f, g \in Fds :
       LET c == Asked("dup2", f, g) IN
       \/ /\ f = g
          /\ Return(t, pc, c, IF fds[f].kind # "unused" THEN "ok" ELSE "fails", <<>>, {})
       \/ /\ f # g
          /\ pc' = [pc EXCEPT ![t] = IF fds[g].kind # "unused" THEN "d2close" ELSE "d2clone"]
          /\ call' = [call EXCEPT ![t] = c]
          /\ last' = Nothing
  /\ UNCHANGED <<fds, pipes>>

Dup2Close(t) ==
  LET g == call[t].count IN
  /\ pc[t] = "d2close"
  /\ IF fds[g].kind # "unused"
       THEN CloseSlot(g) /\ pc' = [WakeAll(pc) EXCEPT ![t] = "d2clone"]
       ELSE pc' = [pc EXCEPT ![t] = "d2clone"] /\ UNCHANGED <<fds, pipes>>
  /\ last' = Nothing
  /\ UNCHANGED call

Dup2Clone(t) ==
  LET c == call[t]
      f == c.fd
      g == c.count
  IN
  /\ pc[t] = "d2clone"
  /\ \/ /\ fds[f].kind = "unused"
        /\ Return(t, pc, c, "badf", <<>>, {}) /\ UNCHANGED <<fds, pipes>>
     \/ /\ fds[f].kind # "unused" /\ fds[g].kind # "unused"
        /\ Return(t, pc, c, "busy", <<>>, {}) /\ UNCHANGED <<fds, pipes>>
     \/ /\ fds[f].kind # "unused" /\ fds[g].kind = "unused"
        /\ Clone(f, g)
        /\ Return(t, pc, c, "ok", <<>>, {})

\* fcntl(F_SETFL) with (1) or without (0) O_NONBLOCK; the fcntl calls that only
\* read flags change nothing.
SetFl(t) ==
  /\ pc[t] = "idle"
  /\ \E f \in Fds, n \in {0, 1} :
       IF fds[f].kind # "unused"
         THEN /\ fds' = [fds EXCEPT ![f].nonblock = (n = 1)]
              /\ Return(t, pc, Asked("setfl", f, n), "ok", <<>>, {})
         ELSE Return(t, pc, Asked("setfl", f, n), "badf", <<>>, {}) /\ UNCHANGED fds
  /\ UNCHANGED pipes

\* fakefd_ready.
ReadyFlags(f) ==
  LET e == fds[f]
      p == pipes[e.pipe]
  IN  CASE e.kind = "read" ->
             (IF p.length # 0 \/ p.writers = 0 THEN {"read"} ELSE {})
             \cup (IF p.writers = 0 THEN {"hup"} ELSE {})
        [] e.kind = "write" ->
             IF p.readers = 0 THEN {"err", "hup"}
             ELSE IF p.length < Cap THEN {"write"} ELSE {}
        [] OTHER -> {"err"}

Ready(t) ==
  /\ pc[t] = "idle"
  /\ \E f \in Fds : Return(t, pc, Asked("poll", f, 0), "ready", <<>>, ReadyFlags(f))
  /\ UNCHANGED <<fds, pipes>>

Next == \E t \in Threads :
  \/ Pipe(t) \/ PipeFails(t) \/ Begin(t) \/ Resume(t) \/ Close(t)
  \/ "dup" \in Uses /\ Dup(t)
  \/ "dup2" \in Uses /\ (Dup2Look(t) \/ Dup2Close(t) \/ Dup2Clone(t))
  \/ "setfl" \in Uses /\ SetFl(t)
  \/ "poll" \in Uses /\ Ready(t)

Spec == Init /\ [][Next]_vars

\* A woken thread is scheduled and gets the lock in the end; no guest is
\* obliged to make another call.
FairSpec == Spec /\ \A t \in Threads : WF_vars(Resume(t))

-----------------------------------------------------------------------------
(***************************************************************************)
(* Properties.                                                              *)
(***************************************************************************)
Entry == [kind : {"read", "write"}, pipe : Addrs, nonblock : BOOLEAN] \cup {Unused}

PipeState == [live : BOOLEAN, data : [0 .. Cap - 1 -> Nat], head : 0 .. Cap - 1,
              length : 0 .. Cap, readers : Nat, writers : Nat]

Locals == {c \in [op : {"none", "read", "write", "dup2"}, fd : Fds, pipe : Addrs \cup {NoAddr},
                  count : Nat, total : Nat] : c.total <= c.count}

\* The type invariant; length never passes the ring's capacity, a write never
\* counts more bytes than it was given, and a dup2 half done knows newfd.
TypeOK ==
  /\ fds \in [Fds -> Entry]
  /\ pipes \in [Addrs -> PipeState]
  /\ pc \in [Threads -> {"idle", "wait", "woken", "d2close", "d2clone"}]
  /\ call \in [Threads -> Locals]
  /\ \A t \in Threads : pc[t] \in {"d2close", "d2clone"} => call[t].count \in Fds

Refs(kind, a) == {f \in Fds : fds[f].kind = kind /\ fds[f].pipe = a}

\* The reference counts are the numbers of open ends: through close, dup and
\* the three sections of dup2 no end is lost or counted twice, so no
\* descriptor names a freed PipeState and no PipeState outlives its last end.
RefcountsExact ==
  \A a \in Addrs :
    /\ pipes[a].readers = Cardinality(Refs("read", a))
    /\ pipes[a].writers = Cardinality(Refs("write", a))
    /\ pipes[a].live <=> Refs("read", a) \cup Refs("write", a) # {}

MustWait(c) ==
  IF c.op = "read" THEN pipes[c.pipe].length = 0 /\ pipes[c.pipe].writers # 0
                   ELSE pipes[c.pipe].length = Cap /\ pipes[c.pipe].readers # 0

\* No lost wake-up: a call asleep in condvarWait that nobody has woken has an
\* open descriptor on the pipe it went to sleep on, and would have to go to
\* sleep again.  (Only F_SETFL O_NONBLOCK does not wake it; that case sleeps
\* on, as MustWait says.)
NoLostWakeup ==
  \A t \in Threads : pc[t] = "wait" =>
    Names(call[t].fd, call[t].op, call[t].pipe) /\ MustWait(call[t])

\* A woken call dereferences its saved pipe pointer only when the pipe is
\* allocated, although close may have freed it and fakefd_pipe reused it.
NoUseAfterFree ==
  \A t \in Threads :
    pc[t] = "woken" /\ Names(call[t].fd, call[t].op, call[t].pipe) => pipes[call[t].pipe].live

OtherEndGone(c) ==
  IF c.op = "read" THEN pipes[c.pipe].writers = 0 ELSE pipes[c.pipe].readers = 0

\* A read whose last writer closed, or a write whose last reader closed, comes
\* back, unless its pipe was freed and its address given to a new pipe.
HangupEndsCall ==
  \A t \in Threads :
    pc[t] \in {"wait", "woken"} /\ OtherEndGone(call[t])
      ~> pc[t] = "idle" \/ ~OtherEndGone(call[t])

\* The ring buffer, the counts and the condition variable implement bounded
\* FIFO channels: bytes come out once, in the order they went in, and what a call
\* returns and changes is decided by its arguments and the open ends when it
\* ends: end of file, EPIPE, EAGAIN, EBADF and EMFILE exactly when they say so,
\* also in the last section of a dup2 that others have run into.
Contents(p) == [k \in 1 .. p.length |-> p.data[(p.head + k - 1) % Cap]]

\* What a thread is inside of: a dup2 has its newfd to close, or not any more.
Serving(t) ==
  IF pc[t] = "idle" THEN NoCall
  ELSE IF pc[t] = "d2close" THEN [call[t] EXCEPT !.op = "replace"]
  ELSE call[t]

Channels == INSTANCE PipeChannels WITH
  ends <- fds,
  queue <- [a \in Addrs |-> IF pipes[a].live THEN Contents(pipes[a]) ELSE <<>>],
  call <- [t \in Threads |-> Serving(t)]

ImplementsChannels == Channels!Spec
=============================================================================
