---------------------------- MODULE PipeChannels ----------------------------
(***************************************************************************)
(* What the emulated pipes promise the guest: a pipe is a bounded FIFO of   *)
(* bytes reached through read ends and write ends.  There are no reference  *)
(* counts, no ring buffer and no condition variable here: whether a pipe    *)
(* has readers or writers is read off the set of open ends, and a pipe with *)
(* no end left holds nothing.                                               *)
(***************************************************************************)
EXTENDS Integers, Sequences

CONSTANTS Threads, Fds, Addrs, NoAddr, Cap, MaxCount

VARIABLES
  ends,   \* for each descriptor: [kind, pipe, nonblock]
  queue,  \* for each pipe: its bytes
  call,   \* for each thread: the call it is inside of
  last    \* the call that ended in this step, and what it returned

cvars == <<ends, queue, call, last>>

Shut == [kind |-> "unused", pipe |-> NoAddr, nonblock |-> FALSE]
Asked(op, f, n) == [op |-> op, fd |-> f, pipe |-> NoAddr, count |-> n, total |-> 0]
NoCall == Asked("none", 0, 0)
Result(c, what, value, flags) ==
  [call |-> c, what |-> what, value |-> value, flags |-> flags]
Nothing == Result(NoCall, "none", <<>>, {})

Ends(kind, a) == {f \in Fds : ends[f].kind = kind /\ ends[f].pipe = a}
InUse(a) == \E f \in Fds : ends[f].pipe = a
Free(f) == ends[f] = Shut
\* A call that needs a descriptor gets the lowest free one from min on.
Lowest(f, min) == f >= min /\ Free(f) /\ \A g \in Fds : min <= g /\ Free(g) => f <= g

\* The k-th byte of a write is k, so the bytes still to go are known.
Payload(c) == [k \in 1 .. c.count - c.total |-> c.total + k]

Init ==
  /\ ends = [f \in Fds |-> Shut]
  /\ queue = [a \in Addrs |-> <<>>]
  /\ call = [t \in Threads |-> NoCall]
  /\ last = Nothing

\* The read or write t is blocked in, or any it may begin.
Calls(t, op) ==
  IF call[t] # NoCall
    THEN {c \in {call[t]} : c.op = op}
    ELSE {[op |-> op, fd |-> f, pipe |-> ends[f].pipe, count |-> n, total |-> 0] :
            f \in Fds, n \in 1 .. MaxCount}

\* A read needs an end of kind "read", a write one of kind "write", and a call
\* that was blocked the pipe it was blocked on.
Valid(c) == ends[c.fd].kind = c.op /\ ends[c.fd].pipe = c.pipe

Return(t, c, what, value, flags) ==
  /\ call' = [call EXCEPT ![t] = NoCall]
  /\ last' = Result(c, what, value, flags)

\* The call fails, and that is all it does.
Fail(t, c, what) == Return(t, c, what, <<>>, {}) /\ UNCHANGED <<ends, queue>>

Stay(t, c) ==
  /\ call' = [call EXCEPT ![t] = c]
  /\ last' = Nothing

BadTransfer(t) ==
  \E op \in {"read", "write"} : \E c \in Calls(t, op) : ~Valid(c) /\ Fail(t, c, "badf")

\* A read returns the oldest bytes, end of file, EAGAIN, or blocks.
Recv(t) ==
  \E c \in Calls(t, "read") :
    /\ Valid(c)
    /\ LET q == queue[c.pipe]
           n == IF c.count < Len(q) THEN c.count ELSE Len(q)
       IN  IF q # <<>>
             THEN /\ queue' = [queue EXCEPT ![c.pipe] = SubSeq(q, n + 1, Len(q))]
                  /\ Return(t, c, "data", SubSeq(q, 1, n), {})
             ELSE /\ UNCHANGED queue
                  /\ IF Ends("write", c.pipe) = {}
                       THEN Return(t, c, "eof", <<>>, {})
                       ELSE IF ends[c.fd].nonblock
                              THEN Return(t, c, "again", <<>>, {}) ELSE Stay(t, c)
    /\ UNCHANGED ends

\* A write appends what fits, in order, and blocks only on a full pipe that
\* somebody may still read.
Send(t) ==
  \E c \in Calls(t, "write") :
    /\ Valid(c)
    /\ LET q == queue[c.pipe]
           free == Cap - Len(q)
           n == IF c.count - c.total < free THEN c.count - c.total ELSE free
           sent == [k \in 1 .. c.total + n |-> k]
       IN  IF Ends("read", c.pipe) = {}
             THEN /\ UNCHANGED queue
                  /\ IF c.total > 0 THEN Return(t, c, "wrote", [k \in 1 .. c.total |-> k], {})
                                    ELSE Return(t, c, "pipe", <<>>, {})
             ELSE /\ queue' = [queue EXCEPT ![c.pipe] = q \o SubSeq(Payload(c), 1, n)]
                  /\ \/ /\ c.total + n = c.count \/ (ends[c.fd].nonblock /\ c.total + n > 0)
                        /\ Return(t, c, "wrote", sent, {})
                     \/ /\ c.total + n = 0 /\ ends[c.fd].nonblock
                        /\ Return(t, c, "again", <<>>, {})
                     \/ /\ c.total + n < c.count /\ ~ends[c.fd].nonblock
                        /\ Stay(t, [c EXCEPT !.total = c.total + n])
    /\ UNCHANGED ends

\* Memory may run out at any time.
Open(t) ==
  LET c == Asked("pipe", 0, 0) IN
  /\ call[t] = NoCall
  /\ IF \E r, w \in Fds : r # w /\ Free(r) /\ Free(w)
       THEN \/ Fail(t, c, "nomem")
            \/ \E r, w \in Fds, a \in Addrs :
                 /\ Lowest(r, 0) /\ Lowest(w, r + 1) /\ ~InUse(a)
                 /\ ends' = [ends EXCEPT
                               ![r] = [kind |-> "read", pipe |-> a, nonblock |-> FALSE],
                               ![w] = [kind |-> "write", pipe |-> a, nonblock |-> FALSE]]
                 /\ UNCHANGED queue
                 /\ Return(t, c, "ok", <<r, w>>, {})
       ELSE Fail(t, c, "mfile")

\* The last end to close takes the bytes with it.
Shutting(f) ==
  /\ ends' = [ends EXCEPT ![f] = Shut]
  /\ queue' = IF \E g \in Fds \ {f} : ends[g].pipe = ends[f].pipe
                THEN queue ELSE [queue EXCEPT ![ends[f].pipe] = <<>>]

Close(t) ==
  /\ call[t] = NoCall
  /\ \E f \in Fds :
       LET c == Asked("close", f, 0) IN
       IF Free(f) THEN Fail(t, c, "badf") ELSE Shutting(f) /\ Return(t, c, "ok", <<>>, {})

Copied(f, g) == ends' = [ends EXCEPT ![g] = ends[f]] /\ UNCHANGED queue

Dup(t) ==
  /\ call[t] = NoCall
  /\ \E f, min \in Fds :
       LET c == Asked("dup", f, min) IN
       \/ Free(f) /\ Fail(t, c, "badf")
       \/ ~Free(f) /\ (\A g \in Fds : g >= min => ~Free(g)) /\ Fail(t, c, "mfile")
       \/ /\ ~Free(f)
          /\ \E g \in Fds : Lowest(g, min) /\ Copied(f, g) /\ Return(t, c, "ok", <<g>>, {})

\* dup2 is three steps: it begins and sees whether newfd must be closed first;
\* it closes newfd if it is open still; it copies oldfd if newfd is free still.
Dup2(t) ==
  /\ call[t] = NoCall
  /\ \E f, g \in Fds :
       LET c == Asked("dup2", f, g) IN
       IF f = g THEN Return(t, c, IF Free(f) THEN "fails" ELSE "ok", <<>>, {})
                ELSE Stay(t, IF Free(g) THEN c ELSE [c EXCEPT !.op = "replace"])
  /\ UNCHANGED <<ends, queue>>

Replace(t) ==
  LET c == call[t] IN
  /\ c.op = "replace"
  /\ IF Free(c.count) THEN UNCHANGED <<ends, queue>> ELSE Shutting(c.count)
  /\ Stay(t, [c EXCEPT !.op = "dup2"])

Copy(t) ==
  LET c == call[t] IN
  /\ c.op = "dup2"
  /\ IF Free(c.fd) THEN Fail(t, c, "badf")
     ELSE IF ~Free(c.count) THEN Fail(t, c, "busy")
     ELSE Copied(c.fd, c.count) /\ Return(t, c, "ok", <<>>, {})

SetFlags(t) ==
  /\ call[t] = NoCall
  /\ \E f \in Fds, n \in {0, 1} :
       LET c == Asked("setfl", f, n) IN
       IF Free(f) THEN Fail(t, c, "badf")
       ELSE /\ ends' = [ends EXCEPT ![f].nonblock = (n = 1)]
            /\ UNCHANGED queue
            /\ Return(t, c, "ok", <<>>, {})

ReadyFlags(f) ==
  LET e == ends[f] IN
  CASE e.kind = "read" ->
         (IF queue[e.pipe] # <<>> \/ Ends("write", e.pipe) = {} THEN {"read"} ELSE {})
         \cup (IF Ends("write", e.pipe) = {} THEN {"hup"} ELSE {})
    [] e.kind = "write" ->
         IF Ends("read", e.pipe) = {} THEN {"err", "hup"}
         ELSE IF Len(queue[e.pipe]) < Cap THEN {"write"} ELSE {}
    [] OTHER -> {"err"}

Ready(t) ==
  /\ call[t] = NoCall
  /\ \E f \in Fds : Return(t, Asked("poll", f, 0), "ready", <<>>, ReadyFlags(f))
  /\ UNCHANGED <<ends, queue>>

Next == \E t \in Threads :
  \/ BadTransfer(t) \/ Recv(t) \/ Send(t) \/ Open(t) \/ Close(t)
  \/ Dup(t) \/ Dup2(t) \/ Replace(t) \/ Copy(t) \/ SetFlags(t) \/ Ready(t)

Spec == Init /\ [][Next]_cvars
=============================================================================
