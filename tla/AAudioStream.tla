----------------------------- MODULE AAudioStream -----------------------------
(***************************************************************************)
(* The AAudio bridge of source/aaudio_bridge.c: streams that share the one  *)
(* audout device, each driven by one guest thread (open, requestStart,      *)
(* requestStop, close) and, between start and stop, by an output thread     *)
(* that fills and re-appends the device's buffers.  The two share the       *)
(* stream's fields without a lock, so every step below reads or writes      *)
(* them once.                                                               *)
(*                                                                          *)
(* audout is external: a service opened by a counted guard, a queue of      *)
(* buffers that play while it is started, and a flush that forgets all      *)
(* buffers, but only of a stopped device.                                   *)
(*                                                                          *)
(* audout_owner_lock_init is left out: the first open is taken to have made *)
(* the lock before a second one begins (two at once may both make it).      *)
(***************************************************************************)
EXTENDS Integers, FiniteSets

CONSTANTS
  Streams,   \* streams, each with the guest thread that controls it
  NoStream,  \* NULL
  NBuf       \* NX_AUDOUT_BUFFER_COUNT

ASSUME AAudioAssumption ==
  /\ NoStream \notin Streams
  /\ NBuf \in Nat \ {0}

VARIABLES
  st,     \* the shared fields of each stream
  ctl,    \* where each controlling thread is, and whether inside close
  out,    \* the output thread of each stream, with its locals
  owner,  \* g_audout_owner
  dev,    \* the audout service
  quit    \* jni_quit_requested

vars == <<st, ctl, out, owner, dev, quit>>

Bufs(s) == {s} \X (1 .. NBuf)

Closed == [state |-> "closed", stop |-> FALSE, started |-> FALSE,
           exited |-> FALSE, playing |-> FALSE]
NoThread == [pc |-> "none", i |-> 0, why |-> "boot", drained |-> 0]

At(s, pc) == ctl[s].at = pc
Goto(s, pc) == ctl' = [ctl EXCEPT ![s].at = pc]
Running(s) == out[s].pc \notin {"none", "gone"}

Init ==
  /\ st = [s \in Streams |-> Closed]
  /\ ctl = [s \in Streams |-> [at |-> "closed", closing |-> FALSE]]
  /\ out = [s \in Streams |-> NoThread]
  /\ owner = NoStream
  /\ dev = [sessions |-> 0, on |-> FALSE, queued |-> {}, done |-> {}]
  /\ quit = FALSE

-----------------------------------------------------------------------------
(***************************************************************************)
(* audout.                                                                  *)
(***************************************************************************)
\* audoutFlushAudioOutBuffers.
Flushed(d) == IF d.on THEN d ELSE [d EXCEPT !.queued = {}, !.done = {}]

\* Mutant: the device is flushed without being stopped first.
FlushedOnly(d) == Flushed(d)

\* audoutStopAudioOut and then a flush, as open, start, recovery, the end of
\* the output thread and close all do.
Silenced(d) == Flushed([d EXCEPT !.on = FALSE])

DevicePlays ==
  /\ dev.on
  /\ \E b \in dev.queued :
       dev' = [dev EXCEPT !.queued = dev.queued \ {b}, !.done = dev.done \cup {b}]
  /\ UNCHANGED <<st, ctl, out, owner, quit>>

\* The system stops the device, which the output thread's recovery expects.
DeviceStops ==
  /\ dev.on
  /\ dev' = [dev EXCEPT !.on = FALSE]
  /\ UNCHANGED <<st, ctl, out, owner, quit>>

Quit ==
  /\ ~quit
  /\ quit' = TRUE
  /\ UNCHANGED <<st, ctl, out, owner, dev>>

-----------------------------------------------------------------------------
(***************************************************************************)
(* aaudio_bridge_builder_open_stream.  An open that is refused, or whose    *)
(* audoutInitialize fails, changes nothing.                                 *)
(***************************************************************************)
\* Mutant: a stream is opened although another one owns the device.
MayClaimAny(s) == At(s, "closed")

MayClaim(s) == At(s, "closed") /\ owner = NoStream

OpenClaim(s) ==
  /\ MayClaim(s)
  /\ owner' = s
  /\ dev' = [Silenced(dev) EXCEPT !.sessions = dev.sessions + 1]
  /\ Goto(s, "claimed")
  /\ UNCHANGED <<st, out, quit>>

OpenDone(s) ==
  /\ At(s, "claimed")
  /\ st' = [st EXCEPT ![s].state = "open"]
  /\ Goto(s, "idle")
  /\ UNCHANGED <<out, owner, dev, quit>>

\* No memory for the output buffers: give the device back, then close audout.
OpenNoMemory(s) ==
  /\ At(s, "claimed")
  /\ owner' = IF owner = s THEN NoStream ELSE owner
  /\ Goto(s, "exit")
  /\ UNCHANGED <<st, out, dev, quit>>

\* audoutExit, and free.
ExitAudout(s) ==
  /\ At(s, "exit")
  /\ dev' = [dev EXCEPT !.sessions = dev.sessions - 1]
  /\ st' = [st EXCEPT ![s] = Closed]
  /\ ctl' = [ctl EXCEPT ![s] = [at |-> "closed", closing |-> FALSE]]
  /\ UNCHANGED <<out, owner, quit>>

-----------------------------------------------------------------------------
(***************************************************************************)
(* aaudio_bridge_stream_request_start.                                      *)
(***************************************************************************)
\* bionic_pthread_join of the output thread.
Joined(s) ==
  /\ out[s].pc = "gone"
  /\ out' = [out EXCEPT ![s] = NoThread]

StartReap(s) ==
  /\ At(s, "idle")
  /\ st[s].started /\ st[s].exited
  /\ Goto(s, "reap")
  /\ UNCHANGED <<st, out, owner, dev, quit>>

StartReaped(s) ==
  /\ At(s, "reap")
  /\ Joined(s)
  /\ st' = [st EXCEPT ![s].started = FALSE, ![s].exited = FALSE]
  /\ Goto(s, "start")
  /\ UNCHANGED <<owner, dev, quit>>

\* A start that is refused changes nothing; after a reap it never is.
MayStart(s) ==
  /\ At(s, "idle") \/ At(s, "start")
  /\ ~st[s].started
  /\ st[s].state \in {"open", "stopped"}

StartReset(s) ==
  /\ MayStart(s)
  /\ st' = [st EXCEPT ![s].stop = FALSE, ![s].exited = FALSE,
                      ![s].state = "starting", ![s].playing = FALSE]
  /\ dev' = IF st[s].playing THEN Silenced(dev) ELSE Flushed(dev)
  /\ Goto(s, "create")
  /\ UNCHANGED <<out, owner, quit>>

StartCreate(s) ==
  /\ At(s, "create")
  /\ out' = [out EXCEPT ![s] = [NoThread EXCEPT !.pc = "boot"]]
  /\ Goto(s, "publish")
  /\ UNCHANGED <<st, owner, dev, quit>>

StartFails(s) ==
  /\ At(s, "create")
  /\ st' = [st EXCEPT ![s].state = "open"]
  /\ Goto(s, "idle")
  /\ UNCHANGED <<out, owner, dev, quit>>

\* pthread_id and thread_started are stored after the thread exists.
StartPublish(s) ==
  /\ At(s, "publish")
  /\ st' = [st EXCEPT ![s].started = TRUE]
  /\ Goto(s, "idle")
  /\ UNCHANGED <<out, owner, dev, quit>>

-----------------------------------------------------------------------------
(***************************************************************************)
(* aaudio_bridge_stream_request_stop, alone or as the first thing close     *)
(* does.                                                                    *)
(***************************************************************************)
StopBegin(s, closing) ==
  /\ At(s, "idle")
  /\ st[s].started
  /\ st' = [st EXCEPT ![s].state = "stopping"]
  /\ ctl' = [ctl EXCEPT ![s] = [at |-> "stop", closing |-> closing]]
  /\ UNCHANGED <<out, owner, dev, quit>>

StopFlag(s) ==
  /\ At(s, "stop")
  /\ st' = [st EXCEPT ![s].stop = TRUE]
  /\ Goto(s, "join")
  /\ UNCHANGED <<out, owner, dev, quit>>

StopJoin(s) ==
  /\ At(s, "join")
  /\ Joined(s)
  /\ st' = [st EXCEPT ![s].started = FALSE, ![s].exited = FALSE, ![s].state = "stopped"]
  /\ Goto(s, IF ctl[s].closing THEN "close" ELSE "idle")
  /\ UNCHANGED <<owner, dev, quit>>

-----------------------------------------------------------------------------
(***************************************************************************)
(* aaudio_bridge_stream_close.                                              *)
(***************************************************************************)
CloseSilence(s) ==
  /\ At(s, "close") \/ (At(s, "idle") /\ ~st[s].started)
  /\ st' = [st EXCEPT ![s].state = "closing"]
  /\ dev' = Silenced(dev)
  /\ Goto(s, "release")
  /\ UNCHANGED <<out, owner, quit>>

CloseRelease(s) ==
  /\ At(s, "release")
  /\ owner' = IF owner = s THEN NoStream ELSE owner
  /\ Goto(s, "exit")
  /\ UNCHANGED <<st, out, dev, quit>>

-----------------------------------------------------------------------------
(***************************************************************************)
(* aaudio_output_thread.                                                    *)
(***************************************************************************)
\* Go on at pc, where none of the locals is read any more.
Step(s, pc) == out' = [out EXCEPT ![s] = [NoThread EXCEPT !.pc = pc]]
Enough(s) == st[s].stop \/ quit

\* Mutant: a new thread forgets an earlier request to stop.
FreshForgets(f) == [f EXCEPT !.exited = FALSE, !.stop = FALSE]

\* The stream's fields after the thread's first store.
Fresh(f) == [f EXCEPT !.exited = FALSE]

Boot(s) ==
  /\ out[s].pc = "boot"
  /\ st' = [st EXCEPT ![s] = Fresh(st[s])]
  /\ Step(s, "booted")
  /\ UNCHANGED <<ctl, owner, dev, quit>>

Booted(s) ==
  /\ out[s].pc = "booted"
  /\ st' = [st EXCEPT ![s].state = "started"]
  /\ out' = [out EXCEPT ![s] = [pc |-> "prime", i |-> 1, why |-> "boot", drained |-> 0]]
  /\ UNCHANGED <<ctl, owner, dev, quit>>

\* prime_audout gives up: the callback asked to stop, or append or start failed
\* (then error_callback is told).  After a failed append in the loop the thread
\* asks itself to stop, otherwise it leaves at once.
PrimeGivesUp(s) ==
  IF out[s].why = "append"
    THEN /\ st' = [st EXCEPT ![s].stop = TRUE]
         /\ Step(s, "loop")
    ELSE /\ Step(s, "end")
         /\ UNCHANGED st

Primed(s) == out[s].i > NBuf

\* fill_and_append on the next buffer of prime_audout.
PrimeFill(s) ==
  /\ out[s].pc = "prime" /\ ~Primed(s)
  /\ \/ PrimeGivesUp(s) /\ UNCHANGED dev
     \/ /\ dev' = [dev EXCEPT !.queued = dev.queued \cup {<<s, out[s].i>>}]
        /\ out' = [out EXCEPT ![s].i = out[s].i + 1]
        /\ UNCHANGED st
  /\ UNCHANGED <<ctl, owner, quit>>

PrimeStart(s) ==
  /\ out[s].pc = "prime" /\ Primed(s)
  /\ \/ PrimeGivesUp(s) /\ UNCHANGED dev
     \/ /\ dev' = [dev EXCEPT !.on = TRUE]
        /\ st' = [st EXCEPT ![s].playing = TRUE]
        /\ Step(s, "loop")
  /\ UNCHANGED <<ctl, owner, quit>>

LoopTest(s) ==
  /\ out[s].pc = "loop"
  /\ Step(s, IF Enough(s) THEN "end" ELSE "wait")
  /\ UNCHANGED <<st, ctl, owner, dev, quit>>

\* recover_audout, up to its prime_audout.
Recover(s, why) ==
  /\ dev' = Silenced(dev)
  /\ st' = [st EXCEPT ![s].playing = FALSE]
  /\ out' = [out EXCEPT ![s] = [pc |-> "prime", i |-> 1, why |-> why, drained |-> 0]]

\* The device hands a played buffer back; i remembers which.
Fetch(s, drained) ==
  /\ \E b \in dev.done :
       /\ dev' = [dev EXCEPT !.done = dev.done \ {b}]
       /\ out' = [out EXCEPT ![s].pc = "fill", ![s].i = b[2], ![s].drained = drained]
  /\ UNCHANGED st

\* Mutant: only a device that runs and is silent is recovered, not one that
\* has stopped.
MayRecoverRunning(s) == ~Enough(s) /\ dev.on

\* A failed wait finds the device stopped, or silent for NX_AUDOUT_RECOVERY_US.
MayRecover(s) == ~Enough(s)

\* audoutWaitPlayFinish returns a buffer; or succeeds without one, or fails, and
\* the loop goes on (with a device that has stopped, too, if the wait succeeded
\* or the state query failed); or it fails and the thread looks at the stop flag
\* and leaves, or recovers the device.
WaitPlay(s) ==
  /\ out[s].pc = "wait"
  /\ \/ Fetch(s, 0)
     \/ Step(s, "loop") /\ UNCHANGED <<st, dev>>
     \/ Enough(s) /\ Step(s, "end") /\ UNCHANGED <<st, dev>>
     \/ MayRecover(s) /\ Recover(s, "wait")
  /\ UNCHANGED <<ctl, owner, quit>>

\* What the loop does when a buffer cannot be appended.
AppendFails(s) == Recover(s, "append")

\* fill_and_append on a played buffer.
Fill(s) ==
  /\ out[s].pc = "fill"
  /\ \/ Enough(s) /\ Step(s, "loop") /\ UNCHANGED <<st, dev>>
     \/ /\ ~Enough(s)
        /\ \/ /\ st' = [st EXCEPT ![s].stop = TRUE]
              /\ Step(s, "loop")
              /\ UNCHANGED dev
           \/ AppendFails(s)
           \/ /\ dev' = [dev EXCEPT !.queued = dev.queued \cup {<<s, out[s].i>>}]
              /\ out' = [out EXCEPT ![s].drained = out[s].drained + 1,
                           ![s].pc = IF out[s].drained + 1 < NBuf THEN "next" ELSE "loop"]
              /\ UNCHANGED st
  /\ UNCHANGED <<ctl, owner, quit>>

\* audoutGetReleasedAudioOutBuffer: another buffer, none, or a failure.
NextReleased(s) ==
  /\ out[s].pc = "next"
  /\ \/ Fetch(s, out[s].drained)
     \/ Step(s, "loop") /\ UNCHANGED <<st, dev>>
  /\ UNCHANGED <<ctl, owner, quit>>

\* Mutant: the thread leaves without stopping the device.
LeftPlaying(s) == dev

\* The device after the thread's last calls.
LeftSilent(s) == IF st[s].playing THEN Silenced(dev) ELSE Flushed(dev)

EndSilence(s) ==
  /\ out[s].pc = "end"
  /\ dev' = LeftSilent(s)
  /\ st' = [st EXCEPT ![s].playing = FALSE]
  /\ Step(s, "ended")
  /\ UNCHANGED <<ctl, owner, quit>>

EndState(s) ==
  /\ out[s].pc = "ended"
  /\ st' = [st EXCEPT ![s].state = "stopped"]
  /\ Step(s, "leave")
  /\ UNCHANGED <<ctl, owner, dev, quit>>

\* thread_exited is stored, and the thread returns.
EndExit(s) ==
  /\ out[s].pc = "leave"
  /\ st' = [st EXCEPT ![s].exited = TRUE]
  /\ Step(s, "return")
  /\ UNCHANGED <<ctl, owner, dev, quit>>

EndReturn(s) ==
  /\ out[s].pc = "return"
  /\ Step(s, "gone")
  /\ UNCHANGED <<st, ctl, owner, dev, quit>>

-----------------------------------------------------------------------------
Finish(s) == OpenDone(s) \/ OpenNoMemory(s) \/ ExitAudout(s)
  \/ StartReaped(s) \/ (At(s, "start") /\ StartReset(s))
  \/ StartCreate(s) \/ StartFails(s) \/ StartPublish(s)
  \/ StopFlag(s) \/ StopJoin(s)
  \/ (At(s, "close") /\ CloseSilence(s)) \/ CloseRelease(s)

Begin(s) == OpenClaim(s) \/ StartReap(s) \/ (At(s, "idle") /\ StartReset(s))
  \/ StopBegin(s, TRUE) \/ StopBegin(s, FALSE) \/ (At(s, "idle") /\ CloseSilence(s))

Output(s) == Boot(s) \/ Booted(s) \/ PrimeFill(s) \/ PrimeStart(s)
  \/ LoopTest(s) \/ WaitPlay(s) \/ Fill(s) \/ NextReleased(s)
  \/ EndSilence(s) \/ EndState(s) \/ EndExit(s) \/ EndReturn(s)

Next ==
  \/ \E s \in Streams : Begin(s) \/ Finish(s) \/ Output(s)
  \/ DevicePlays \/ DeviceStops \/ Quit

Spec == Init /\ [][Next]_vars

\* A stopped device is recovered.
Regain(s) == ~dev.on /\ WaitPlay(s) /\ out'[s].pc = "prime"

\* A thread inside a call goes on with it, the guest's callbacks return, and
\* the output thread is scheduled.  Nobody is obliged to start another call,
\* and the device need not play.  But a stopped one, which plays no buffer and
\* so has none to report, does not make wait after wait succeed without a
\* buffer: waits on it fail, and the state query, or in the end the time since
\* the last release, has it recovered.
FairSpec ==
  /\ Spec
  /\ \A s \in Streams : WF_vars(Finish(s)) /\ WF_vars(Output(s)) /\ SF_vars(Regain(s))

-----------------------------------------------------------------------------
(***************************************************************************)
(* Properties.                                                              *)
(***************************************************************************)
AllBufs == UNION {Bufs(s) : s \in Streams}

\* The type invariant.
TypeOK ==
  /\ st \in [Streams -> [state : {"closed", "open", "starting", "started",
                                  "stopping", "stopped", "closing"},
                         stop : BOOLEAN, started : BOOLEAN,
                         exited : BOOLEAN, playing : BOOLEAN]]
  /\ ctl \in [Streams -> [at : {"closed", "claimed", "exit", "idle", "reap", "start",
                                "create", "publish", "stop", "join", "close", "release"},
                          closing : BOOLEAN]]
  /\ out \in [Streams -> [pc : {"none", "boot", "booted", "prime", "loop", "wait", "fill",
                                "next", "end", "ended", "leave", "return", "gone"},
                          i : 0 .. NBuf + 1, why : {"boot", "wait", "append"},
                          drained : 0 .. NBuf]]
  /\ owner \in Streams \cup {NoStream}
  /\ dev \in [sessions : Int, on : BOOLEAN, queued : SUBSET AllBufs, done : SUBSET AllBufs]
  /\ quit \in BOOLEAN

\* The streams that have audout open: from the claim to audoutExit.
Holders == {s \in Streams : ~At(s, "closed")}
Owners == {s \in Streams : ctl[s].at \notin {"closed", "exit"}}

\* g_audout_owner names the one stream between its claim and its release;
\* audout's guard counts the streams between audoutInitialize and audoutExit,
\* so no close or failed open shuts the service down under another stream;
\* and only the owner's buffers are in the device, which does not play for
\* nobody.
OneOwner ==
  /\ Owners = {owner} \ {NoStream}
  /\ dev.sessions = Cardinality(Holders)
  /\ owner = NoStream => ~dev.on
  /\ dev.queued \cup dev.done \subseteq UNION {Bufs(s) : s \in Owners}

\* After requestStop has returned, after the thread ended by itself and was
\* reaped, and before the first start, no output thread runs, no late store of
\* it changes the state, and the device is stopped and holds no buffer.
StoppedIsQuiet ==
  \A s \in Streams : ctl[s].at \in {"idle", "start", "claimed"} /\ ~st[s].started =>
    /\ out[s].pc = "none"
    /\ At(s, "claimed") \/ st[s].state \in {"open", "stopped"}
    /\ ~st[s].playing /\ ~dev.on /\ dev.queued = {} /\ dev.done = {}

\* The output thread lives between the start that created it and the join:
\* it never runs on a stream that is freed or that another start resets.
ThreadInsideStart ==
  \A s \in Streams : out[s].pc # "none" =>
    ctl[s].at = "publish" \/ (st[s].started /\ ctl[s].at \in {"idle", "reap", "stop", "join"})

\* Whenever no call is in progress on a stream that is not started, its output
\* thread is gone and has left everything quiet, and a thread that runs belongs to
\* a start that is not over.
ThreadConfined == StoppedIsQuiet /\ ThreadInsideStart

InDevice == dev.queued \cup dev.done

\* The thread never fills a buffer the device still holds, and while it goes on
\* the device has all the others: through partial drains, failed appends and
\* recoveries none is appended twice and none is lost.
BuffersInFlight ==
  \A s \in Streams : ~Enough(s) =>
    CASE out[s].pc = "prime" -> InDevice = {<<s, b>> : b \in 1 .. out[s].i - 1}
      [] out[s].pc = "fill"  -> InDevice = Bufs(s) \ {<<s, out[s].i>>}
      [] out[s].pc \in {"loop", "wait", "next"} -> InDevice = Bufs(s)
      [] OTHER -> TRUE

\* requestStop and close come back: the join ends whatever the device and the
\* callbacks do.
StopReturns ==
  \A s \in Streams : At(s, "join") ~> ctl[s].at \in {"idle", "close"}

\* A device that stopped while the output thread serves it is started again,
\* or the thread gives up and ends.
DeviceRestarts ==
  \A s \in Streams : out[s].pc = "wait" /\ ~dev.on ~> dev.on \/ ~Running(s)
=============================================================================
