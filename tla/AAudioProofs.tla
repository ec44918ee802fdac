---------------------------- MODULE AAudioProofs ----------------------------
(***************************************************************************)
(* For any streams and any number of buffers: the audout device has one     *)
(* owner, its service is shut down by the last to leave, a stream that is   *)
(* stopped is quiet, and no buffer is lost or appended twice.               *)
(***************************************************************************)
EXTENDS AAudioStream, FiniteSetTheorems, TLAPS

States == {"closed", "open", "starting", "started", "stopping", "stopped", "closing"}
Fields == [state : States, stop : BOOLEAN, started : BOOLEAN, exited : BOOLEAN, playing : BOOLEAN]
Places == {"closed", "claimed", "exit", "idle", "reap", "start",
           "create", "publish", "stop", "join", "close", "release"}
PCs == {"none", "boot", "booted", "prime", "loop", "wait", "fill",
        "next", "end", "ended", "leave", "return", "gone"}
Locals == [pc : PCs, i : 0 .. NBuf + 1, why : {"boot", "wait", "append"}, drained : 0 .. NBuf]
Device == [sessions : Int, on : BOOLEAN, queued : SUBSET AllBufs, done : SUBSET AllBufs]

Quiet == ~dev.on /\ dev.queued = {} /\ dev.done = {}

\* Which call the controlling thread may be in while the output thread is where it is.
Phase(s) ==
  /\ out[s].pc # "none" =>
       ctl[s].at = "publish" \/ (st[s].started /\ ctl[s].at \in {"idle", "reap", "stop", "join"})
  /\ st[s].started => ctl[s].at \in {"idle", "reap", "stop", "join"} /\ out[s].pc # "none"
  /\ ctl[s].at \in {"reap", "stop", "join"} => st[s].started
  /\ ctl[s].at = "publish" => out[s].pc # "none"
  /\ st[s].exited => out[s].pc \in {"return", "gone"}
  /\ ctl[s].at = "reap" => st[s].exited
  /\ out[s].pc \in {"leave", "return", "gone"} /\ ctl[s].at \in {"publish", "idle", "reap"} =>
       st[s].state = "stopped"
  /\ ~st[s].started /\ ctl[s].at \in {"idle", "start"} => st[s].state \in {"open", "stopped"}
  /\ ctl[s].at = "closed" => ~st[s].playing
Phases == \A s \in Streams : Phase(s)

\* What the device holds for the stream that owns it.
Served(s) ==
  /\ out[s].pc \in {"none", "boot", "booted", "ended", "leave", "return", "gone"} =>
       Quiet /\ ~st[s].playing
  /\ dev.on => st[s].playing
  /\ InDevice \subseteq Bufs(s)
  /\ out[s].pc = "prime" =>
       /\ ~st[s].playing /\ out[s].i \in 1 .. NBuf + 1
       /\ InDevice = {<<s, b>> : b \in 1 .. out[s].i - 1}
  /\ out[s].pc \in {"wait", "next"} => InDevice = Bufs(s)
  /\ out[s].pc = "fill" => out[s].i \in 1 .. NBuf /\ InDevice = Bufs(s) \ {<<s, out[s].i>>}
  /\ out[s].pc \in {"fill", "next"} => out[s].drained < NBuf
  /\ out[s].pc = "loop" /\ ~Enough(s) => InDevice = Bufs(s)

\* A buffer is not queued and played at once.
Serving ==
  /\ dev.queued \cap dev.done = {}
  /\ owner = NoStream => Quiet
  /\ \A s \in Streams : s = owner => Served(s)

Counted == IsFiniteSet(Holders) /\ dev.sessions = Cardinality(Holders)

Owned == Owners = {owner} \ {NoStream}

\* The type invariant in terms of the sets above.
Typed ==
  /\ st \in [Streams -> Fields] /\ ctl \in [Streams -> [at : Places, closing : BOOLEAN]]
  /\ out \in [Streams -> Locals] /\ owner \in Streams \cup {NoStream}
  /\ dev \in Device /\ quit \in BOOLEAN

IInv == Typed /\ Owned /\ Counted /\ Phases /\ Serving

-----------------------------------------------------------------------------
\* The output thread of s goes on at a place where it has no locals.
LEMMA StepIs ==
  ASSUME AAudioAssumption, Typed, NEW s \in Streams, NEW p \in PCs, Step(s, p)
  PROVE  /\ out' \in [Streams -> Locals] /\ out'[s].pc = p
         /\ \A u \in Streams \ {s} : out'[u] = out[u]
<1>1. [NoThread EXCEPT !.pc = p] \in Locals /\ [NoThread EXCEPT !.pc = p].pc = p
  BY DEF AAudioAssumption, NoThread, Locals
<1> QED  BY <1>1 DEF Step, Typed

\* Storing one field of s.
StoresState(s, v) ==
  /\ st' \in [Streams -> Fields] /\ \A u \in Streams \ {s} : st'[u] = st[u]
  /\ st'[s].state = v /\ st'[s].stop = st[s].stop /\ st'[s].started = st[s].started
  /\ st'[s].exited = st[s].exited /\ st'[s].playing = st[s].playing
StoresExited(s, v) ==
  /\ st' \in [Streams -> Fields] /\ \A u \in Streams \ {s} : st'[u] = st[u]
  /\ st'[s].state = st[s].state /\ st'[s].stop = st[s].stop /\ st'[s].started = st[s].started
  /\ st'[s].exited = v /\ st'[s].playing = st[s].playing
StoresPlaying(s, v) ==
  /\ st' \in [Streams -> Fields] /\ \A u \in Streams \ {s} : st'[u] = st[u]
  /\ st'[s].state = st[s].state /\ st'[s].stop = st[s].stop /\ st'[s].started = st[s].started
  /\ st'[s].exited = st[s].exited /\ st'[s].playing = v
StoresStop(s, v) ==
  /\ st' \in [Streams -> Fields] /\ \A u \in Streams \ {s} : st'[u] = st[u]
  /\ st'[s].state = st[s].state /\ st'[s].stop = v /\ st'[s].started = st[s].started
  /\ st'[s].exited = st[s].exited /\ st'[s].playing = st[s].playing

\* What each kind of store into the shared fields leaves alone.
LEMMA Stores ==
  ASSUME Typed, NEW s \in Streams
  PROVE  /\ \A v \in States : st' = [st EXCEPT ![s].state = v] => StoresState(s, v)
         /\ \A v \in BOOLEAN : /\ st' = [st EXCEPT ![s].exited = v] => StoresExited(s, v)
                               /\ st' = [st EXCEPT ![s].playing = v] => StoresPlaying(s, v)
                               /\ st' = [st EXCEPT ![s].stop = v] => StoresStop(s, v)
<1>1. ASSUME NEW v \in States, st' = [st EXCEPT ![s].state = v] PROVE StoresState(s, v)
  BY <1>1 DEF Typed, Fields, StoresState
<1>2. ASSUME NEW v \in BOOLEAN, st' = [st EXCEPT ![s].exited = v] PROVE StoresExited(s, v)
  BY <1>2 DEF Typed, Fields, StoresExited
<1>3. ASSUME NEW v \in BOOLEAN, st' = [st EXCEPT ![s].playing = v] PROVE StoresPlaying(s, v)
  BY <1>3 DEF Typed, Fields, StoresPlaying
<1>4. ASSUME NEW v \in BOOLEAN, st' = [st EXCEPT ![s].stop = v] PROVE StoresStop(s, v)
  BY <1>4 DEF Typed, Fields, StoresStop
<1> QED  BY <1>1, <1>2, <1>3, <1>4


-----------------------------------------------------------------------------
\* The device after a stop and a flush, and after a flush alone of a stopped one.
IsSilent(d) == d \in Device /\ d.sessions = dev.sessions /\ ~d.on /\ d.queued = {} /\ d.done = {}

\* A device that has been stopped or flushed is silent.
LEMMA SilencedIs ==
  ASSUME dev \in Device
  PROVE  IsSilent(Silenced(dev))
<1> DEFINE d == [dev EXCEPT !.on = FALSE]
<1>1. d \in Device /\ ~d.on /\ d.sessions = dev.sessions
  BY DEF Device
<1>2. Silenced(dev) = [d EXCEPT !.queued = {}, !.done = {}]
  BY <1>1 DEF Silenced, Flushed
<1> HIDE DEF d
<1> QED  BY <1>1, <1>2 DEF IsSilent, Device

LEMMA FlushedIs ==
  ASSUME dev \in Device, ~dev.on
  PROVE  IsSilent(Flushed(dev))
  BY DEF IsSilent, Flushed, Device

\* A stream with an output thread owns the device.
LEMMA ThreadOwns ==
  ASSUME IInv, NEW s \in Streams, out[s].pc # "none"
  PROVE  owner = s /\ Served(s)
<1>1. s \in Owners
  BY DEF IInv, Phases, Phase, Owners
<1>2. owner = s
  BY <1>1 DEF IInv, Owned
<1> QED  BY <1>2 DEF IInv, Serving

\* A step of one stream that neither gets nor gives up the device.
LEMMA StepOfOne ==
  ASSUME IInv, NEW s \in Streams, Typed', owner' = owner, quit' = quit,
         \A u \in Streams \ {s} : st'[u] = st[u] /\ ctl'[u] = ctl[u] /\ out'[u] = out[u],
         ctl'[s].at = "closed" <=> ctl[s].at = "closed",
         ctl'[s].at = "exit" <=> ctl[s].at = "exit",
         dev' = dev \/ (owner = s /\ dev'.sessions = dev.sessions),
         Phase(s)',
         owner = s => Served(s)' /\ dev'.queued \cap dev'.done = {}
  PROVE  IInv'
<1>1. Owners' = Owners /\ Holders' = Holders
  BY DEF Owners, Holders, At
<1>2. Owned' /\ Counted'
  BY <1>1 DEF IInv, Owned, Counted
<1>3. Phases'
  BY DEF IInv, Phases, Phase
<1>4. ASSUME NEW u \in Streams \ {s}, u = owner PROVE Served(u)'
  <2>1. Served(u) /\ dev' = dev /\ st'[u] = st[u] /\ out'[u] = out[u]
    BY <1>4 DEF IInv, Serving
  <2> QED  BY <2>1 DEF Served, Quiet, InDevice, Bufs, Enough
<1>5. Serving'
  <2>1. CASE dev' = dev
    BY <1>4, <2>1 DEF IInv, Serving, Quiet
  <2>2. CASE owner = s
    BY <1>4, <2>2, AAudioAssumption DEF Serving
  <2> QED  BY <2>1, <2>2
<1> QED  BY <1>2, <1>3, <1>5 DEF IInv

-----------------------------------------------------------------------------
\* What the output thread does without the device.
LEMMA OutputAlone ==
  ASSUME AAudioAssumption, IInv, NEW s \in Streams,
         Boot(s) \/ Booted(s) \/ LoopTest(s) \/ EndState(s) \/ EndExit(s) \/ EndReturn(s)
  PROVE  IInv'
<1>0. /\ owner = s /\ Served(s) /\ Phase(s) /\ Typed /\ AAudioAssumption
      /\ dev.queued \cap dev.done = {}
  <2>1. out[s].pc # "none"
    BY DEF Boot, Booted, LoopTest, EndState, EndExit, EndReturn
  <2> QED  BY <2>1, ThreadOwns DEF IInv, Phases, Serving
<1>1. CASE Boot(s)
  <2>1. out[s].pc = "boot" /\ UNCHANGED <<ctl, owner, dev, quit>>
    BY <1>0, <1>1 DEF Boot
  <2>2. StoresExited(s, FALSE)
    BY <1>0, <1>1, Stores DEF Boot, Fresh, Typed
  <2>3. /\ out' \in [Streams -> Locals] /\ out'[s].pc = "booted"
        /\ \A u \in Streams \ {s} : out'[u] = out[u]
    BY <1>0, <1>1, StepIs DEF Boot, PCs
  <2>4. Typed'
    BY <1>0, <2>1, <2>2, <2>3 DEF Typed, StoresExited
  <2>5. Phase(s)'
    BY <1>0, <2>1, <2>2, <2>3 DEF Phase, Typed, StoresExited
  <2>6. Served(s)' /\ dev'.queued \cap dev'.done = {}
    BY <1>0, <2>1, <2>2, <2>3
       DEF Served, Quiet, InDevice, Bufs, Enough, Typed, StoresExited, AAudioAssumption
  <2> QED  BY <1>0, <2>1, <2>2, <2>3, <2>4, <2>5, <2>6, StepOfOne DEF StoresExited
<1>2. CASE Booted(s)
  <2>1. out[s].pc = "booted" /\ UNCHANGED <<ctl, owner, dev, quit>>
    BY <1>0, <1>2 DEF Booted
  <2>2. StoresState(s, "started")
    BY <1>0, <1>2, Stores DEF Booted, States
  <2>3. /\ out' \in [Streams -> Locals] /\ out'[s].pc = "prime" /\ out'[s].i = 1
        /\ {<<s, b>> : b \in 1 .. out'[s].i - 1} = {}
        /\ \A u \in Streams \ {s} : out'[u] = out[u]
    BY <1>0, <1>2 DEF Booted, AAudioAssumption, Typed, Locals, PCs
  <2>4. Typed'
    BY <1>0, <2>1, <2>2, <2>3 DEF Typed, StoresState
  <2>5. Phase(s)'
    BY <1>0, <2>1, <2>2, <2>3 DEF Phase, Typed, StoresState
  <2>6. Quiet' /\ ~st'[s].playing /\ out'[s].i \in 1 .. NBuf + 1
    BY <1>0, <2>1, <2>2, <2>3 DEF Served, Quiet, StoresState, AAudioAssumption
  <2>7. Served(s)' /\ dev'.queued \cap dev'.done = {}
    BY <2>3, <2>6 DEF Served, Quiet, InDevice, Bufs
  <2> QED  BY <1>0, <2>1, <2>2, <2>3, <2>4, <2>5, <2>7, StepOfOne DEF StoresState
<1>3. CASE LoopTest(s)
  <2>1. out[s].pc = "loop" /\ st' = st /\ UNCHANGED <<ctl, owner, dev, quit>>
    BY <1>0, <1>3 DEF LoopTest
  <2>2. /\ out' \in [Streams -> Locals] /\ \A u \in Streams \ {s} : out'[u] = out[u]
        /\ out'[s].pc = IF Enough(s) THEN "end" ELSE "wait"
    BY <1>0, <1>3, StepIs DEF LoopTest, PCs
  <2>3. Typed'
    BY <1>0, <2>1, <2>2 DEF Typed
  <2>4. Phase(s)'
    BY <1>0, <2>1, <2>2 DEF Phase, Typed
  <2>5. Served(s)' /\ dev'.queued \cap dev'.done = {}
    BY <1>0, <2>1, <2>2 DEF Served, Quiet, InDevice, Bufs, Enough, Typed, AAudioAssumption
  <2> QED  BY <1>0, <2>1, <2>2, <2>3, <2>4, <2>5, StepOfOne
<1>4. CASE EndState(s)
  <2>1. out[s].pc = "ended" /\ UNCHANGED <<ctl, owner, dev, quit>>
    BY <1>0, <1>4 DEF EndState
  <2>2. StoresState(s, "stopped")
    BY <1>0, <1>4, Stores DEF EndState, States
  <2>3. /\ out' \in [Streams -> Locals] /\ out'[s].pc = "leave"
        /\ \A u \in Streams \ {s} : out'[u] = out[u]
    BY <1>0, <1>4, StepIs DEF EndState, PCs
  <2>4. Typed'
    BY <1>0, <2>1, <2>2, <2>3 DEF Typed, StoresState
  <2>5. Phase(s)'
    BY <1>0, <2>1, <2>2, <2>3 DEF Phase, Typed, StoresState
  <2>6. Served(s)' /\ dev'.queued \cap dev'.done = {}
    BY <1>0, <2>1, <2>2, <2>3
       DEF Served, Quiet, InDevice, Bufs, Enough, Typed, StoresState, AAudioAssumption
  <2> QED  BY <1>0, <2>1, <2>2, <2>3, <2>4, <2>5, <2>6, StepOfOne DEF StoresState
<1>5. CASE EndExit(s)
  <2>1. out[s].pc = "leave" /\ UNCHANGED <<ctl, owner, dev, quit>>
    BY <1>0, <1>5 DEF EndExit
  <2>2. StoresExited(s, TRUE)
    BY <1>0, <1>5, Stores DEF EndExit
  <2>3. /\ out' \in [Streams -> Locals] /\ out'[s].pc = "return"
        /\ \A u \in Streams \ {s} : out'[u] = out[u]
    BY <1>0, <1>5, StepIs DEF EndExit, PCs
  <2>4. Typed'
    BY <1>0, <2>1, <2>2, <2>3 DEF Typed, StoresExited
  <2>5. Phase(s)'
    BY <1>0, <2>1, <2>2, <2>3 DEF Phase, Typed, StoresExited
  <2>6. Served(s)' /\ dev'.queued \cap dev'.done = {}
    BY <1>0, <2>1, <2>2, <2>3
       DEF Served, Quiet, InDevice, Bufs, Enough, Typed, StoresExited, AAudioAssumption
  <2> QED  BY <1>0, <2>1, <2>2, <2>3, <2>4, <2>5, <2>6, StepOfOne DEF StoresExited
<1>6. CASE EndReturn(s)
  <2>1. out[s].pc = "return" /\ st' = st /\ UNCHANGED <<ctl, owner, dev, quit>>
    BY <1>0, <1>6 DEF EndReturn
  <2>2. /\ out' \in [Streams -> Locals] /\ out'[s].pc = "gone"
        /\ \A u \in Streams \ {s} : out'[u] = out[u]
    BY <1>0, <1>6, StepIs DEF EndReturn, PCs
  <2>3. Typed'
    BY <1>0, <2>1, <2>2 DEF Typed
  <2>4. Phase(s)'
    BY <1>0, <2>1, <2>2 DEF Phase, Typed
  <2>5. Served(s)' /\ dev'.queued \cap dev'.done = {}
    BY <1>0, <2>1, <2>2 DEF Served, Quiet, InDevice, Bufs, Enough, Typed, AAudioAssumption
  <2> QED  BY <1>0, <2>1, <2>2, <2>3, <2>4, <2>5, StepOfOne
<1> QED  BY <1>1, <1>2, <1>3, <1>4, <1>5, <1>6

-----------------------------------------------------------------------------
\* What the output thread of s finds at the beginning of a step.
AtWork(s) ==
  /\ owner = s /\ Served(s) /\ Phase(s) /\ Typed /\ AAudioAssumption
  /\ dev.queued \cap dev.done = {}

\* The calls on the device fail or are not needed: the thread gives up or goes round.
LEMMA GivesUp ==
  ASSUME AAudioAssumption, IInv, NEW s \in Streams, AtWork(s), UNCHANGED <<ctl, owner, dev, quit>>,
         \/ out[s].pc = "prime" /\ PrimeGivesUp(s)
         \/ out[s].pc \in {"wait", "next"} /\ Step(s, "loop") /\ st' = st
         \/ out[s].pc = "wait" /\ Step(s, "end") /\ st' = st
         \/ out[s].pc = "fill" /\ Enough(s) /\ Step(s, "loop") /\ st' = st
         \/ out[s].pc = "fill" /\ st' = [st EXCEPT ![s].stop = TRUE] /\ Step(s, "loop")
  PROVE  IInv'
<1>1. /\ out' \in [Streams -> Locals] /\ \A u \in Streams \ {s} : out'[u] = out[u]
      /\ out'[s].pc \in {"loop", "end"}
  BY StepIs DEF AtWork, PrimeGivesUp, PCs
<1>2. st' = st \/ (StoresStop(s, TRUE) /\ out'[s].pc = "loop")
  BY StepIs, Stores DEF AtWork, PrimeGivesUp, PCs
<1>3. out'[s].pc = "loop" =>
        out[s].pc \in {"wait", "next"} \/ StoresStop(s, TRUE) \/ Enough(s)
  BY StepIs, Stores DEF AtWork, PrimeGivesUp, PCs
<1>4. Typed'
  BY <1>1, <1>2 DEF AtWork, Typed, StoresStop
<1>5. Phase(s)'
  BY <1>1, <1>2 DEF AtWork, Phase, PrimeGivesUp, StoresStop
<1>6. Served(s)'
  BY <1>1, <1>2, <1>3 DEF AtWork, Served, Quiet, InDevice, Bufs, Enough, StoresStop
<1> QED  BY <1>1, <1>2, <1>4, <1>5, <1>6, StepOfOne DEF AtWork, StoresStop

\* A played buffer comes back.
LEMMA Fetches ==
  ASSUME AAudioAssumption, IInv, NEW s \in Streams, AtWork(s), UNCHANGED <<ctl, owner, quit>>,
         NEW n \in 0 .. NBuf, n < NBuf, out[s].pc \in {"wait", "next"}, Fetch(s, n)
  PROVE  IInv'
<1>1. PICK b \in dev.done :
        /\ dev' = [dev EXCEPT !.done = dev.done \ {b}]
        /\ out' = [out EXCEPT ![s].pc = "fill", ![s].i = b[2], ![s].drained = n]
  BY DEF Fetch
<1>2. b[2] \in 1 .. NBuf /\ b = <<s, b[2]>> /\ b[2] \in 0 .. NBuf + 1
  BY DEF AtWork, AAudioAssumption, Served, InDevice, Bufs
<1>3. /\ dev' \in Device /\ dev'.sessions = dev.sessions /\ dev'.on = dev.on
      /\ dev'.queued = dev.queued /\ dev'.done = dev.done \ {b}
  BY <1>1 DEF AtWork, Typed, Device
<1>4. /\ out' \in [Streams -> Locals] /\ \A u \in Streams \ {s} : out'[u] = out[u]
      /\ out'[s].pc = "fill" /\ out'[s].i = b[2] /\ out'[s].drained = n
  <2> HIDE DEF AAudioAssumption
  <2>1. out[s] \in Locals /\ [out[s] EXCEPT !.pc = "fill", !.i = b[2], !.drained = n] \in Locals
    BY <1>2 DEF AtWork, Typed, Locals, PCs
  <2>2. out' = [out EXCEPT ![s] = [out[s] EXCEPT !.pc = "fill", !.i = b[2], !.drained = n]]
    BY <1>1
  <2>3. /\ [out[s] EXCEPT !.pc = "fill", !.i = b[2], !.drained = n].pc = "fill"
        /\ [out[s] EXCEPT !.pc = "fill", !.i = b[2], !.drained = n].i = b[2]
        /\ [out[s] EXCEPT !.pc = "fill", !.i = b[2], !.drained = n].drained = n
    BY <2>1 DEF Locals
  <2> QED  BY <2>1, <2>2, <2>3 DEF AtWork, Typed
<1>5. st' = st
  BY DEF Fetch
<1>6. Typed'
  BY <1>3, <1>4, <1>5 DEF AtWork, Typed
<1>7. Phase(s)'
  BY <1>4, <1>5 DEF AtWork, Phase
<1>8. Served(s)' /\ dev'.queued \cap dev'.done = {}
  <2>1. InDevice = Bufs(s) /\ InDevice' = InDevice \ {b}
    BY <1>3 DEF AtWork, Served, InDevice
  <2>2. InDevice' = Bufs(s) \ {<<s, b[2]>>}
    BY <1>2, <2>1
  <2>3. dev'.on => st'[s].playing
    BY <1>3, <1>5 DEF AtWork, Served
  <2> QED  BY <1>2, <1>3, <1>4, <2>2, <2>3 DEF AtWork, Served, Quiet, InDevice, Bufs
<1> QED  BY <1>3, <1>4, <1>5, <1>6, <1>7, <1>8, StepOfOne DEF AtWork

\* One more buffer is filled and appended while the device is primed.
LEMMA Primes ==
  ASSUME AAudioAssumption, IInv, NEW s \in Streams, AtWork(s), UNCHANGED <<st, ctl, owner, quit>>,
         out[s].pc = "prime", ~Primed(s),
         dev' = [dev EXCEPT !.queued = dev.queued \cup {<<s, out[s].i>>}],
         out' = [out EXCEPT ![s].i = out[s].i + 1]
  PROVE  IInv'
<1>1. out[s].i \in 1 .. NBuf /\ <<s, out[s].i>> \in Bufs(s) /\ <<s, out[s].i>> \in AllBufs
  BY DEF AtWork, AAudioAssumption, Served, Primed, Bufs, AllBufs
<1>2. /\ dev' \in Device /\ dev'.sessions = dev.sessions /\ dev'.on = dev.on
      /\ dev'.queued = dev.queued \cup {<<s, out[s].i>>} /\ dev'.done = dev.done
  BY <1>1 DEF AtWork, Typed, Device
<1>3. /\ out' \in [Streams -> Locals] /\ \A u \in Streams \ {s} : out'[u] = out[u]
      /\ out'[s].pc = "prime" /\ out'[s].i = out[s].i + 1
  <2>1. out[s].i + 1 \in 0 .. NBuf + 1
    BY <1>1 DEF AAudioAssumption
  <2>2. out[s] \in Locals
    BY DEF AtWork, Typed
  <2>3. [out[s] EXCEPT !.i = out[s].i + 1] \in Locals
    BY <2>1, <2>2 DEF Locals
  <2> QED  BY <2>2, <2>3 DEF AtWork, Typed, Locals
<1>4. Typed'
  BY <1>2, <1>3 DEF AtWork, Typed
<1>5. Phase(s)'
  BY <1>3 DEF AtWork, Phase
<1>6. Served(s)' /\ dev'.queued \cap dev'.done = {}
  <2>1. InDevice = {<<s, b>> : b \in 1 .. out[s].i - 1}
    BY DEF AtWork, Served
  <2>2. InDevice' = InDevice \cup {<<s, out[s].i>>}
    BY <1>2 DEF InDevice
  <2>3. 1 .. out'[s].i - 1 = (1 .. out[s].i - 1) \cup {out[s].i}
    BY <1>1, <1>3
  <2>4. InDevice' = {<<s, b>> : b \in 1 .. out'[s].i - 1}
    BY <2>1, <2>2, <2>3
  <2>5. <<s, out[s].i>> \notin InDevice
    BY <1>1, <2>1
  <2>6. out'[s].i \in 1 .. NBuf + 1
    BY <1>1, <1>3 DEF AAudioAssumption
  <2>7. InDevice' \subseteq Bufs(s)
    BY <1>1, <2>2 DEF AtWork, Served
  <2>8. ~dev.on
    BY DEF AtWork, Served
  <2> QED  BY <1>2, <1>3, <2>4, <2>5, <2>6, <2>7, <2>8 DEF AtWork, Served, InDevice
<1> QED  BY <1>2, <1>3, <1>4, <1>5, <1>6, StepOfOne DEF AtWork

\* The primed device is started.
LEMMA Starts ==
  ASSUME AAudioAssumption, IInv, NEW s \in Streams, AtWork(s), UNCHANGED <<ctl, owner, quit>>,
         out[s].pc = "prime", Primed(s), dev' = [dev EXCEPT !.on = TRUE],
         st' = [st EXCEPT ![s].playing = TRUE], Step(s, "loop")
  PROVE  IInv'
<1>1. /\ dev' \in Device /\ dev'.sessions = dev.sessions /\ dev'.on
      /\ dev'.queued = dev.queued /\ dev'.done = dev.done
  BY DEF AtWork, Typed, Device
<1>2. /\ out' \in [Streams -> Locals] /\ \A u \in Streams \ {s} : out'[u] = out[u]
      /\ out'[s].pc = "loop" /\ StoresPlaying(s, TRUE)
  BY StepIs, Stores DEF AtWork, PCs
<1>3. Typed'
  BY <1>1, <1>2 DEF AtWork, Typed, StoresPlaying
<1>4. Phase(s)'
  BY <1>2 DEF AtWork, Phase, StoresPlaying
<1>5. InDevice = Bufs(s) /\ InDevice' = InDevice
  <2>1. out[s].i - 1 = NBuf
    BY DEF AtWork, Served, Primed, AAudioAssumption
  <2>2. InDevice = {<<s, b>> : b \in 1 .. NBuf}
    BY <2>1 DEF AtWork, Served
  <2> QED  BY <1>1, <2>2 DEF InDevice, Bufs
<1>6. Served(s)' /\ dev'.queued \cap dev'.done = {}
  BY <1>1, <1>2, <1>5 DEF AtWork, Served, Bufs, StoresPlaying
<1> QED  BY <1>1, <1>2, <1>3, <1>4, <1>6, StepOfOne DEF AtWork, StoresPlaying

\* The device is stopped and emptied, and primed again.
LEMMA Recovers ==
  ASSUME AAudioAssumption, IInv, NEW s \in Streams, AtWork(s), UNCHANGED <<ctl, owner, quit>>,
         out[s].pc \in {"wait", "fill"}, NEW why \in {"wait", "append"}, Recover(s, why)
  PROVE  IInv'
<1>1. dev' \in Device /\ dev'.sessions = dev.sessions /\ Quiet'
  BY SilencedIs DEF AtWork, Typed, Recover, IsSilent, Quiet
<1>2. StoresPlaying(s, FALSE)
  BY Stores DEF AtWork, Recover
<1>3. /\ out' \in [Streams -> Locals] /\ \A u \in Streams \ {s} : out'[u] = out[u]
      /\ out'[s].pc = "prime" /\ out'[s].i = 1
  BY DEF AtWork, Typed, Recover, Locals, PCs, AAudioAssumption
<1>4. Typed'
  BY <1>1, <1>2, <1>3 DEF AtWork, Typed, StoresPlaying
<1>5. Phase(s)'
  BY <1>2, <1>3 DEF AtWork, Phase, StoresPlaying
<1>6. Served(s)' /\ dev'.queued \cap dev'.done = {}
  <2>1. {<<s, b>> : b \in 1 .. out'[s].i - 1} = {} /\ out'[s].i \in 1 .. NBuf + 1
    BY <1>3 DEF AAudioAssumption
  <2> QED  BY <1>1, <1>2, <1>3, <2>1 DEF Served, Quiet, InDevice, StoresPlaying
<1> QED  BY <1>1, <1>2, <1>3, <1>4, <1>5, <1>6, StepOfOne DEF AtWork, StoresPlaying

\* A played buffer is filled and appended again.
LEMMA Refills ==
  ASSUME AAudioAssumption, IInv, NEW s \in Streams, AtWork(s), UNCHANGED <<st, ctl, owner, quit>>,
         out[s].pc = "fill",
         dev' = [dev EXCEPT !.queued = dev.queued \cup {<<s, out[s].i>>}],
         out' = [out EXCEPT ![s].drained = out[s].drained + 1,
                            ![s].pc = IF out[s].drained + 1 < NBuf THEN "next" ELSE "loop"]
  PROVE  IInv'
<1>1. /\ out[s].i \in 1 .. NBuf /\ <<s, out[s].i>> \in Bufs(s) /\ <<s, out[s].i>> \in AllBufs
      /\ InDevice = Bufs(s) \ {<<s, out[s].i>>}
  BY DEF AtWork, AAudioAssumption, Served, Bufs, AllBufs
<1>2. /\ dev' \in Device /\ dev'.sessions = dev.sessions /\ dev'.on = dev.on
      /\ dev'.queued = dev.queued \cup {<<s, out[s].i>>} /\ dev'.done = dev.done
  BY <1>1 DEF AtWork, Typed, Device
<1>3. /\ out' \in [Streams -> Locals] /\ \A u \in Streams \ {s} : out'[u] = out[u]
      /\ out'[s].pc = "loop" \/ (out'[s].pc = "next" /\ out'[s].drained < NBuf)
  <2> DEFINE pc == IF out[s].drained + 1 < NBuf THEN "next" ELSE "loop"
  <2>1. out[s] \in Locals /\ out[s].drained \in 0 .. NBuf /\ out[s].drained < NBuf
    BY DEF AtWork, Typed, Served, Locals
  <2>2. /\ out[s].drained + 1 \in 0 .. NBuf /\ pc \in PCs
        /\ pc = "loop" \/ (pc = "next" /\ out[s].drained + 1 < NBuf)
    BY <2>1 DEF AAudioAssumption, PCs
  <2>3. out' = [out EXCEPT ![s].drained = out[s].drained + 1, ![s].pc = pc]
    OBVIOUS
  <2> HIDE DEF pc
  <2> DEFINE r == [out[s] EXCEPT !.drained = out[s].drained + 1, !.pc = pc]
  <2>4. r \in Locals /\ r.pc = pc /\ r.drained = out[s].drained + 1
    BY <2>1, <2>2 DEF Locals
  <2>5. out' = [out EXCEPT ![s] = r]
    BY <2>3
  <2> HIDE DEF r
  <2>6. out' \in [Streams -> Locals] /\ out'[s] = r /\ \A u \in Streams \ {s} : out'[u] = out[u]
    <3>1. out \in [Streams -> Locals]
      BY DEF AtWork, Typed
    <3> QED  BY <2>4, <2>5, <3>1
  <2> QED  BY <2>2, <2>4, <2>6
<1>4. Typed'
  BY <1>2, <1>3 DEF AtWork, Typed
<1>5. Phase(s)'
  BY <1>3 DEF AtWork, Phase
<1>6. Served(s)' /\ dev'.queued \cap dev'.done = {}
  <2>1. InDevice' = Bufs(s) /\ <<s, out[s].i>> \notin InDevice
    BY <1>1, <1>2 DEF InDevice
  <2>2. dev'.queued \cap dev'.done = {}
    BY <1>2, <2>1 DEF AtWork, InDevice
  <2>3. dev'.on => st'[s].playing
    BY <1>2 DEF AtWork, Served
  <2> QED  BY <1>3, <2>1, <2>2, <2>3 DEF AtWork, Served, Bufs
<1> QED  BY <1>2, <1>3, <1>4, <1>5, <1>6, StepOfOne DEF AtWork

\* The thread's last calls on the device.
LEMMA Ends ==
  ASSUME AAudioAssumption, IInv, NEW s \in Streams, AtWork(s), EndSilence(s)
  PROVE  IInv'
<1>1. dev' \in Device /\ dev'.sessions = dev.sessions /\ Quiet'
  <2>1. ~st[s].playing => ~dev.on
    BY DEF AtWork, Served
  <2> QED  BY <2>1, SilencedIs, FlushedIs DEF AtWork, Typed, EndSilence, LeftSilent, IsSilent, Quiet
<1>2. StoresPlaying(s, FALSE) /\ out[s].pc = "end" /\ UNCHANGED <<ctl, owner, quit>>
  BY Stores DEF AtWork, EndSilence
<1>3. /\ out' \in [Streams -> Locals] /\ \A u \in Streams \ {s} : out'[u] = out[u]
      /\ out'[s].pc = "ended"
  BY StepIs DEF AtWork, EndSilence, PCs
<1>4. Typed'
  BY <1>1, <1>2, <1>3 DEF AtWork, Typed, StoresPlaying
<1>5. Phase(s)'
  BY <1>2, <1>3 DEF AtWork, Phase, StoresPlaying
<1>6. Served(s)' /\ dev'.queued \cap dev'.done = {}
  BY <1>1, <1>2, <1>3 DEF Served, Quiet, InDevice, StoresPlaying
<1> QED  BY <1>1, <1>2, <1>3, <1>4, <1>5, <1>6, StepOfOne DEF AtWork, StoresPlaying

\* The output thread's steps, all of them between its start and its exit.
LEMMA OutputStep ==
  ASSUME AAudioAssumption, IInv, NEW s \in Streams, Output(s)
  PROVE  IInv'
<1>1. AtWork(s)
  <2>1. out[s].pc # "none"
    BY DEF Output, Boot, Booted, PrimeFill, PrimeStart, LoopTest, WaitPlay, Fill, NextReleased,
           EndSilence, EndState, EndExit, EndReturn
  <2> QED  BY <2>1, ThreadOwns DEF IInv, Phases, Serving, AtWork
<1>2. CASE Boot(s) \/ Booted(s) \/ LoopTest(s) \/ EndState(s) \/ EndExit(s) \/ EndReturn(s)
  BY <1>2, OutputAlone
<1>3. CASE PrimeFill(s)
  <2>1. CASE PrimeGivesUp(s) /\ UNCHANGED dev
    BY <1>1, <1>3, <2>1, GivesUp DEF PrimeFill
  <2>2. CASE ~(PrimeGivesUp(s) /\ UNCHANGED dev)
    BY <1>1, <1>3, <2>2, Primes DEF PrimeFill
  <2> QED  BY <2>1, <2>2
<1>4. CASE PrimeStart(s)
  <2>1. CASE PrimeGivesUp(s) /\ UNCHANGED dev
    BY <1>1, <1>4, <2>1, GivesUp DEF PrimeStart
  <2>2. CASE ~(PrimeGivesUp(s) /\ UNCHANGED dev)
    BY <1>1, <1>4, <2>2, Starts DEF PrimeStart
  <2> QED  BY <2>1, <2>2
<1>5. CASE WaitPlay(s)
  <2>1. CASE Fetch(s, 0)
    <3>1. 0 \in 0 .. NBuf /\ 0 < NBuf
      BY DEF AAudioAssumption
    <3> QED  BY <1>1, <1>5, <2>1, <3>1, Fetches DEF WaitPlay
  <2>2. CASE Recover(s, "wait")
    BY <1>1, <1>5, <2>2, Recovers DEF WaitPlay
  <2>3. CASE ~Fetch(s, 0) /\ ~Recover(s, "wait")
    BY <1>1, <1>5, <2>3, GivesUp DEF WaitPlay
  <2> QED  BY <2>1, <2>2, <2>3
<1>6. CASE Fill(s)
  <2>1. CASE AppendFails(s)
    BY <1>1, <1>6, <2>1, Recovers DEF Fill, AppendFails
  <2>2. CASE st' = st /\ dev' = [dev EXCEPT !.queued = dev.queued \cup {<<s, out[s].i>>}]
             /\ out' = [out EXCEPT ![s].drained = out[s].drained + 1,
                          ![s].pc = IF out[s].drained + 1 < NBuf THEN "next" ELSE "loop"]
    BY <1>1, <1>6, <2>2, Refills DEF Fill
  <2>3. CASE /\ dev' = dev /\ Step(s, "loop")
             /\ (Enough(s) /\ st' = st) \/ st' = [st EXCEPT ![s].stop = TRUE]
    BY <1>1, <1>6, <2>3, GivesUp DEF Fill
  <2> QED  BY <1>6, <2>1, <2>2, <2>3 DEF Fill
<1>7. CASE NextReleased(s)
  <2>1. CASE Fetch(s, out[s].drained)
    <3>1. out[s].drained \in 0 .. NBuf /\ out[s].drained < NBuf
      BY <1>1, <1>7 DEF NextReleased, AtWork, Served, Typed, Locals
    <3> QED  BY <1>1, <1>7, <2>1, <3>1, Fetches DEF NextReleased
  <2>2. CASE ~Fetch(s, out[s].drained)
    BY <1>1, <1>7, <2>2, GivesUp DEF NextReleased
  <2> QED  BY <2>1, <2>2
<1>8. CASE EndSilence(s)
  BY <1>1, <1>8, Ends
<1> QED  BY <1>2, <1>3, <1>4, <1>5, <1>6, <1>7, <1>8 DEF Output

-----------------------------------------------------------------------------
\* A controlling thread inside the life of its stream.
InCall(s) == owner = s /\ Served(s) /\ Phase(s) /\ Typed /\ dev.queued \cap dev.done = {}

\* Between open's claim and close's release the caller owns the device.
LEMMA CallOwns ==
  ASSUME IInv, NEW s \in Streams, ctl[s].at \notin {"closed", "exit"}
  PROVE  InCall(s)
<1>1. s \in Owners
  BY DEF Owners
<1>2. owner = s
  BY <1>1 DEF IInv, Owned
<1> QED  BY <1>2 DEF IInv, Serving, Phases, InCall

\* The controlling thread of s goes on at p.
Goes(s, p) ==
  /\ ctl' \in [Streams -> [at : Places, closing : BOOLEAN]]
  /\ ctl'[s].at = p /\ \A u \in Streams \ {s} : ctl'[u] = ctl[u]

\* The control moved, as a fact about functions.
LEMMA GotoGoes ==
  ASSUME Typed, NEW s \in Streams, NEW p \in Places, Goto(s, p)
  PROVE  Goes(s, p)
  BY DEF Goto, Typed, Goes

\* The output thread of s has been joined.
LEMMA JoinedIs ==
  ASSUME AAudioAssumption, Typed, NEW s \in Streams, Joined(s)
  PROVE  /\ out' \in [Streams -> Locals] /\ out[s].pc = "gone" /\ out'[s].pc = "none"
         /\ \A u \in Streams \ {s} : out'[u] = out[u]
<1>1. NoThread \in Locals /\ NoThread.pc = "none"
  BY DEF AAudioAssumption, NoThread, Locals, PCs
<1> QED  BY <1>1 DEF Joined, Typed

\* Calls that leave the device and the output thread alone.
LEMMA CallAlone ==
  ASSUME AAudioAssumption, IInv, NEW s \in Streams,
         OpenDone(s) \/ StartReap(s) \/ StartFails(s) \/ StartPublish(s) \/ StopFlag(s)
  PROVE  IInv'
<1>0. InCall(s) /\ UNCHANGED <<out, owner, dev, quit>>
  BY CallOwns DEF At, OpenDone, StartReap, StartFails, StartPublish, StopFlag
<1>1. CASE OpenDone(s)
  <2>1. ctl[s].at = "claimed" /\ Goes(s, "idle") /\ StoresState(s, "open")
    BY <1>0, <1>1, GotoGoes, Stores DEF InCall, OpenDone, At, Places, States
  <2>2. Typed'
    BY <1>0, <2>1 DEF InCall, Typed, Goes, StoresState
  <2>3. Phase(s)'
    BY <1>0, <2>1 DEF InCall, Phase, Goes, StoresState
  <2>4. Served(s)' /\ dev'.queued \cap dev'.done = {}
    BY <1>0, <2>1 DEF InCall, Served, Quiet, InDevice, Bufs, Enough, StoresState
  <2> QED  BY <1>0, <2>1, <2>2, <2>3, <2>4, StepOfOne DEF InCall, Goes, StoresState
<1>2. CASE StartReap(s)
  <2>1. /\ ctl[s].at = "idle" /\ st[s].started /\ st[s].exited
        /\ Goes(s, "reap") /\ st' = st
    BY <1>0, <1>2, GotoGoes DEF InCall, StartReap, At, Places
  <2>2. Typed'
    BY <1>0, <2>1 DEF InCall, Typed, Goes
  <2>3. Phase(s)'
    BY <1>0, <2>1 DEF InCall, Phase, Goes
  <2>4. Served(s)' /\ dev'.queued \cap dev'.done = {}
    BY <1>0, <2>1 DEF InCall, Served, Quiet, InDevice, Bufs, Enough
  <2> QED  BY <1>0, <2>1, <2>2, <2>3, <2>4, StepOfOne DEF InCall, Goes
<1>3. CASE StartFails(s)
  <2>1. ctl[s].at = "create" /\ Goes(s, "idle") /\ StoresState(s, "open")
    BY <1>0, <1>3, GotoGoes, Stores DEF InCall, StartFails, At, Places, States
  <2>2. Typed'
    BY <1>0, <2>1 DEF InCall, Typed, Goes, StoresState
  <2>3. Phase(s)'
    BY <1>0, <2>1 DEF InCall, Phase, Goes, StoresState
  <2>4. Served(s)' /\ dev'.queued \cap dev'.done = {}
    BY <1>0, <2>1 DEF InCall, Served, Quiet, InDevice, Bufs, Enough, StoresState
  <2> QED  BY <1>0, <2>1, <2>2, <2>3, <2>4, StepOfOne DEF InCall, Goes, StoresState
<1>4. CASE StartPublish(s)
  <2>1. /\ ctl[s].at = "publish" /\ Goes(s, "idle")
        /\ st' \in [Streams -> Fields] /\ \A u \in Streams \ {s} : st'[u] = st[u]
        /\ st'[s].started /\ st'[s].state = st[s].state /\ st'[s].stop = st[s].stop
        /\ st'[s].exited = st[s].exited /\ st'[s].playing = st[s].playing
    <3>1. Goes(s, "idle")
      BY <1>0, <1>4, GotoGoes DEF InCall, StartPublish, Places
    <3>2. ctl[s].at = "publish"
      BY <1>4 DEF StartPublish, At
    <3> DEFINE f == [st[s] EXCEPT !.started = TRUE]
    <3>3. /\ f \in Fields /\ f.started /\ f.state = st[s].state /\ f.stop = st[s].stop
          /\ f.exited = st[s].exited /\ f.playing = st[s].playing
      <4>1. st[s] \in Fields
        BY <1>0 DEF InCall, Typed
      <4> QED  BY <4>1 DEF Fields
    <3>4. st' = [st EXCEPT ![s] = f]
      BY <1>4 DEF StartPublish
    <3> HIDE DEF f
    <3> QED  BY <1>0, <3>1, <3>2, <3>3, <3>4 DEF InCall, Typed
  <2>2. Typed'
    BY <1>0, <2>1 DEF InCall, Typed, Goes
  <2>3. Phase(s)'
    BY <1>0, <2>1 DEF InCall, Phase, Goes
  <2>4. Served(s)' /\ dev'.queued \cap dev'.done = {}
    BY <1>0, <2>1 DEF InCall, Served, Quiet, InDevice, Bufs, Enough
  <2> QED  BY <1>0, <2>1, <2>2, <2>3, <2>4, StepOfOne DEF InCall, Goes
<1>5. CASE StopFlag(s)
  <2>1. ctl[s].at = "stop" /\ Goes(s, "join") /\ StoresStop(s, TRUE)
    BY <1>0, <1>5, GotoGoes, Stores DEF InCall, StopFlag, At, Places
  <2>2. Typed'
    BY <1>0, <2>1 DEF InCall, Typed, Goes, StoresStop
  <2>3. Phase(s)'
    BY <1>0, <2>1 DEF InCall, Phase, Goes, StoresStop
  <2>4. Served(s)' /\ dev'.queued \cap dev'.done = {}
    BY <1>0, <2>1 DEF InCall, Served, Quiet, InDevice, Bufs, Enough, StoresStop
  <2> QED  BY <1>0, <2>1, <2>2, <2>3, <2>4, StepOfOne DEF InCall, Goes, StoresStop
<1> QED  BY <1>1, <1>2, <1>3, <1>4, <1>5

\* The calls that make, join or silence.
LEMMA CallWithThread ==
  ASSUME AAudioAssumption, IInv, NEW s \in Streams,
         \/ StartReaped(s) \/ StartReset(s) \/ StartCreate(s)
         \/ StopBegin(s, TRUE) \/ StopBegin(s, FALSE) \/ StopJoin(s) \/ CloseSilence(s)
  PROVE  IInv'
<1>0. InCall(s) /\ UNCHANGED <<owner, quit>>
  BY CallOwns
     DEF At, StartReaped, StartReset, MayStart, StartCreate, StopBegin, StopJoin, CloseSilence
<1>1. CASE StartReaped(s)
  <2>1. /\ ctl[s].at = "reap" /\ Goes(s, "start") /\ dev' = dev
        /\ st' \in [Streams -> Fields] /\ \A u \in Streams \ {s} : st'[u] = st[u]
        /\ ~st'[s].started /\ ~st'[s].exited
        /\ st'[s].state = st[s].state /\ st'[s].playing = st[s].playing
    <3>1. Goes(s, "start")
      BY <1>0, <1>1, GotoGoes DEF InCall, StartReaped, Places
    <3>2. ctl[s].at = "reap" /\ dev' = dev
      BY <1>1 DEF StartReaped, At
    <3> DEFINE f == [st[s] EXCEPT !.started = FALSE, !.exited = FALSE]
    <3>5. st[s] \in Fields
      BY <1>0 DEF InCall, Typed
    <3>3. /\ f \in Fields /\ ~f.started
          /\ ~f.exited /\ f.state = st[s].state /\ f.playing = st[s].playing
      BY <3>5 DEF Fields, States
    <3>4. st' = [st EXCEPT ![s] = f]
      BY <1>1 DEF StartReaped
    <3> HIDE DEF f
    <3> QED  BY <1>0, <3>1, <3>2, <3>3, <3>4 DEF InCall, Typed
  <2>2. /\ out' \in [Streams -> Locals] /\ out[s].pc = "gone" /\ out'[s].pc = "none"
        /\ \A u \in Streams \ {s} : out'[u] = out[u]
    BY <1>0, <1>1, JoinedIs DEF InCall, StartReaped
  <2>3. Typed'
    BY <1>0, <2>1, <2>2 DEF InCall, Typed, Goes
  <2>4. Phase(s)'
    BY <1>0, <2>1, <2>2 DEF InCall, Phase, Goes
  <2>5. Served(s)' /\ dev'.queued \cap dev'.done = {}
    BY <1>0, <2>1, <2>2 DEF InCall, Served, Quiet, InDevice, Bufs
  <2> QED  BY <1>0, <2>1, <2>2, <2>3, <2>4, <2>5, StepOfOne DEF InCall, Goes
<1>2. CASE StartReset(s)
  <2>1. /\ ctl[s].at \in {"idle", "start"} /\ ~st[s].started /\ Goes(s, "create") /\ out' = out
        /\ out[s].pc = "none" /\ Quiet
    <3>1. Goes(s, "create")
      BY <1>0, <1>2, GotoGoes DEF InCall, StartReset, Places
    <3> QED  BY <1>0, <1>2, <3>1 DEF InCall, StartReset, MayStart, At, Phase, Served
  <2>2. /\ st' \in [Streams -> Fields] /\ \A u \in Streams \ {s} : st'[u] = st[u]
        /\ ~st'[s].started /\ ~st'[s].exited /\ ~st'[s].playing
    <3> DEFINE f == [st[s] EXCEPT !.stop = FALSE, !.exited = FALSE, !.state = "starting",
                                  !.playing = FALSE]
    <3>1. st[s] \in Fields /\ ~st[s].started
      BY <1>0, <2>1 DEF InCall, Typed
    <3>2. f \in Fields /\ ~f.started /\ ~f.exited /\ ~f.playing
      BY <3>1 DEF Fields, States
    <3>3. st' = [st EXCEPT ![s] = f]
      BY <1>2 DEF StartReset
    <3> HIDE DEF f
    <3> QED  BY <1>0, <3>2, <3>3 DEF InCall, Typed
  <2>3. dev' \in Device /\ dev'.sessions = dev.sessions /\ Quiet'
    BY <1>0, <1>2, <2>1, SilencedIs, FlushedIs DEF InCall, Typed, StartReset, IsSilent, Quiet
  <2>4. Typed'
    BY <1>0, <2>1, <2>2, <2>3 DEF InCall, Typed, Goes
  <2>5. Phase(s)'
    BY <1>0, <2>1, <2>2 DEF InCall, Phase, Goes
  <2>6. Served(s)' /\ dev'.queued \cap dev'.done = {}
    BY <2>1, <2>2, <2>3 DEF Served, Quiet, InDevice
  <2> QED  BY <1>0, <2>1, <2>2, <2>3, <2>4, <2>5, <2>6, StepOfOne DEF InCall, Goes
<1>3. CASE StartCreate(s)
  <2>1. /\ ctl[s].at = "create" /\ Goes(s, "publish") /\ dev' = dev /\ st' = st
        /\ out[s].pc = "none" /\ ~st[s].exited
    <3>1. Goes(s, "publish")
      BY <1>0, <1>3, GotoGoes DEF InCall, StartCreate, Places
    <3> QED  BY <1>0, <1>3, <3>1 DEF InCall, StartCreate, At, Phase
  <2>2. /\ out' \in [Streams -> Locals] /\ out'[s].pc = "boot"
        /\ \A u \in Streams \ {s} : out'[u] = out[u]
    <3>1. Step(s, "boot")
      BY <1>3 DEF StartCreate, Step
    <3> QED  BY <1>0, <3>1, StepIs DEF InCall, PCs
  <2>3. Typed'
    BY <1>0, <2>1, <2>2 DEF InCall, Typed, Goes
  <2>4. Phase(s)'
    BY <1>0, <2>1, <2>2 DEF InCall, Phase, Goes
  <2>5. Served(s)' /\ dev'.queued \cap dev'.done = {}
    BY <1>0, <2>1, <2>2 DEF InCall, Served, Quiet, InDevice, Bufs
  <2> QED  BY <1>0, <2>1, <2>2, <2>3, <2>4, <2>5, StepOfOne DEF InCall, Goes
<1>4. ASSUME NEW c \in BOOLEAN, StopBegin(s, c) PROVE IInv'
  <2>1. /\ ctl[s].at = "idle" /\ st[s].started /\ Goes(s, "stop") /\ dev' = dev /\ out' = out
        /\ StoresState(s, "stopping")
    <3>1. StoresState(s, "stopping")
      BY <1>0, <1>4, Stores DEF InCall, StopBegin, States
    <3> QED  BY <1>0, <1>4, <3>1 DEF InCall, StopBegin, At, Typed, Goes, Places
  <2>2. Typed'
    BY <1>0, <2>1 DEF InCall, Typed, Goes, StoresState
  <2>3. Phase(s)'
    BY <1>0, <2>1 DEF InCall, Phase, Goes, StoresState
  <2>4. Served(s)' /\ dev'.queued \cap dev'.done = {}
    BY <1>0, <2>1 DEF InCall, Served, Quiet, InDevice, Bufs, Enough, StoresState
  <2> QED  BY <1>0, <2>1, <2>2, <2>3, <2>4, StepOfOne DEF InCall, Goes, StoresState
<1>5. CASE StopJoin(s)
  <2>1. PICK p \in {"close", "idle"} : Goes(s, p)
    BY <1>0, <1>5, GotoGoes DEF InCall, StopJoin, Places
  <2>2. /\ ctl[s].at = "join" /\ dev' = dev
        /\ st' \in [Streams -> Fields] /\ \A u \in Streams \ {s} : st'[u] = st[u]
        /\ ~st'[s].started /\ ~st'[s].exited
        /\ st'[s].state = "stopped" /\ st'[s].playing = st[s].playing
    <3> DEFINE f == [st[s] EXCEPT !.started = FALSE, !.exited = FALSE, !.state = "stopped"]
    <3>1. st[s] \in Fields
      BY <1>0 DEF InCall, Typed
    <3>2. /\ f \in Fields /\ ~f.started
          /\ ~f.exited /\ f.state = "stopped" /\ f.playing = st[s].playing
      BY <3>1 DEF Fields, States
    <3>3. st' = [st EXCEPT ![s] = f]
      BY <1>5 DEF StopJoin
    <3> HIDE DEF f
    <3>4. ctl[s].at = "join" /\ dev' = dev
      BY <1>5 DEF StopJoin, At
    <3> QED  BY <1>0, <3>2, <3>3, <3>4 DEF InCall, Typed
  <2>3. /\ out' \in [Streams -> Locals] /\ out[s].pc = "gone" /\ out'[s].pc = "none"
        /\ \A u \in Streams \ {s} : out'[u] = out[u]
    BY <1>0, <1>5, JoinedIs DEF InCall, StopJoin
  <2>4. Typed'
    BY <1>0, <2>1, <2>2, <2>3 DEF InCall, Typed, Goes
  <2>5. Phase(s)'
    BY <1>0, <2>1, <2>2, <2>3 DEF InCall, Phase, Goes
  <2>6. Served(s)' /\ dev'.queued \cap dev'.done = {}
    BY <1>0, <2>2, <2>3 DEF InCall, Served, Quiet, InDevice, Bufs
  <2> QED  BY <1>0, <2>1, <2>2, <2>3, <2>4, <2>5, <2>6, StepOfOne DEF InCall, Goes
<1>6. CASE CloseSilence(s)
  <2>1. /\ ctl[s].at \in {"idle", "close"} /\ ~st[s].started /\ out[s].pc = "none"
        /\ Goes(s, "release") /\ out' = out /\ StoresState(s, "closing")
    <3>1. Goes(s, "release") /\ StoresState(s, "closing")
      BY <1>0, <1>6, GotoGoes, Stores DEF InCall, CloseSilence, Places, States
    <3> QED  BY <1>0, <1>6, <3>1 DEF InCall, CloseSilence, At, Phase
  <2>2. dev' \in Device /\ dev'.sessions = dev.sessions /\ Quiet'
    BY <1>0, <1>6, SilencedIs DEF InCall, Typed, CloseSilence, IsSilent, Quiet
  <2>3. Typed'
    BY <1>0, <2>1, <2>2 DEF InCall, Typed, Goes, StoresState
  <2>4. Phase(s)'
    BY <1>0, <2>1 DEF InCall, Phase, Goes, StoresState
  <2>5. Served(s)' /\ dev'.queued \cap dev'.done = {}
    BY <1>0, <2>1, <2>2 DEF InCall, Served, Quiet, InDevice, StoresState
  <2> QED  BY <1>0, <2>1, <2>2, <2>3, <2>4, <2>5, StepOfOne DEF InCall, Goes, StoresState
<1> QED  BY <1>1, <1>2, <1>3, <1>4, <1>5, <1>6

-----------------------------------------------------------------------------
\* The device changes hands: claimed by an open, given up by a close or a failed open.
LEMMA Claim ==
  ASSUME AAudioAssumption, IInv, NEW s \in Streams, OpenClaim(s)
  PROVE  IInv'
<1>1. /\ ctl[s].at = "closed" /\ owner = NoStream /\ Goes(s, "claimed")
      /\ owner' = s /\ st' = st /\ out' = out /\ quit' = quit
  BY GotoGoes DEF IInv, OpenClaim, MayClaim, At, Places
<1>2. dev' \in Device /\ dev'.sessions = dev.sessions + 1 /\ Quiet'
  <2>1. IsSilent(Silenced(dev))
    BY SilencedIs DEF IInv, Typed
  <2>2. dev' = [Silenced(dev) EXCEPT !.sessions = dev.sessions + 1] /\ dev.sessions + 1 \in Int
    BY DEF OpenClaim, IInv, Typed, Device
  <2> QED  BY <2>1, <2>2 DEF IsSilent, Device, Quiet
<1>3. out[s].pc = "none" /\ ~st[s].started /\ ~st[s].exited /\ ~st[s].playing
  BY <1>1 DEF IInv, Phases, Phase
<1>4. Typed'
  BY <1>1, <1>2 DEF IInv, Typed, Goes
<1>5. Owned'
  <2>1. Owners = {}
    BY <1>1 DEF IInv, Owned
  <2>2. Owners' = {s}
    BY <1>1, <2>1 DEF Owners, Goes
  <2> QED  BY <1>1, <2>2 DEF Owned, AAudioAssumption
<1>6. Counted'
  <2>1. Holders' = Holders \cup {s} /\ s \notin Holders
    BY <1>1 DEF Holders, At, Goes
  <2> QED  BY <1>2, <2>1, FS_AddElement DEF IInv, Counted
<1>7. Phases'
  BY <1>1, <1>3 DEF IInv, Phases, Phase, Goes
<1>8. Serving'
  BY <1>1, <1>2, <1>3 DEF AAudioAssumption, Serving, Served, Quiet, InDevice
<1> QED  BY <1>4, <1>5, <1>6, <1>7, <1>8 DEF IInv

\* Giving the device up, after which another stream may claim it.
LEMMA GiveUp ==
  ASSUME AAudioAssumption, IInv, NEW s \in Streams, OpenNoMemory(s) \/ CloseRelease(s)
  PROVE  IInv'
<1>1. ctl[s].at \in {"claimed", "release"} /\ UNCHANGED <<st, out, dev, quit>> /\ InCall(s)
  BY CallOwns DEF OpenNoMemory, CloseRelease, At
<1>2. Goes(s, "exit") /\ owner' = NoStream
  BY <1>1, GotoGoes DEF InCall, OpenNoMemory, CloseRelease, Places
<1>3. out[s].pc = "none" /\ Quiet
  BY <1>1 DEF InCall, Phase, Served
<1>4. Typed'
  BY <1>1, <1>2 DEF InCall, Typed, Goes
<1>5. Owned'
  <2>1. Owners = {s}
    BY <1>1 DEF IInv, Owned, InCall, AAudioAssumption
  <2>2. Owners' = {}
    BY <1>2, <2>1 DEF Owners, Goes
  <2> QED  BY <1>2, <2>2 DEF Owned
<1>6. Counted'
  <2>1. Holders' = Holders
    BY <1>1, <1>2 DEF Holders, At, Goes
  <2> QED  BY <1>1, <2>1 DEF IInv, Counted
<1>7. Phases'
  BY <1>1, <1>2, <1>3 DEF IInv, Phases, InCall, Phase, Goes
<1>8. Serving'
  BY <1>1, <1>2, <1>3 DEF IInv, Serving, AAudioAssumption, Quiet
<1> QED  BY <1>4, <1>5, <1>6, <1>7, <1>8 DEF IInv

\* audoutExit, which another stream may be using by now.
LEMMA Exit ==
  ASSUME AAudioAssumption, IInv, NEW s \in Streams, ExitAudout(s)
  PROVE  IInv'
<1>1. /\ ctl[s].at = "exit" /\ UNCHANGED <<out, owner, quit>>
      /\ dev' = [dev EXCEPT !.sessions = dev.sessions - 1]
      /\ st' = [st EXCEPT ![s] = Closed]
      /\ ctl' = [ctl EXCEPT ![s] = [at |-> "closed", closing |-> FALSE]]
  BY DEF ExitAudout, At
<1>2. /\ dev' \in Device /\ dev'.sessions = dev.sessions - 1 /\ dev'.on = dev.on
      /\ dev'.queued = dev.queued /\ dev'.done = dev.done
  <2>1. dev \in Device /\ dev.sessions - 1 \in Int
    BY DEF IInv, Typed, Device
  <2> QED  BY <1>1, <2>1 DEF Device
<1>3. /\ Goes(s, "closed") /\ st' \in [Streams -> Fields]
      /\ \A u \in Streams \ {s} : st'[u] = st[u]
      /\ ~st'[s].started /\ ~st'[s].exited /\ ~st'[s].playing
  BY <1>1 DEF IInv, Typed, Goes, Places, Closed, Fields, States
<1>4. out[s].pc = "none" /\ s # owner
  <2>1. s \notin Owners
    BY <1>1 DEF Owners
  <2> QED  BY <1>1, <2>1 DEF AAudioAssumption, IInv, Owned, Phases, Phase
<1>5. Typed'
  BY <1>1, <1>2, <1>3 DEF IInv, Typed, Goes
<1>6. Owned'
  <2>1. Owners' = Owners
    BY <1>1, <1>3 DEF Owners, Goes
  <2> QED  BY <1>1, <2>1 DEF IInv, Owned
<1>7. Counted'
  <2>1. Holders' = Holders \ {s} /\ s \in Holders
    BY <1>1, <1>3 DEF Holders, At, Goes
  <2> QED  BY <1>2, <2>1, FS_RemoveElement DEF IInv, Counted
<1>8. Phases'
  BY <1>1, <1>3, <1>4 DEF IInv, Phases, Phase, Goes
<1>9. Serving'
  <2>1. ASSUME NEW u \in Streams, u = owner PROVE Served(u)'
    <3>1. Served(u) /\ st'[u] = st[u] /\ out' = out /\ quit' = quit
      BY <1>1, <1>3, <1>4, <2>1 DEF IInv, Serving
    <3> QED  BY <1>2, <3>1 DEF Served, Quiet, InDevice, Bufs, Enough
  <2> QED  BY <1>1, <1>2, <2>1 DEF IInv, Serving, Quiet
<1> QED  BY <1>5, <1>6, <1>7, <1>8, <1>9 DEF IInv

-----------------------------------------------------------------------------
\* What the device and the system do by themselves.
LEMMA Outside ==
  ASSUME AAudioAssumption, IInv, DevicePlays \/ DeviceStops \/ Quit
  PROVE  IInv'
<1>1. UNCHANGED <<st, ctl, out, owner>> /\ (quit => quit') /\ quit' \in BOOLEAN
  BY DEF DevicePlays, DeviceStops, Quit, IInv, Typed
<1>2. /\ dev' \in Device /\ dev'.sessions = dev.sessions /\ (dev'.on => dev.on)
      /\ InDevice' = InDevice /\ dev'.queued \cap dev'.done = {}
  <2>1. dev \in Device /\ dev.queued \cap dev.done = {}
    BY DEF IInv, Typed, Serving
  <2>2. CASE DevicePlays
    <3>1. PICK b \in dev.queued :
            dev' = [dev EXCEPT !.queued = dev.queued \ {b}, !.done = dev.done \cup {b}]
      BY <2>2 DEF DevicePlays
    <3>2. /\ dev'.queued = dev.queued \ {b} /\ dev'.done = dev.done \cup {b}
          /\ dev'.sessions = dev.sessions /\ dev'.on = dev.on /\ dev' \in Device
      BY <2>1, <3>1 DEF Device
    <3> QED  BY <2>1, <3>2 DEF InDevice
  <2>3. CASE DeviceStops
    BY <2>1, <2>3 DEF DeviceStops, Device, InDevice
  <2>4. CASE Quit
    BY <2>1, <2>4 DEF Quit, InDevice
  <2> QED  BY <2>2, <2>3, <2>4
<1>3. Typed'
  BY <1>1, <1>2 DEF IInv, Typed
<1>4. Owned' /\ Counted'
  <2>1. Owners' = Owners /\ Holders' = Holders
    BY <1>1 DEF Owners, Holders, At
  <2> QED  BY <1>1, <1>2, <2>1 DEF IInv, Owned, Counted
<1>5. Phases'
  BY <1>1 DEF IInv, Phases, Phase
<1>6. Quiet => Quiet'
  BY <1>2 DEF Quiet, InDevice
<1>7. ASSUME NEW s \in Streams, s = owner PROVE Served(s)'
  <2>1. Served(s)
    BY <1>7 DEF IInv, Serving
  <2> HIDE DEF InDevice
  <2> QED  BY <1>1, <1>2, <1>6, <2>1 DEF Served, Bufs, Enough
<1>8. Serving'
  BY <1>1, <1>2, <1>6, <1>7 DEF IInv, Serving
<1> QED  BY <1>3, <1>4, <1>5, <1>8 DEF IInv

\* Every step: the calls of the guest by the piece they run, then the output thread.
LEMMA Inductive ==
  ASSUME AAudioAssumption, IInv, [Next]_vars
  PROVE  IInv'
<1>1. ASSUME NEW s \in Streams, Begin(s) \/ Finish(s) PROVE IInv'
  BY <1>1, CallAlone, CallWithThread, Claim, GiveUp, Exit DEF Begin, Finish
<1>2. CASE UNCHANGED vars
  <2>1. Owners' = Owners /\ Holders' = Holders
    BY <1>2 DEF vars, Owners, Holders, At
  <2>2. \A s \in Streams : (Phase(s)' <=> Phase(s)) /\ (Served(s)' <=> Served(s))
    BY <1>2 DEF vars, Phase, Served, Quiet, InDevice, Bufs, Enough
  <2> QED  BY <1>2, <2>1, <2>2 DEF vars, IInv, Typed, Owned, Counted, Phases, Serving, Quiet
<1> QED  BY <1>1, <1>2, OutputStep, Outside DEF Next

LEMMA Initially ==
  ASSUME AAudioAssumption, Init
  PROVE  IInv
<1> USE DEF AAudioAssumption, Init
<1>1. Typed
  <2>1. Closed \in Fields
    BY DEF Closed, Fields, States
  <2>2. NoThread \in Locals
    BY DEF NoThread, Locals, PCs
  <2>3. [at |-> "closed", closing |-> FALSE] \in [at : Places, closing : BOOLEAN]
    BY DEF Places
  <2>4. dev \in Device
    BY DEF Device
  <2> QED  BY <2>1, <2>2, <2>3, <2>4 DEF Typed
<1>2. Owners = {} /\ Holders = {}
  BY DEF Owners, Holders, At
<1>3. Owned /\ Counted
  BY <1>2, FS_EmptySet DEF Owned, Counted
<1>4. Phases
  BY DEF Phases, Phase, Closed, NoThread
<1>5. Serving
  BY DEF Serving, Quiet
<1> QED  BY <1>1, <1>3, <1>4, <1>5 DEF IInv

\* The invariant holds throughout.
LEMMA Invariant == Spec => []IInv
  BY AAudioAssumption, Initially, Inductive, PTL DEF Spec

-----------------------------------------------------------------------------
\* Streams and their threads stay within the states the code gives them (the type
\* invariant).
THEOREM TypeCorrect == Spec => []TypeOK
<1>1. IInv => TypeOK
  BY DEF IInv, Typed, TypeOK, Fields, States, Places, PCs, Locals, Device
<1> QED  BY <1>1, Invariant, PTL

\* g_audout_owner names the one stream between its claim and its release, the audout
\* service is open as often as streams hold it, and only the owner's buffers are in
\* the device (aaudio_bridge_builder_open_stream, aaudio_bridge_stream_close).
THEOREM DeviceOwned == Spec => []OneOwner
<1>1. IInv => OneOwner
  <2> SUFFICES ASSUME IInv PROVE OneOwner
    OBVIOUS
  <2>1. owner = NoStream => ~dev.on /\ dev.queued \cup dev.done = {}
    BY DEF IInv, Serving, Quiet
  <2>2. owner # NoStream => dev.queued \cup dev.done \subseteq UNION {Bufs(s) : s \in Owners}
    <3> SUFFICES ASSUME owner # NoStream
                 PROVE  dev.queued \cup dev.done \subseteq UNION {Bufs(s) : s \in Owners}
      OBVIOUS
    <3>1. owner \in Owners /\ owner \in Streams
      BY DEF IInv, Owned, Typed
    <3>2. InDevice \subseteq Bufs(owner)
      BY <3>1 DEF IInv, Serving, Served
    <3> QED  BY <3>1, <3>2 DEF InDevice
  <2> QED  BY <2>1, <2>2 DEF IInv, Owned, Counted, OneOwner
<1> QED  BY <1>1, Invariant, PTL

\* A stream that is not started is quiet and has no thread, and a thread that runs
\* belongs to a start that is not over (aaudio_bridge_stream_request_start and stop,
\* aaudio_output_thread).
THEOREM ThreadConfinement == Spec => []ThreadConfined
<1>1. IInv => ThreadConfined
  <2> SUFFICES ASSUME IInv PROVE ThreadConfined
    OBVIOUS
  <2>1. ThreadInsideStart
    BY DEF IInv, Phases, Phase, ThreadInsideStart
  <2>2. ASSUME NEW s \in Streams, ctl[s].at \in {"idle", "start", "claimed"}, ~st[s].started
        PROVE  /\ out[s].pc = "none"
               /\ At(s, "claimed") \/ st[s].state \in {"open", "stopped"}
               /\ ~st[s].playing /\ Quiet
    <3>1. InCall(s)
      BY <2>2, CallOwns
    <3>2. out[s].pc = "none"
      BY <2>2, <3>1 DEF InCall, Phase
    <3> QED  BY <2>2, <3>1, <3>2 DEF InCall, Phase, Served, At
  <2>3. StoppedIsQuiet
    BY <2>2 DEF StoppedIsQuiet, Quiet
  <2> QED  BY <2>1, <2>3 DEF ThreadConfined
<1> QED  BY <1>1, Invariant, PTL

\* Through partial drains, failed appends and recoveries, no buffer is appended twice
\* and none is lost (prime_audout, fill_and_append, recover_audout).
THEOREM BuffersKept == Spec => []BuffersInFlight
<1>1. IInv => BuffersInFlight
  <2> SUFFICES ASSUME IInv, NEW s \in Streams, ~Enough(s)
               PROVE  /\ out[s].pc = "prime" => InDevice = {<<s, b>> : b \in 1 .. out[s].i - 1}
                      /\ out[s].pc = "fill" => InDevice = Bufs(s) \ {<<s, out[s].i>>}
                      /\ out[s].pc \in {"loop", "wait", "next"} => InDevice = Bufs(s)
    BY DEF BuffersInFlight
  <2>1. CASE out[s].pc = "none"
    BY <2>1
  <2>2. CASE out[s].pc # "none"
    BY <2>2, ThreadOwns DEF Served
  <2> QED  BY <2>1, <2>2
<1> QED  BY <1>1, Invariant, PTL
=============================================================================
