----------------------------- MODULE GfxReclaim -----------------------------
(***************************************************************************)
(* The graphics diagnostics of source/imports.c, a developer build's        *)
(* option (ENABLE_GFX_DIAGNOSTICS): the GL calls of the guest go through    *)
(* wrappers that number them, mark the call the host's debug messages blame *)
(* for running out of memory, reclaim deleted textures behind a fence, and  *)
(* try a texture's storage or upload once more after a forced reclaim.      *)
(*                                                                          *)
(* Every guest thread has a GL context, with its own error flag; the mark,  *)
(* the counters and the fence are shared, and nothing orders the threads.   *)
(* A host call is one step, with the debug message it delivers (the output  *)
(* is synchronous).                                                         *)
(***************************************************************************)
EXTENDS Integers, FiniteSets

CONSTANTS
  GlThreads, NoGlThread,
  DeleteThreshold,  \* GFX_RECLAIM_DELETE_THRESHOLD
  ForceThreshold,   \* GFX_RECLAIM_PREALLOC_FORCE_THRESHOLD
  Batch,            \* textures deleted by one call
  MaxSeq            \* bound: numbered calls

VARIABLES
  seq,          \* g_gfx_seq
  last,         \* g_gfxdiag_last.seq, thread-local
  oomSeq,       \* g_gfxdebug_oom_seq
  debug,        \* the host's debug output: not asked for, refused, delivered
  s3tc,         \* g_etc2_bc_available
  pending,      \* g_gfx_reclaim_deleted_pending
  fence,        \* g_gfx_reclaim_fence: none, not signalled, signalled
  fenced,       \* g_gfx_reclaim_fenced_deletes
  bcLock,       \* holder of g_etc2_bc_lock
  error,        \* the error flag of each thread's context
  failed,       \* each thread's last call had no effect and it has not asked why
  gfxPc, gfxLoc       \* where each thread is, and its locals there

shared == <<seq, oomSeq, debug, s3tc, pending, fence, fenced, bcLock>>
gfxVars == <<shared, last, error, failed, gfxPc, gfxLoc>>

NoGfxLoc == [op |-> "none", again |-> FALSE, next |-> "idle", aside |-> 0]

GfxInit ==
  /\ seq = 0 /\ last = [t \in GlThreads |-> 0] /\ oomSeq = 0
  /\ debug = "unasked" /\ s3tc = "unknown"
  /\ pending = 0 /\ fence = "none" /\ fenced = 0 /\ bcLock = NoGlThread
  /\ error = [t \in GlThreads |-> "none"] /\ failed = [t \in GlThreads |-> FALSE]
  /\ gfxPc = [t \in GlThreads |-> "idle"] /\ gfxLoc = [t \in GlThreads |-> NoGfxLoc]

GfxGoto(t, where) == gfxPc' = [gfxPc EXCEPT ![t] = where]
Ready(t) == gfxPc[t] = "idle" /\ seq + 2 <= MaxSeq
Less(m, n) == IF m >= n THEN m - n ELSE 0

-----------------------------------------------------------------------------
(***************************************************************************)
(* The host.                                                                *)
(***************************************************************************)
\* A host call of t's current operation: it works, breaks a rule of GL, or
\* finds no memory, which the debug callback marks with t's last number.
\* The flag keeps the first error.
HostCall(t, outcome) ==
  /\ error' = [error EXCEPT ![t] = IF @ = "none" THEN outcome ELSE @]
  /\ failed' = [failed EXCEPT ![t] = outcome # "none"]
  /\ oomSeq' = IF outcome = "oom" /\ debug = "on" THEN last[t] ELSE oomSeq

Signal == fence = "busy" /\ fence' = "done"
          /\ UNCHANGED <<seq, oomSeq, debug, s3tc, pending, fenced, bcLock,
                         last, error, failed, gfxPc, gfxLoc>>

-----------------------------------------------------------------------------
(***************************************************************************)
(* The reclaim: deletions counted, a fence behind them, a forced finish.    *)
(***************************************************************************)
\* gfxdiag_async_poll, then on to next.
Retired(t) ==
  /\ gfxPc[t] = "poll" /\ fence = "done"
  /\ gfxLoc' = [gfxLoc EXCEPT ![t].aside = fenced] /\ fence' = "none" /\ GfxGoto(t, "zero")
  /\ UNCHANGED <<seq, oomSeq, debug, s3tc, pending, fenced, bcLock, last, error, failed>>
NotRetired(t) ==
  /\ gfxPc[t] = "poll" /\ fence # "done"
  /\ fence' \in {fence, "none"}     \* GL_WAIT_FAILED drops the fence
  /\ fenced' = IF fence' # fence THEN 0 ELSE fenced
  /\ GfxGoto(t, gfxLoc[t].next)
  /\ UNCHANGED <<seq, oomSeq, debug, s3tc, pending, bcLock, last, error, failed, gfxLoc>>

\* gfxdiag_async_fence_clear has cleared the fence; now what it covered, and
\* then the deletions that are done (all of them after a finish).
ZeroFenced(t) ==
  /\ gfxPc[t] = "zero"
  /\ fenced' = 0
  /\ gfxLoc' = [gfxLoc EXCEPT ![t].aside = IF @ < 0 THEN 0 ELSE Less(pending, @)]
  /\ GfxGoto(t, "settle")
  /\ UNCHANGED <<seq, oomSeq, debug, s3tc, pending, fence, bcLock, last, error, failed>>
Settle(t) ==
  /\ gfxPc[t] = "settle"
  /\ pending' = gfxLoc[t].aside /\ GfxGoto(t, gfxLoc[t].next)
  /\ UNCHANGED <<seq, oomSeq, debug, s3tc, fence, fenced, bcLock, last, error, failed, gfxLoc>>

\* gfxdiag_finish_reclaim.
FinishReclaim(t) ==
  /\ gfxPc[t] = "finish"
  /\ fence' = "none" /\ gfxLoc' = [gfxLoc EXCEPT ![t].aside = -1] /\ GfxGoto(t, "zero")
  /\ UNCHANGED <<seq, oomSeq, debug, s3tc, pending, fenced, bcLock, last, error, failed>>

\* gfxdiag_async_submit; the host may have no fences, or no more of them.
Submit(t) ==
  /\ gfxPc[t] = "submit"
  /\ IF fence = "none" /\ pending >= DeleteThreshold
     THEN \/ fence' = "busy" /\ GfxGoto(t, "cover")
          \/ fence' = fence /\ GfxGoto(t, "idle")
     ELSE fence' = fence /\ GfxGoto(t, "idle")
  /\ UNCHANGED <<seq, oomSeq, debug, s3tc, pending, fenced, bcLock, last, error, failed, gfxLoc>>
Cover(t) ==
  /\ gfxPc[t] = "cover"
  /\ fenced' = pending /\ GfxGoto(t, "idle")
  /\ UNCHANGED <<seq, oomSeq, debug, s3tc, pending, fence, bcLock, last, error, failed, gfxLoc>>

\* nx_glDeleteTextures: the count is read, and written back.
DeleteTextures(t) ==
  /\ Ready(t)
  /\ seq' = seq + 1 /\ last' = [last EXCEPT ![t] = seq + 1]
  /\ gfxLoc' = [gfxLoc EXCEPT ![t] = [NoGfxLoc EXCEPT !.aside = pending + Batch, !.next = "submit"]]
  /\ GfxGoto(t, "settle")
  /\ UNCHANGED <<oomSeq, debug, s3tc, pending, fence, fenced, bcLock, error, failed>>

\* nx_eglSwapBuffers polls the fence, and submits the next one.
SwapBuffers(t) ==
  /\ gfxPc[t] = "idle" /\ fence # "none"
  /\ gfxLoc' = [gfxLoc EXCEPT ![t] = [NoGfxLoc EXCEPT !.next = "submit"]]
  /\ GfxGoto(t, "poll")
  /\ UNCHANGED <<shared, last, error, failed>>

-----------------------------------------------------------------------------
(***************************************************************************)
(* The guest's calls.                                                       *)
(***************************************************************************)
\* nx_glGetString(GL_VERSION) asks for the debug output once.
InstallCallback(t) ==
  /\ gfxPc[t] = "idle" /\ debug = "unasked"
  /\ debug' \in {"on", "off"}
  /\ UNCHANGED <<seq, oomSeq, s3tc, pending, fence, fenced, bcLock, last, error, failed, gfxPc, gfxLoc>>

GetError(t) ==
  /\ gfxPc[t] = "idle" /\ error[t] # "none"
  /\ error' = [error EXCEPT ![t] = "none"] /\ failed' = [failed EXCEPT ![t] = FALSE]
  /\ UNCHANGED <<shared, last, gfxPc, gfxLoc>>

\* GFXDIAG_RUN_RETRY, the calls that are numbered and nothing else.
Plain(t) ==
  /\ Ready(t)
  /\ seq' = seq + 1 /\ last' = [last EXCEPT ![t] = seq + 1]
  /\ gfxLoc' = [gfxLoc EXCEPT ![t] = [NoGfxLoc EXCEPT !.op = "plain"]] /\ GfxGoto(t, "host")
  /\ UNCHANGED <<oomSeq, debug, s3tc, pending, fence, fenced, bcLock, error, failed>>

\* gfxdiag_etc2_bc_supported looks once.
Supported == s3tc' \in IF s3tc = "unknown" THEN {"yes", "no"} ELSE {s3tc}

\* nx_glTexStorage2D: a large ETC2 texture first has deletions reclaimed.
TexStorage2D(t) ==
  /\ Ready(t)
  /\ \E etc2, large \in BOOLEAN :
       /\ IF etc2 THEN Supported ELSE s3tc' = s3tc
       /\ GfxGoto(t, IF large THEN "poll" ELSE "mark")
  /\ gfxLoc' = [gfxLoc EXCEPT ![t] = [NoGfxLoc EXCEPT !.op = "storage", !.next = "force"]]
  /\ UNCHANGED <<seq, oomSeq, debug, pending, fence, fenced, bcLock, last, error, failed>>
ForceReclaim(t) ==
  /\ gfxPc[t] = "force"
  /\ GfxGoto(t, IF pending >= ForceThreshold THEN "finish" ELSE "mark")
  /\ gfxLoc' = [gfxLoc EXCEPT ![t].next = "mark"]
  /\ UNCHANGED <<shared, last, error, failed>>

\* nx_glCompressedTexImage2D and nx_glCompressedTexSubImage2D: an ETC2 image
\* is transcoded, its lock held over the host's call.
Compressed(t, op) ==
  /\ Ready(t)
  /\ \E etc2 \in BOOLEAN :
       /\ IF etc2 THEN Supported ELSE s3tc' = s3tc
       /\ GfxGoto(t, IF etc2 /\ s3tc' = "yes" THEN "lock" ELSE "mark")
  /\ gfxLoc' = [gfxLoc EXCEPT ![t] = [NoGfxLoc EXCEPT !.op = op]]
  /\ UNCHANGED <<seq, oomSeq, debug, pending, fence, fenced, bcLock, last, error, failed>>
\* gfxdiag_etc2_bc_prepare; without scratch memory, or with a malformed
\* image, the image goes to the host as it is.
Transcode(t) ==
  /\ gfxPc[t] = "lock" /\ bcLock = NoGlThread
  /\ bcLock' \in {t, NoGlThread} /\ GfxGoto(t, "mark")
  /\ UNCHANGED <<seq, oomSeq, debug, s3tc, pending, fence, fenced, last, error, failed, gfxLoc>>

\* The call is numbered, and the mark cleared.
Note(t) ==
  /\ gfxPc[t] = "mark"
  /\ seq' = seq + 1 /\ last' = [last EXCEPT ![t] = seq + 1] /\ GfxGoto(t, "clear")
  /\ UNCHANGED <<oomSeq, debug, s3tc, pending, fence, fenced, bcLock, error, failed, gfxLoc>>
Retries(op) == op \in {"storage", "subimage"}
ClearMark(t) ==
  /\ gfxPc[t] = "clear"
  /\ oomSeq' = IF Retries(gfxLoc[t].op) THEN 0 ELSE oomSeq
  /\ GfxGoto(t, "host")
  /\ UNCHANGED <<seq, debug, s3tc, pending, fence, fenced, bcLock, last, error, failed, gfxLoc>>

Host(t) ==
  /\ gfxPc[t] = "host"
  /\ \E outcome \in {"none", "oom", "bad"} : HostCall(t, outcome)
  /\ GfxGoto(t, IF Retries(gfxLoc[t].op) THEN "check" ELSE "done")
  /\ UNCHANGED <<seq, debug, s3tc, pending, fence, fenced, bcLock, last, gfxLoc>>

\* Whether the mark has this call's number; only the first try counts.
OutOfMemory(t) == oomSeq = last[t] /\ ~gfxLoc[t].again
Check(t) ==
  /\ gfxPc[t] = "check"
  /\ GfxGoto(t, IF OutOfMemory(t) THEN "drain" ELSE "done")
  /\ UNCHANGED <<shared, last, error, failed, gfxLoc>>

\* gfxdiag_drain_host_errors, before the reclaim and the retry.
Drain(t) ==
  /\ gfxPc[t] = "drain"
  /\ error' = [error EXCEPT ![t] = "none"]
  /\ gfxLoc' = [gfxLoc EXCEPT ![t].again = TRUE, ![t].next = "mark"] /\ GfxGoto(t, "finish")
  /\ UNCHANGED <<shared, last, failed>>

\* Mutant: the error flag is drained behind the last try, whatever came of it.
DoneDrains(t) ==
  /\ gfxPc[t] = "done"
  /\ error' = [error EXCEPT ![t] = IF gfxLoc[t].again THEN "none" ELSE @]
  /\ bcLock' = IF bcLock = t THEN NoGlThread ELSE bcLock
  /\ GfxGoto(t, "idle") /\ gfxLoc' = [gfxLoc EXCEPT ![t] = NoGfxLoc]
  /\ UNCHANGED <<seq, oomSeq, debug, s3tc, pending, fence, fenced, last, failed>>

Done(t) ==
  /\ gfxPc[t] = "done"
  /\ bcLock' = IF bcLock = t THEN NoGlThread ELSE bcLock
  /\ GfxGoto(t, "idle") /\ gfxLoc' = [gfxLoc EXCEPT ![t] = NoGfxLoc]
  /\ UNCHANGED <<seq, oomSeq, debug, s3tc, pending, fence, fenced, last, error, failed>>

GfxStep(t) ==
  \/ Retired(t) \/ NotRetired(t) \/ ZeroFenced(t) \/ Settle(t) \/ FinishReclaim(t)
  \/ Submit(t) \/ Cover(t) \/ DeleteTextures(t) \/ SwapBuffers(t)
  \/ InstallCallback(t) \/ GetError(t) \/ Plain(t) \/ TexStorage2D(t) \/ ForceReclaim(t)
  \/ \E op \in {"image", "subimage"} : Compressed(t, op)
  \/ Transcode(t) \/ Note(t) \/ ClearMark(t) \/ Host(t) \/ Check(t) \/ Drain(t) \/ Done(t)
GfxNext == Signal \/ \E t \in GlThreads : GfxStep(t)
GfxSpec == GfxInit /\ [][GfxNext]_gfxVars

-----------------------------------------------------------------------------
(* Properties *)

\* A call that had no effect leaves the thread's error flag up until the
\* thread asks: a retry, another thread's mark or a reclaim in between never
\* makes a lost image look like one that is there (imports.c:735-741,
\* 1241-1252, 1391-1402).
FailureIsSeen ==
  \A t \in GlThreads : gfxPc[t] = "idle" /\ failed[t] => error[t] # "none"

=============================================================================
