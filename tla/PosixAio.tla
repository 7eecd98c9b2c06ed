------------------------------ MODULE PosixAio ------------------------------
(***************************************************************************)
(* Asynchronous block I/O with a pool of threads (posix-aio-compat.c) and  *)
(* the contexts that keep callbacks apart (async.c, aio.c): the main       *)
(* thread submits requests, threads that come and go carry them out and    *)
(* send a signal, the main thread finds the finished ones and calls back.  *)
(* A callback may do all that again, in a context of its own.              *)
(*                                                                         *)
(* The main thread's calls are a stack of frames:                          *)
(*   "main"      the main loop                                             *)
(*   "kick"      qemu_paio_submit, before it signals the condition         *)
(*   "scan"      posix_aio_process_queue, at place pos of first_aio        *)
(*   "callback"  the callback of a request                                 *)
(*   "context"   between async_context_push and async_context_pop          *)
(*   "cancel"    paio_cancel waiting for an active request                 *)
(***************************************************************************)
EXTENDS Naturals, Sequences, FiniteSets, SequencesExt

CONSTANTS Acbs,        \* control blocks
          Threads,     \* as many as max_threads
          MaxContext,  \* bound on the depth of the stack of contexts
          MaxSubmits,  \* bound on the number of requests
          None

ASSUME AioAssumption ==
    /\ MaxContext \in Nat /\ MaxSubmits \in Nat
    /\ None \notin Acbs
    /\ IsFiniteSet(Threads) /\ Threads # {}

VARIABLES
    acb,           \* the control blocks
    free_aiocb,    \* the pool of released ones
    first_aio,     \* the list of outstanding requests
    request_list,  \* those no thread has taken yet
    thread,        \* where each thread is, and its request
    idle_threads, cur_threads,
    signalled,     \* SIGUSR2 is pending on the signalfd
    frames,        \* the calls of the main thread, the innermost last
    context,       \* the id of the current AsyncContext
    bhs,           \* contexts in which bh_run_aio_completions is scheduled
    called,        \* the contexts of the last callback: its own and current
    submits        \* the number of requests so far

main == <<acb, free_aiocb, first_aio, signalled, frames, context, bhs, called, submits>>
vars == <<main, request_list, thread, idle_threads, cur_threads>>

Contexts == 0 .. MaxContext
Frame(kind) == [kind |-> kind, acb |-> None, ctx |-> context, pos |-> 1]
Frames == [kind : {"main", "kick", "scan", "callback", "context", "cancel"},
           acb : Acbs \cup {None}, ctx : Contexts, pos : Nat \ {0}]

TypeOK ==
    /\ acb \in [Acbs -> [state : {"new", "free", "queued", "active", "done"},
                         async_context_id : Contexts, owner : Contexts]]
    /\ free_aiocb \in Seq(Acbs) /\ first_aio \in Seq(Acbs)
    /\ request_list \in Seq(Acbs)
    /\ thread \in [Threads -> [pc : {"none", "check", "wait", "timeout", "work", "kill"},
                               acb : Acbs \cup {None}]]
    /\ idle_threads \in 0 .. Cardinality(Threads)
    /\ cur_threads \in 0 .. Cardinality(Threads)
    /\ signalled \in BOOLEAN
    /\ frames \in Seq(Frames) /\ frames # <<>>
    /\ context \in Contexts /\ bhs \in SUBSET Contexts
    /\ called \in [own : Contexts, current : Contexts]
    /\ submits \in 0 .. MaxSubmits

Init ==
    /\ acb = [a \in Acbs |-> [state |-> "new", async_context_id |-> 0, owner |-> 0]]
    /\ free_aiocb = <<>> /\ first_aio = <<>> /\ request_list = <<>>
    /\ thread = [t \in Threads |-> [pc |-> "none", acb |-> None]]
    /\ idle_threads = 0 /\ cur_threads = 0
    /\ signalled = FALSE
    /\ context = 0 /\ bhs = {}
    /\ frames = <<Frame("main")>>
    /\ called = [own |-> 0, current |-> 0]
    /\ submits = 0

top == Last(frames)
Push(f) == frames' = Append(frames, f)
Return == frames' = Front(frames)
MayCall == top.kind \in {"main", "callback", "context"}

-----------------------------------------------------------------------------
(* Submitting, in the main thread                                          *)

(* qemu_aio_get: from the pool, as it was left, or a zeroed one            *)
Available == IF free_aiocb # <<>> THEN {Head(free_aiocb)}
             ELSE {a \in Acbs : acb[a].state = "new"}

(* spawn_thread when no thread is idle                                     *)
SpawnIfBusy ==
    IF idle_threads = 0 /\ cur_threads < Cardinality(Threads)
    THEN /\ \E t \in Threads : thread[t].pc = "none"
                /\ thread' = [thread EXCEPT ![t].pc = "check"]
         /\ idle_threads' = 1 /\ cur_threads' = cur_threads + 1
    ELSE UNCHANGED <<thread, idle_threads, cur_threads>>

Submit(a, id) ==
    /\ MayCall /\ submits < MaxSubmits /\ a \in Available
    /\ acb' = [acb EXCEPT ![a] = [state |-> "queued", async_context_id |-> id,
                                  owner |-> context]]
    /\ free_aiocb' = IF free_aiocb = <<>> THEN <<>> ELSE Tail(free_aiocb)
    /\ first_aio' = <<a>> \o first_aio
    /\ SpawnIfBusy
    /\ request_list' = Append(request_list, a)
    /\ Push(Frame("kick"))
    /\ submits' = submits + 1
    /\ UNCHANGED <<signalled, context, bhs, called>>

paio_submit(a) == Submit(a, context)

(* Does not set async_context_id: the request has the one its control      *)
(* block was left with.                                                    *)
paio_ioctl(a) == Submit(a, acb[a].async_context_id)

Waiting == {t \in Threads : thread[t].pc = "wait"}

(* cond_signal, after the unlock                                           *)
Kick ==
    /\ top.kind = "kick"
    /\ IF Waiting = {} THEN UNCHANGED thread
       ELSE \E t \in Waiting : thread' = [thread EXCEPT ![t].pc = "check"]
    /\ Return
    /\ UNCHANGED <<acb, free_aiocb, first_aio, request_list, idle_threads,
                   cur_threads, signalled, context, bhs, called, submits>>

-----------------------------------------------------------------------------
(* aio_thread                                                              *)

Take(t) ==
    /\ thread[t].pc \in {"check", "timeout"} /\ request_list # <<>>
    /\ thread' = [thread EXCEPT ![t] = [pc |-> "work", acb |-> Head(request_list)]]
    /\ acb' = [acb EXCEPT ![Head(request_list)].state = "active"]
    /\ request_list' = Tail(request_list)
    /\ idle_threads' = idle_threads - 1
    /\ UNCHANGED <<free_aiocb, first_aio, cur_threads, signalled, frames,
                   context, bhs, called, submits>>

(* Nothing to do: wait, or leave if that was after ten seconds.            *)
Idle(t) ==
    /\ request_list = <<>>
    /\ \/ /\ thread[t].pc = "check"
          /\ thread' = [thread EXCEPT ![t].pc = "wait"]
          /\ UNCHANGED <<idle_threads, cur_threads>>
       \/ /\ thread[t].pc = "timeout"
          /\ thread' = [thread EXCEPT ![t].pc = "none"]
          /\ idle_threads' = idle_threads - 1 /\ cur_threads' = cur_threads - 1
    /\ UNCHANGED <<main, request_list>>

TimeoutLeaves(t) ==
    /\ thread[t].pc = "wait"
    /\ thread' = [thread EXCEPT ![t].pc = "none"]
    /\ idle_threads' = idle_threads - 1 /\ cur_threads' = cur_threads - 1
    /\ UNCHANGED <<main, request_list>>

Timeout(t) ==
    /\ thread[t].pc = "wait"
    /\ thread' = [thread EXCEPT ![t].pc = "timeout"]
    /\ UNCHANGED <<main, request_list, idle_threads, cur_threads>>

(* The read, write, flush or ioctl is done, well or not.                   *)
Finish(t) ==
    /\ thread[t].pc = "work"
    /\ acb' = [acb EXCEPT ![thread[t].acb].state = "done"]
    /\ thread' = [thread EXCEPT ![t].pc = "kill"]
    /\ idle_threads' = idle_threads + 1
    /\ UNCHANGED <<free_aiocb, first_aio, request_list, cur_threads, signalled,
                   frames, context, bhs, called, submits>>

(* kill(pid, SIGUSR2), after the unlock                                    *)
Kill(t) ==
    /\ thread[t].pc = "kill"
    /\ thread' = [thread EXCEPT ![t] = [pc |-> "check", acb |-> None]]
    /\ signalled' = TRUE
    /\ UNCHANGED <<acb, free_aiocb, first_aio, request_list, idle_threads,
                   cur_threads, frames, context, bhs, called, submits>>

-----------------------------------------------------------------------------
(* Completion, in the main thread                                          *)

pool == <<request_list, thread, idle_threads, cur_threads>>
lists == <<acb, free_aiocb, first_aio, called, submits, pool>>

(* The signalfd is readable: posix_aio_read                                *)
posix_aio_read ==
    /\ MayCall /\ signalled
    /\ signalled' = FALSE
    /\ Push(Frame("scan"))
    /\ UNCHANGED <<lists, context, bhs>>

(* qemu_aio_wait polls the bottom halves, and if there was none it looks   *)
(* at the queue before it waits for the signal.                            *)
qemu_aio_wait ==
    /\ MayCall /\ context \notin bhs
    /\ Push(Frame("scan"))
    /\ UNCHANGED <<lists, signalled, context, bhs>>

(* qemu_bh_poll runs bh_run_aio_completions.                               *)
qemu_bh_poll ==
    /\ MayCall /\ context \in bhs
    /\ bhs' = bhs \ {context}
    /\ Push(Frame("scan"))
    /\ UNCHANGED <<lists, signalled, context>>

At == first_aio[top.pos]

(* The frame of the scan, at another place                                 *)
ScanAt(p) == [frames EXCEPT ![Len(frames)].pos = p]

ScanAnyContext ==
    top.pos <= Len(first_aio) /\ acb[At].state = "done"

(* "we're only interested in requests in the right context"; the callback  *)
(* of a finished one is run when it has left the list.  (No request in the *)
(* list is ECANCELED: paio_cancel removes it.)                             *)
Interesting ==
    /\ top.pos <= Len(first_aio)
    /\ acb[At].async_context_id = top.ctx
    /\ acb[At].state = "done"

posix_aio_process_queue ==
    /\ top.kind = "scan"
    /\ IF Interesting
       THEN /\ Push([Frame("callback") EXCEPT !.acb = At])
            /\ first_aio' = RemoveAt(first_aio, top.pos)
            /\ called' = [own |-> acb[At].owner, current |-> context]
       ELSE /\ frames' = IF top.pos <= Len(first_aio) THEN ScanAt(top.pos + 1)
                                                      ELSE Front(frames)
            /\ UNCHANGED <<first_aio, called>>
    /\ UNCHANGED <<acb, free_aiocb, signalled, context, bhs, submits, pool>>

Release(a) ==
    /\ acb' = [acb EXCEPT ![a].state = "free"]
    /\ free_aiocb' = <<a>> \o free_aiocb

(* The callback returns: the control block is released and the scan begins *)
(* again, since the callback may have changed the list.                    *)
CallbackReturns ==
    /\ top.kind = "callback"
    /\ Release(top.acb)
    /\ frames' = [Front(frames) EXCEPT ![Len(frames) - 1].pos = 1]
    /\ UNCHANGED <<first_aio, signalled, context, bhs, called, submits, pool>>

-----------------------------------------------------------------------------
(* Contexts and cancelling                                                 *)

async_context_push ==
    /\ MayCall /\ context < MaxContext
    /\ context' = context + 1
    /\ Push(Frame("context"))
    /\ UNCHANGED <<lists, signalled, bhs>>

Outstanding == {a \in Acbs : acb[a].state \in {"queued", "active", "done"}}

PopWithoutBh ==
    /\ top.kind = "context" /\ context \notin bhs
    /\ \A a \in Outstanding : acb[a].owner # context
    /\ context' = context - 1
    /\ Return
    /\ UNCHANGED <<lists, signalled, bhs>>

(* The callers wait for their own requests first, and the bottom halves of *)
(* the context are run.                                                    *)
async_context_pop ==
    /\ top.kind = "context" /\ context \notin bhs
    /\ \A a \in Outstanding : acb[a].owner # context
    /\ context' = context - 1
    /\ bhs' = bhs \cup {context - 1}
    /\ Return
    /\ UNCHANGED <<lists, signalled>>

Without(s, a) ==
    IF \E i \in 1 .. Len(s) : s[i] = a
    THEN RemoveAt(s, CHOOSE i \in 1 .. Len(s) : s[i] = a) ELSE s

Removed(a) ==
    /\ first_aio' = Without(first_aio, a)
    /\ Release(a)

(* A request no thread has taken is taken off the list; for an active one  *)
(* paio_cancel waits; of a finished one only the callback is dropped.      *)
paio_cancel(a) ==
    /\ MayCall /\ Contains(first_aio, a)
    /\ IF acb[a].state = "active"
       THEN /\ Push([Frame("cancel") EXCEPT !.acb = a])
            /\ UNCHANGED <<acb, free_aiocb, first_aio, request_list>>
       ELSE /\ request_list' = Without(request_list, a)
            /\ Removed(a)
            /\ UNCHANGED frames
    /\ UNCHANGED <<signalled, context, bhs, called, submits, thread,
                   idle_threads, cur_threads>>

CancelDoesNotWait ==
    /\ top.kind = "cancel"
    /\ Removed(top.acb)
    /\ Return
    /\ UNCHANGED <<signalled, context, bhs, called, submits, pool>>

CancelWaited ==
    /\ top.kind = "cancel" /\ acb[top.acb].state = "done"
    /\ Removed(top.acb)
    /\ Return
    /\ UNCHANGED <<signalled, context, bhs, called, submits, pool>>

Complete ==
    \/ Kick \/ posix_aio_read \/ qemu_bh_poll \/ posix_aio_process_queue
    \/ CallbackReturns \/ CancelWaited

Run(t) == Take(t) \/ Idle(t) \/ Finish(t) \/ Kill(t)

Next ==
    \/ Complete \/ qemu_aio_wait \/ async_context_push \/ async_context_pop
    \/ \E a \in Acbs : paio_submit(a) \/ paio_ioctl(a) \/ paio_cancel(a)
    \/ \E t \in Threads : Run(t) \/ Timeout(t)

Spec == Init /\ [][Next]_vars

(* Threads run and system calls return; callbacks and nested contexts come *)
(* to an end; the main loop comes round to its select and to its bottom    *)
(* halves again and again, whatever was called in between.  The end of the *)
(* wait of a thread is not fair: no request depends on the ten seconds.    *)
FairSpec ==
    /\ Spec
    /\ WF_vars(Complete)
    /\ SF_vars(CallbackReturns) /\ SF_vars(async_context_pop)
    /\ SF_vars(top.kind = "main" /\ posix_aio_read)
    /\ SF_vars(top.kind = "main" /\ qemu_bh_poll)
    /\ \A t \in Threads : WF_vars(Run(t))

-----------------------------------------------------------------------------
(* The two counters that decide whether a thread is created are exact: no  *)
(* path of aio_thread, with its timeout, leaves them wrong.                *)
ThreadsCounted ==
    /\ cur_threads = Cardinality({t \in Threads : thread[t].pc # "none"})
    /\ idle_threads =
          Cardinality({t \in Threads : thread[t].pc \notin {"none", "work"}})

(* A request in the list is sure to be taken: a thread is awake, or the    *)
(* condition is about to be signalled with one waiting.                    *)
RequestNoticed ==
    request_list # <<>> =>
        \/ \E t \in Threads : thread[t].pc \in {"check", "timeout", "work", "kill"}
        \/ top.kind = "kick" /\ Waiting # {}

(* A control block in the pool, or one that waits in the list, is not in   *)
(* the hands of a thread, and an outstanding one is in the list once.      *)
OneOwner ==
    /\ \A t \in Threads : thread[t].pc = "work" => acb[thread[t].acb].state = "active"
    /\ IsInjective(first_aio) /\ IsInjective(free_aiocb) /\ IsInjective(request_list)
    /\ ToSet(first_aio) \cup {f.acb : f \in {g \in ToSet(frames) : g.kind = "callback"}}
          = Outstanding
    /\ ToSet(free_aiocb) = {a \in Acbs : acb[a].state = "free"}

(* The control blocks carry the context their request was submitted in.    *)
(* paio_submit sees to it, paio_ioctl does not.                            *)
Carried == \A a \in Acbs : acb[a].async_context_id = acb[a].owner
InContext == called.own = called.current

(* "Callbacks must only be run if they belong to the current AsyncContext" *)
(* (async.c) is kept, with callbacks inside callbacks, as long as no       *)
(* control block carries the context of an earlier request.                *)
RightContext == []Carried => []InContext

(* As long as the control blocks carry their contexts, every request is    *)
(* called back or cancelled, also when it finished while the callbacks of  *)
(* another context were run and the signal was used up.                    *)
EveryRequestEnds ==
    []Carried => \A a \in Acbs : a \in Outstanding ~> acb[a].state = "free"

=============================================================================
