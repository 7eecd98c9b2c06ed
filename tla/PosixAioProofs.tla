--------------------------- MODULE PosixAioProofs ---------------------------
(***************************************************************************)
(* Theorems about PosixAio for any number of control blocks, threads,      *)
(* requests and nested contexts.                                           *)
(***************************************************************************)
EXTENDS PosixAio, FiniteSetTheorems, SequenceTheorems, TLAPS

(* The context in which the calls made by a frame run                      *)
After(f) == IF f.kind = "context" THEN f.ctx + 1 ELSE f.ctx

(* The calls of the main thread nest: below them is the main loop, each    *)
(* was made in the context the one below it runs in, and the current       *)
(* context is the one the innermost runs in.                               *)
StackInv ==
    /\ frames[1].kind = "main"
    /\ \A i \in 1 .. Len(frames) - 1 : frames[i + 1].ctx = After(frames[i])
    /\ context = After(frames[Len(frames)])
    /\ \A i \in 1 .. Len(frames) :
         frames[i].kind \in {"callback", "cancel"} => frames[i].acb \in Acbs

(* A thread that works has a control block.                                *)
WorkInv == \A t \in Threads : thread[t].pc = "work" => thread[t].acb \in Acbs

Pcs == {"none", "check", "wait", "timeout", "work", "kill"}
States == {"new", "free", "queued", "active", "done"}
Blocks == [state : States, async_context_id : Contexts, owner : Contexts]

(* The parts of the type invariant                                         *)
StackType == frames \in Seq(Frames) /\ frames # <<>> /\ context \in Contexts
Runners == [pc : Pcs, acb : Acbs \cup {None}]
PoolType ==
    /\ thread \in [Threads -> Runners]
    /\ request_list \in Seq(Acbs)
    /\ idle_threads \in Nat /\ cur_threads \in Nat
MainType ==
    /\ acb \in [Acbs -> Blocks]
    /\ free_aiocb \in Seq(Acbs) /\ first_aio \in Seq(Acbs)
    /\ signalled \in BOOLEAN /\ bhs \in SUBSET Contexts
    /\ called \in [own : Contexts, current : Contexts]
    /\ submits \in 0 .. MaxSubmits

AioInv ==
    /\ StackType /\ StackInv
    /\ PoolType /\ WorkInv /\ ThreadsCounted
    /\ MainType

-----------------------------------------------------------------------------
(* Taking an element out of a list leaves a list.                          *)
LEMMA WithoutType ==
    ASSUME NEW S, NEW s \in Seq(S), NEW a
    PROVE  Without(s, a) \in Seq(S) /\ (s = <<>> => Without(s, a) = <<>>)
<1>1. CASE \E i \in 1 .. Len(s) : s[i] = a
  <2> DEFINE k == CHOOSE i \in 1 .. Len(s) : s[i] = a
  <2>1. k \in 1 .. Len(s)
    BY <1>1
  <2> HIDE DEF k
  <2>2. SubSeq(s, 1, k - 1) \in Seq(S) /\ SubSeq(s, k + 1, Len(s)) \in Seq(S)
    BY <2>1, SubSeqProperties
  <2>3. RemoveAt(s, k) \in Seq(S)
    BY <2>2 DEF RemoveAt
  <2> QED
    BY <1>1, <2>1, <2>3 DEF Without, k
<1>2. CASE ~ \E i \in 1 .. Len(s) : s[i] = a
  BY <1>2 DEF Without
<1> QED
  BY <1>1, <1>2

(* Front and Last of a list that is not empty                              *)
LEMMA FrontLast ==
    ASSUME NEW S, NEW s \in Seq(S), s # <<>>
    PROVE  /\ Len(s) \in Nat \ {0} /\ Last(s) = s[Len(s)] /\ Last(s) \in S
           /\ Front(s) \in Seq(S) /\ Len(Front(s)) = Len(s) - 1
           /\ \A i \in 1 .. Len(s) - 1 : Front(s)[i] = s[i]
<1>1. Len(s) \in Nat \ {0} /\ \A i \in 1 .. Len(s) : s[i] \in S
  OBVIOUS
<1>2. /\ SubSeq(s, 1, Len(s) - 1) \in Seq(S)
      /\ Len(SubSeq(s, 1, Len(s) - 1)) = Len(s) - 1
      /\ \A i \in 1 .. Len(s) - 1 : SubSeq(s, 1, Len(s) - 1)[i] = s[i]
  <2> DEFINE n == Len(s) - 1
  <2>1. n \in Int /\ \A i \in 1 .. n : s[i] \in S
    BY <1>1
  <2> HIDE DEF n
  <2>2. /\ SubSeq(s, 1, n) \in Seq(S)
        /\ Len(SubSeq(s, 1, n)) = IF 1 <= n THEN n - 1 + 1 ELSE 0
        /\ \A i \in 1 .. n - 1 + 1 : SubSeq(s, 1, n)[i] = s[1 + i - 1]
    BY <2>1, SubSeqProperties
  <2>3. n \in Nat
    BY <1>1 DEF n
  <2>4. Len(SubSeq(s, 1, n)) = n
    BY <2>2, <2>3
  <2>5. ASSUME NEW i \in 1 .. n
        PROVE  SubSeq(s, 1, n)[i] = s[i]
    <3>1. i \in 1 .. n - 1 + 1 /\ 1 + i - 1 = i
      BY <2>3
    <3> QED
      BY <2>2, <3>1
  <2> QED
    BY <2>2, <2>4, <2>5 DEF n
<1> QED
  BY <1>1, <1>2 DEF Front, Last

(* A call from the current context nests.                                  *)
LEMMA PushStack ==
    ASSUME StackType, StackInv, NEW f \in Frames,
           f.ctx = context, f.kind \in {"callback", "cancel"} => f.acb \in Acbs,
           Push(f), context' = After(f), context' \in Contexts
    PROVE  StackType' /\ StackInv' /\ top' = f
<1>1. /\ frames' \in Seq(Frames) /\ frames' # <<>> /\ Len(frames') = Len(frames) + 1
      /\ \A i \in 1 .. Len(frames) : frames'[i] = frames[i]
      /\ frames'[Len(frames) + 1] = f
  BY AppendProperties DEF StackType, Push
<1>2. Len(frames) \in Nat \ {0}
  BY DEF StackType
<1>3. top' = f
  BY <1>1, <1>2, FrontLast, Zenon DEF top
<1>4. frames'[1].kind = "main"
  BY <1>1, <1>2 DEF StackInv
<1>5. ASSUME NEW i \in 1 .. Len(frames') - 1
      PROVE  frames'[i + 1].ctx = After(frames'[i])
  <2>1. CASE i = Len(frames)
    BY <2>1, <1>1, <1>2 DEF StackInv
  <2>2. CASE i # Len(frames)
    <3>1. i \in 1 .. Len(frames) - 1 /\ i + 1 \in 1 .. Len(frames)
      BY <2>2, <1>1, <1>2
    <3> QED
      BY <3>1, <1>1 DEF StackInv
  <2> QED
    BY <2>1, <2>2
<1>6. context' = After(frames'[Len(frames')])
  BY <1>1, <1>2
<1>7. ASSUME NEW i \in 1 .. Len(frames')
      PROVE  frames'[i].kind \in {"callback", "cancel"} => frames'[i].acb \in Acbs
  <2>1. CASE i = Len(frames) + 1
    BY <2>1, <1>1
  <2>2. CASE i \in 1 .. Len(frames)
    BY <2>2, <1>1 DEF StackInv
  <2> QED
    BY <2>1, <2>2, <1>1, <1>2
<1> QED
  BY <1>1, <1>3, <1>4, <1>5, <1>6, <1>7 DEF StackType, StackInv

(* A frame that only moves to another place in the list                    *)
LEMMA MoveStack ==
    ASSUME StackType, StackInv, NEW p \in Nat \ {0},
           frames' = [frames EXCEPT ![Len(frames)].pos = p], UNCHANGED context
    PROVE  StackType' /\ StackInv' /\ top'.kind = top.kind
<1>1. Len(frames) \in Nat \ {0} /\ \A i \in 1 .. Len(frames) : frames[i] \in Frames
  BY DEF StackType
<1>2. /\ frames' \in Seq(Frames) /\ frames' # <<>> /\ Len(frames') = Len(frames)
  <2> DEFINE k == Len(frames)
             f == [frames[k] EXCEPT !.pos = p]
  <2>1. k \in 1 .. Len(frames) /\ f \in Frames
    BY <1>1 DEF Frames
  <2>2. frames' = [frames EXCEPT ![k] = f]
    OBVIOUS
  <2> HIDE DEF k, f
  <2>3. frames' \in Seq(Frames) /\ Len(frames') = Len(frames)
    BY <2>1, <2>2, ExceptSeq DEF StackType
  <2> QED
    BY <2>3, <1>1
<1>3. \A i \in 1 .. Len(frames) :
        /\ frames'[i].kind = frames[i].kind /\ frames'[i].ctx = frames[i].ctx
        /\ frames'[i].acb = frames[i].acb
  BY <1>1 DEF StackType, Frames
<1>4. \A i \in 1 .. Len(frames) : After(frames'[i]) = After(frames[i])
  BY <1>3 DEF After
<1>5. top'.kind = top.kind
  <2>1. top = frames[Len(frames)] /\ top' = frames'[Len(frames')]
    BY <1>2, FrontLast, Zenon DEF top, StackType
  <2> QED
    BY <2>1, <1>1, <1>2, <1>3
<1>6. \A i \in 1 .. Len(frames') - 1 : frames'[i + 1].ctx = After(frames'[i])
  BY <1>1, <1>2, <1>3, <1>4 DEF StackInv
<1> QED
  BY <1>1, <1>2, <1>3, <1>4, <1>5, <1>6 DEF StackType, StackInv

(* Returning from a call to the one below it                               *)
LEMMA PopStack ==
    ASSUME StackType, StackInv, top.kind # "main",
           Return, context' = top.ctx
    PROVE  StackType' /\ StackInv'
<1>1. /\ Len(frames) \in Nat \ {0} /\ top = frames[Len(frames)] /\ top \in Frames
      /\ frames' \in Seq(Frames) /\ Len(frames') = Len(frames) - 1
      /\ \A i \in 1 .. Len(frames) - 1 : frames'[i] = frames[i]
  BY FrontLast DEF StackType, top, Return
<1>2. Len(frames) > 1
  BY <1>1 DEF StackInv
<1>3. frames' # <<>> /\ frames'[1].kind = "main"
  BY <1>1, <1>2 DEF StackInv
<1>4. \A i \in 1 .. Len(frames') - 1 : frames'[i + 1].ctx = After(frames'[i])
  BY <1>1, <1>2 DEF StackInv
<1>5. context' = After(frames'[Len(frames')])
  <2>1. Len(frames) - 1 \in 1 .. Len(frames) - 1
    BY <1>1, <1>2
  <2>2. frames[(Len(frames) - 1) + 1].ctx = After(frames[Len(frames) - 1])
    BY <2>1 DEF StackInv
  <2> QED
    BY <2>1, <2>2, <1>1
<1>6. \A i \in 1 .. Len(frames') :
        frames'[i].kind \in {"callback", "cancel"} => frames'[i].acb \in Acbs
  BY <1>1, <1>2 DEF StackInv
<1>7. context' \in Contexts
  BY <1>1 DEF Frames
<1> QED
  BY <1>1, <1>3, <1>4, <1>5, <1>6, <1>7 DEF StackType, StackInv

(* The innermost call                                                      *)
LEMMA TopOfStack ==
    ASSUME StackType
    PROVE  /\ top = frames[Len(frames)] /\ top \in Frames
           /\ StackInv => /\ context = After(top)
                          /\ top.kind \in {"callback", "cancel"} => top.acb \in Acbs
<1>1. Len(frames) \in Nat \ {0} /\ top = frames[Len(frames)] /\ top \in Frames
  BY FrontLast DEF StackType, top
<1> QED
  BY <1>1 DEF StackInv

(* Returning from a callback to a scan that begins again                   *)
LEMMA PopMoveStack ==
    ASSUME StackType, StackInv, top.kind = "callback",
           frames' = [Front(frames) EXCEPT ![Len(frames) - 1].pos = 1],
           UNCHANGED context
    PROVE  StackType' /\ StackInv'
<1> DEFINE k == Len(frames) - 1
           g == Front(frames)
           f == [g[k] EXCEPT !.pos = 1]
<1>1. /\ Len(frames) \in Nat \ {0} /\ top = frames[Len(frames)]
      /\ g \in Seq(Frames) /\ Len(g) = k
      /\ \A i \in 1 .. k : g[i] = frames[i]
  BY FrontLast DEF StackType, top
<1>2. Len(frames) > 1
  BY <1>1 DEF StackInv
<1>3. k \in 1 .. Len(g) /\ k \in Nat \ {0}
  BY <1>1, <1>2
<1>4. g[k] \in Frames
  BY <1>1, <1>3
<1>5. /\ f \in Frames
      /\ f.kind = g[k].kind /\ f.acb = g[k].acb /\ f.ctx = g[k].ctx
  BY <1>4 DEF Frames
<1>6. frames' = [g EXCEPT ![k] = f]
  OBVIOUS
<1>7. Len(frames) = k + 1
  BY <1>1
<1> HIDE DEF k, g, f
<1>8. /\ frames' \in Seq(Frames) /\ Len(frames') = k
      /\ \A i \in 1 .. k : frames'[i] = IF i = k THEN f ELSE g[i]
  <2>1. /\ [g EXCEPT ![k] = f] \in Seq(Frames)
        /\ Len([g EXCEPT ![k] = f]) = Len(g)
        /\ \A i \in 1 .. Len(g) :
             [g EXCEPT ![k] = f][i] = IF i = k THEN f ELSE g[i]
    <3>1. g \in Seq(Frames) /\ k \in 1 .. Len(g) /\ f \in Frames
      BY <1>1, <1>3, <1>5
    <3> QED
      BY <3>1, ExceptSeq
  <2> QED
    BY <2>1, <1>1, <1>6, Zenon
<1>9. \A i \in 1 .. k :
        /\ frames'[i].kind = frames[i].kind /\ frames'[i].ctx = frames[i].ctx
        /\ frames'[i].acb = frames[i].acb
  <2> TAKE i \in 1 .. k
  <2>1. CASE i = k
    BY <2>1, <1>1, <1>3, <1>5, <1>8, Zenon
  <2>2. CASE i # k
    BY <2>2, <1>1, <1>3, <1>8, Zenon
  <2> QED
    BY <2>1, <2>2
<1>10. \A i \in 1 .. k : After(frames'[i]) = After(frames[i])
  BY <1>9 DEF After
<1>11. \A i \in 1 .. Len(frames') - 1 : frames'[i + 1].ctx = After(frames'[i])
  BY <1>3, <1>7, <1>8, <1>9, <1>10 DEF StackInv
<1>12. context' = After(frames'[Len(frames')])
  <2>1. After(frames[Len(frames)]) = frames[k + 1].ctx
    BY <1>1, <1>7 DEF After
  <2>2. frames[k + 1].ctx = After(frames[k])
    BY <1>3, <1>7 DEF StackInv
  <2> QED
    <3>1. context = After(frames[k])
      BY <2>1, <2>2 DEF StackInv
    <3>2. Len(frames') = k /\ k \in 1 .. k
      BY <1>3, <1>8
    <3> QED
      BY <3>1, <3>2, <1>10
<1>13. \A i \in 1 .. Len(frames') :
         frames'[i].kind \in {"callback", "cancel"} => frames'[i].acb \in Acbs
  BY <1>3, <1>7, <1>8, <1>9 DEF StackInv
<1>14. frames' # <<>> /\ frames'[1].kind = "main"
  BY <1>3, <1>8, <1>9 DEF StackInv
<1> QED
  BY <1>8, <1>11, <1>12, <1>13, <1>14, Zenon DEF StackType, StackInv

-----------------------------------------------------------------------------
(* What a thread adds to cur_threads and to idle_threads                   *)
Lives(pc) == IF pc = "none" THEN 0 ELSE 1
Idles(pc) == IF pc \in {"none", "work"} THEN 0 ELSE 1

(* An element that may join or leave a finite set changes its size by one. *)
LEMMA Recount ==
    ASSUME NEW S, IsFiniteSet(S), NEW T, NEW t,
           \A u : u # t => (u \in S <=> u \in T)
    PROVE  /\ IsFiniteSet(T) /\ Cardinality(S) \in Nat /\ Cardinality(T) \in Nat
           /\ Cardinality(T) = Cardinality(S) - (IF t \in S THEN 1 ELSE 0)
                                              + (IF t \in T THEN 1 ELSE 0)
<1>1. Cardinality(S) \in Nat
  BY FS_CardinalityType
<1>2. CASE t \in T
  <2>1. T = S \cup {t}
    BY <1>2
  <2> QED
    BY <2>1, <1>1, <1>2, FS_AddElement, FS_CardinalityType
<1>3. CASE t \notin T
  <2>1. T = S \ {t}
    BY <1>3
  <2> QED
    BY <2>1, <1>1, <1>3, FS_RemoveElement, FS_CardinalityType
<1> QED
  BY <1>2, <1>3

(* A step of one thread that keeps the counters in step with its place     *)
(* keeps them exact.                                                       *)
LEMMA CountStep ==
    ASSUME PoolType, ThreadsCounted, NEW t \in Threads, NEW r \in Runners,
           thread' = [thread EXCEPT ![t] = r],
           cur_threads' = cur_threads - Lives(thread[t].pc) + Lives(r.pc),
           idle_threads' = idle_threads - Idles(thread[t].pc) + Idles(r.pc)
    PROVE  /\ thread' \in [Threads -> Runners]
           /\ cur_threads' \in Nat /\ idle_threads' \in Nat
           /\ ThreadsCounted'
<1> DEFINE L == {u \in Threads : thread[u].pc # "none"}
           M == {u \in Threads : thread'[u].pc # "none"}
           I == {u \in Threads : thread[u].pc \notin {"none", "work"}}
           J == {u \in Threads : thread'[u].pc \notin {"none", "work"}}
<1>1. /\ thread' \in [Threads -> Runners] /\ thread'[t] = r
      /\ \A u \in Threads : u # t => thread'[u] = thread[u]
  BY DEF PoolType
<1>2. IsFiniteSet(L) /\ IsFiniteSet(I)
  BY AioAssumption, FS_Subset
<1>3. /\ \A u : u # t => (u \in L <=> u \in M)
      /\ \A u : u # t => (u \in I <=> u \in J)
      /\ (t \in L <=> thread[t].pc # "none") /\ (t \in M <=> r.pc # "none")
      /\ (t \in I <=> thread[t].pc \notin {"none", "work"})
      /\ (t \in J <=> r.pc \notin {"none", "work"})
  BY <1>1
<1>4. cur_threads = Cardinality(L) /\ idle_threads = Cardinality(I)
  BY DEF ThreadsCounted
<1>5. (ThreadsCounted)' <=> cur_threads' = Cardinality(M) /\ idle_threads' = Cardinality(J)
  BY DEF ThreadsCounted
<1> HIDE DEF L, M, I, J
<1>6. Cardinality(M) \in Nat /\ cur_threads' = Cardinality(M)
  BY <1>2, <1>3, <1>4, Recount DEF Lives
<1>7. Cardinality(J) \in Nat /\ idle_threads' = Cardinality(J)
  BY <1>2, <1>3, <1>4, Recount DEF Idles
<1> QED
  BY <1>1, <1>5, <1>6, <1>7

-----------------------------------------------------------------------------
(* Calls without a control block                                           *)
LEMMA FramePlain ==
    ASSUME StackType, NEW k \in {"kick", "scan", "context"}
    PROVE  /\ Frame(k) \in Frames /\ Frame(k).kind = k /\ Frame(k).ctx = context
           /\ After(Frame(k)) = IF k = "context" THEN context + 1 ELSE context
BY DEF StackType, Frame, Frames, After

(* A call in the current context that leaves it current                    *)
LEMMA CallStack ==
    ASSUME StackType, StackInv, NEW k \in {"kick", "scan"},
           Push(Frame(k)), UNCHANGED context
    PROVE  StackType' /\ StackInv' /\ top'.kind = k
<1>1. /\ Frame(k) \in Frames /\ Frame(k).kind = k /\ Frame(k).ctx = context
      /\ After(Frame(k)) = context
  BY FramePlain
<1>2. context' = After(Frame(k)) /\ context' \in Contexts
  BY <1>1 DEF StackType
<1>3. ~(Frame(k).kind \in {"callback", "cancel"})
  BY <1>1
<1> QED
  BY <1>1, <1>2, <1>3, PushStack

(* spawn_thread counts the new thread, in both counters.                   *)
LEMMA SpawnCounted ==
    ASSUME PoolType, WorkInv, ThreadsCounted, SpawnIfBusy,
           request_list' \in Seq(Acbs)
    PROVE  PoolType' /\ WorkInv' /\ ThreadsCounted'
<1>1. CASE idle_threads = 0 /\ cur_threads < Cardinality(Threads)
  <2>1. PICK t \in Threads : /\ thread[t].pc = "none"
                             /\ thread' = [thread EXCEPT ![t].pc = "check"]
    BY <1>1 DEF SpawnIfBusy
  <2> DEFINE r == [thread[t] EXCEPT !.pc = "check"]
  <2>2. r \in Runners /\ r.pc = "check"
    BY DEF PoolType, Runners, Pcs
  <2>3. thread' = [thread EXCEPT ![t] = r]
    BY <2>1
  <2>4. /\ cur_threads' = cur_threads - Lives(thread[t].pc) + Lives(r.pc)
        /\ idle_threads' = idle_threads - Idles(thread[t].pc) + Idles(r.pc)
    BY <1>1, <2>1, <2>2 DEF SpawnIfBusy, Lives, Idles, PoolType
  <2> HIDE DEF r
  <2>5. /\ thread' \in [Threads -> Runners] /\ ThreadsCounted'
        /\ cur_threads' \in Nat /\ idle_threads' \in Nat
    BY <2>2, <2>3, <2>4, CountStep, Zenon
  <2>6. WorkInv'
    BY <2>2, <2>3 DEF WorkInv, PoolType
  <2> QED
    BY <2>5, <2>6 DEF PoolType
<1>2. CASE ~(idle_threads = 0 /\ cur_threads < Cardinality(Threads))
  <2>1. UNCHANGED <<thread, idle_threads, cur_threads>>
    BY <1>2 DEF SpawnIfBusy
  <2> QED
    BY <2>1 DEF PoolType, WorkInv, ThreadsCounted
<1> QED
  BY <1>1, <1>2

(* A step of a thread from one place to another, with or without a request *)
LEMMA ThreadStep ==
    ASSUME PoolType, WorkInv, ThreadsCounted,
           NEW t \in Threads, NEW r \in Runners, r.pc = "work" => r.acb \in Acbs,
           thread' = [thread EXCEPT ![t] = r], request_list' \in Seq(Acbs),
           cur_threads' = cur_threads - Lives(thread[t].pc) + Lives(r.pc),
           idle_threads' = idle_threads - Idles(thread[t].pc) + Idles(r.pc)
    PROVE  PoolType' /\ WorkInv' /\ ThreadsCounted'
<1>1. /\ thread' \in [Threads -> Runners] /\ ThreadsCounted'
      /\ cur_threads' \in Nat /\ idle_threads' \in Nat
  BY CountStep, Zenon
<1>2. WorkInv'
  BY DEF WorkInv, PoolType
<1> QED
  BY <1>1, <1>2 DEF PoolType

-----------------------------------------------------------------------------
(* Initially there is only the main loop and no thread.                    *)
LEMMA AioInit ==
    ASSUME Init PROVE AioInv
<1>1. Frame("main") \in Frames /\ Frame("main").kind = "main"
      /\ After(Frame("main")) = 0 /\ context \in Contexts
  BY AioAssumption DEF Init, Frame, Frames, After, Contexts
<1>2. StackType /\ StackInv
  <2> DEFINE f == Frame("main")
  <2>1. /\ f \in Frames /\ f.kind = "main" /\ After(f) = 0 /\ context \in Contexts
        /\ frames = <<f>> /\ context = 0
    BY <1>1 DEF Init
  <2> HIDE DEF f
  <2>2. frames \in Seq(Frames) /\ frames # <<>> /\ Len(frames) = 1 /\ frames[1] = f
    BY <2>1
  <2>3. \A i \in 1 .. Len(frames) - 1 : FALSE
    BY <2>2
  <2>4. \A i \in 1 .. Len(frames) : frames[i] = f
    BY <2>2
  <2> QED
    BY <2>1, <2>2, <2>3, <2>4 DEF StackType, StackInv
<1>3. PoolType /\ WorkInv
  BY DEF Init, PoolType, WorkInv, Runners, Pcs
<1>4. ThreadsCounted
  <2>1. /\ {t \in Threads : thread[t].pc # "none"} = {}
        /\ {t \in Threads : thread[t].pc \notin {"none", "work"}} = {}
    BY DEF Init
  <2> QED
    BY <2>1, FS_EmptySet, Zenon DEF Init, ThreadsCounted
<1>5. MainType
  <2>1. 0 \in Contexts /\ 0 \in 0 .. MaxSubmits
    BY AioAssumption DEF Contexts
  <2>2. acb \in [Acbs -> Blocks] /\ called \in [own : Contexts, current : Contexts]
    BY <2>1 DEF Init, Blocks, States
  <2>3. free_aiocb \in Seq(Acbs) /\ first_aio \in Seq(Acbs) /\ bhs \in SUBSET Contexts
    BY DEF Init
  <2>4. signalled \in BOOLEAN
    BY Zenon DEF Init
  <2> QED
    BY <2>1, <2>2, <2>3, <2>4 DEF Init, MainType
<1> QED
  BY <1>2, <1>3, <1>4, <1>5 DEF AioInv

(* What the main thread does keeps its calls nested.                       *)
LEMMA StackNext ==
    ASSUME AioInv, [Next]_vars
    PROVE  StackType' /\ StackInv'
<1> USE DEF AioInv
<1>1. CASE Kick
  <2>1. top.kind # "main" /\ Return /\ context' = top.ctx
    BY <1>1, TopOfStack DEF Kick, After
  <2> QED
    BY <2>1, PopStack
<1>2. CASE posix_aio_read \/ qemu_aio_wait \/ qemu_bh_poll
  <2>1. Push(Frame("scan")) /\ UNCHANGED context
    BY <1>2 DEF posix_aio_read, qemu_aio_wait, qemu_bh_poll
  <2> QED
    BY <2>1, CallStack
<1>3. CASE posix_aio_process_queue
  <2>1. UNCHANGED context /\ top \in Frames
    BY <1>3, TopOfStack DEF posix_aio_process_queue
  <2>2. CASE Interesting
    <3> DEFINE f == [Frame("callback") EXCEPT !.acb = At]
    <3>1. At \in Acbs /\ Push(f)
      BY <1>3, <2>1, <2>2
      DEF posix_aio_process_queue, Interesting, At, Frames, MainType
    <3>f. f = [Frame("callback") EXCEPT !.acb = At]
      OBVIOUS
    <3> HIDE DEF f
    <3>2. f \in Frames /\ f.ctx = context /\ f.acb = At /\ After(f) = context
      BY <3>1, <3>f DEF StackType, Frame, Frames, After
    <3>3. context' = After(f) /\ context' \in Contexts
      BY <2>1, <3>2 DEF StackType
    <3> QED
      BY <3>1, <3>2, <3>3, PushStack
  <2>3. CASE ~Interesting /\ top.pos <= Len(first_aio)
    <3>1. frames' = [frames EXCEPT ![Len(frames)].pos = top.pos + 1]
      BY <1>3, <2>3 DEF posix_aio_process_queue, ScanAt
    <3>2. top.pos + 1 \in Nat \ {0}
      BY <2>1 DEF Frames
    <3> QED
      BY <3>1, <3>2, <2>1, MoveStack, Zenon
  <2>4. CASE ~Interesting /\ ~(top.pos <= Len(first_aio))
    <3>1. top.kind # "main" /\ Return /\ context' = top.ctx
      BY <1>3, <2>4, TopOfStack DEF posix_aio_process_queue, After, Return
    <3> QED
      BY <3>1, PopStack
  <2> QED
    BY <2>2, <2>3, <2>4
<1>4. CASE CallbackReturns
  BY <1>4, PopMoveStack DEF CallbackReturns
<1>5. CASE CancelWaited
  <2>1. top.kind # "main" /\ Return /\ context' = top.ctx
    BY <1>5, TopOfStack DEF CancelWaited, After
  <2> QED
    BY <2>1, PopStack
<1>6. CASE async_context_push
  <2>1. /\ Frame("context") \in Frames /\ Frame("context").kind = "context"
        /\ Frame("context").ctx = context
        /\ After(Frame("context")) = context + 1
    BY FramePlain
  <2>2. Push(Frame("context")) /\ context' = context + 1 /\ context' \in Contexts
    BY <1>6, AioAssumption DEF async_context_push, StackType, Contexts
  <2>3. ~(Frame("context").kind \in {"callback", "cancel"})
    BY <2>1
  <2> QED
    BY <2>1, <2>2, <2>3, PushStack
<1>7. CASE async_context_pop
  <2>1. top.kind # "main" /\ Return /\ context' = top.ctx
    <3>1. context = top.ctx + 1 /\ top.ctx \in Nat
      BY <1>7, TopOfStack DEF async_context_pop, After, Frames, Contexts
    <3> QED
      BY <1>7, <3>1 DEF async_context_pop
  <2> QED
    BY <2>1, PopStack
<1>8. ASSUME NEW a \in Acbs, NEW id, Submit(a, id)
      PROVE  StackType' /\ StackInv'
  <2>1. Push(Frame("kick")) /\ UNCHANGED context
    BY <1>8 DEF Submit
  <2> QED
    BY <2>1, CallStack
<1>9. ASSUME NEW a \in Acbs, paio_cancel(a)
      PROVE  StackType' /\ StackInv'
  <2>1. CASE acb[a].state = "active"
    <3> DEFINE f == [Frame("cancel") EXCEPT !.acb = a]
    <3>1. Push(f) /\ UNCHANGED context
      BY <1>9, <2>1 DEF paio_cancel
    <3>f. f = [Frame("cancel") EXCEPT !.acb = a]
      OBVIOUS
    <3> HIDE DEF f
    <3>2. f \in Frames /\ f.ctx = context /\ f.acb = a /\ After(f) = context
      BY <3>f DEF StackType, Frame, Frames, After
    <3>3. context' = After(f) /\ context' \in Contexts
      BY <3>1, <3>2 DEF StackType
    <3> QED
      BY <3>1, <3>2, <3>3, PushStack
  <2>2. CASE acb[a].state # "active"
    BY <1>9, <2>2 DEF paio_cancel, StackType, StackInv
  <2> QED
    BY <2>1, <2>2
<1>10. ASSUME UNCHANGED <<frames, context>>
       PROVE  StackType' /\ StackInv'
  BY <1>10 DEF StackType, StackInv
<1>11. ASSUME NEW t \in Threads, Run(t) \/ Timeout(t)
       PROVE  UNCHANGED <<frames, context>>
  BY <1>11 DEF Run, Take, Idle, Finish, Kill, Timeout, main
<1> QED
  BY <1>1, <1>2, <1>3, <1>4, <1>5, <1>6, <1>7, <1>8, <1>9, <1>10, <1>11
  DEF Next, Complete, paio_submit, paio_ioctl, vars, main

(* What threads do, and the main thread does to them, keeps the counters   *)
(* exact.                                                                  *)
LEMMA PoolNext ==
    ASSUME AioInv, [Next]_vars
    PROVE  PoolType' /\ WorkInv' /\ ThreadsCounted'
<1> USE DEF AioInv
<1>1. CASE Kick
  <2>1. CASE Waiting = {}
    BY <1>1, <2>1 DEF Kick, PoolType, WorkInv, ThreadsCounted
  <2>2. CASE Waiting # {}
    <3>1. PICK t \in Waiting : thread' = [thread EXCEPT ![t].pc = "check"]
      BY <1>1, <2>2 DEF Kick
    <3> DEFINE r == [thread[t] EXCEPT !.pc = "check"]
    <3>2. /\ t \in Threads /\ thread[t].pc = "wait"
          /\ r \in Runners /\ r.pc = "check" /\ thread' = [thread EXCEPT ![t] = r]
      BY <3>1 DEF Waiting, PoolType, Runners, Pcs
    <3> HIDE DEF r
    <3>3. /\ cur_threads' = cur_threads - Lives(thread[t].pc) + Lives(r.pc)
          /\ idle_threads' = idle_threads - Idles(thread[t].pc) + Idles(r.pc)
      BY <1>1, <3>2 DEF Kick, Lives, Idles, PoolType
    <3>4. request_list' \in Seq(Acbs)
      BY <1>1 DEF Kick, PoolType
    <3> QED
      BY <3>2, <3>3, <3>4, ThreadStep, Zenon
  <2> QED
    BY <2>1, <2>2
<1>2. ASSUME UNCHANGED pool
      PROVE  PoolType' /\ WorkInv' /\ ThreadsCounted'
  BY <1>2 DEF pool, PoolType, WorkInv, ThreadsCounted
<1>3. ASSUME NEW a \in Acbs, NEW id, Submit(a, id)
      PROVE  PoolType' /\ WorkInv' /\ ThreadsCounted'
  <2>1. SpawnIfBusy /\ request_list' \in Seq(Acbs)
    BY <1>3 DEF Submit, PoolType
  <2> QED
    BY <2>1, SpawnCounted
<1>4. ASSUME NEW a \in Acbs, paio_cancel(a)
      PROVE  PoolType' /\ WorkInv' /\ ThreadsCounted'
  <2>1. request_list' \in Seq(Acbs)
    BY <1>4, WithoutType DEF paio_cancel, PoolType
  <2>2. UNCHANGED <<thread, idle_threads, cur_threads>>
    BY <1>4 DEF paio_cancel
  <2> QED
    BY <2>1, <2>2 DEF PoolType, WorkInv, ThreadsCounted
<1>5. ASSUME NEW t \in Threads, Take(t)
      PROVE  PoolType' /\ WorkInv' /\ ThreadsCounted'
  <2> DEFINE r == [pc |-> "work", acb |-> Head(request_list)]
  <2>1. /\ r \in Runners /\ r.pc = "work" /\ r.acb \in Acbs
        /\ request_list' \in Seq(Acbs)
    BY <1>5 DEF Take, PoolType, Runners, Pcs
  <2>2. thread' = [thread EXCEPT ![t] = r]
    BY <1>5 DEF Take
  <2> HIDE DEF r
  <2>3. /\ cur_threads' = cur_threads - Lives(thread[t].pc) + Lives(r.pc)
        /\ idle_threads' = idle_threads - Idles(thread[t].pc) + Idles(r.pc)
    BY <1>5, <2>1 DEF Take, Lives, Idles, PoolType
  <2> QED
    BY <2>1, <2>2, <2>3, ThreadStep, Zenon
<1>6. ASSUME NEW t \in Threads, Idle(t)
      PROVE  PoolType' /\ WorkInv' /\ ThreadsCounted'
  <2> DEFINE r == [thread[t] EXCEPT !.pc = IF thread[t].pc = "check" THEN "wait"
                                                                     ELSE "none"]
  <2>1. /\ r \in Runners
        /\ r.pc = IF thread[t].pc = "check" THEN "wait" ELSE "none"
        /\ thread' = [thread EXCEPT ![t] = r]
    BY <1>6 DEF Idle, PoolType, Runners, Pcs
  <2> HIDE DEF r
  <2>2. /\ cur_threads' = cur_threads - Lives(thread[t].pc) + Lives(r.pc)
        /\ idle_threads' = idle_threads - Idles(thread[t].pc) + Idles(r.pc)
    BY <1>6, <2>1 DEF Idle, Lives, Idles, PoolType
  <2>3. request_list' \in Seq(Acbs) /\ r.pc # "work"
    BY <1>6, <2>1 DEF Idle, PoolType
  <2> QED
    BY <2>1, <2>2, <2>3, ThreadStep, Zenon
<1>7. ASSUME NEW t \in Threads, Timeout(t)
      PROVE  PoolType' /\ WorkInv' /\ ThreadsCounted'
  <2> DEFINE r == [thread[t] EXCEPT !.pc = "timeout"]
  <2>1. r \in Runners /\ r.pc = "timeout" /\ thread' = [thread EXCEPT ![t] = r]
    BY <1>7 DEF Timeout, PoolType, Runners, Pcs
  <2> HIDE DEF r
  <2>2. /\ cur_threads' = cur_threads - Lives(thread[t].pc) + Lives(r.pc)
        /\ idle_threads' = idle_threads - Idles(thread[t].pc) + Idles(r.pc)
        /\ request_list' \in Seq(Acbs)
    BY <1>7, <2>1 DEF Timeout, Lives, Idles, PoolType
  <2> QED
    BY <2>1, <2>2, ThreadStep, Zenon
<1>8. ASSUME NEW t \in Threads, Finish(t)
      PROVE  PoolType' /\ WorkInv' /\ ThreadsCounted'
  <2> DEFINE r == [thread[t] EXCEPT !.pc = "kill"]
  <2>1. r \in Runners /\ r.pc = "kill" /\ thread' = [thread EXCEPT ![t] = r]
    BY <1>8 DEF Finish, PoolType, Runners, Pcs
  <2> HIDE DEF r
  <2>2. /\ cur_threads' = cur_threads - Lives(thread[t].pc) + Lives(r.pc)
        /\ idle_threads' = idle_threads - Idles(thread[t].pc) + Idles(r.pc)
        /\ request_list' \in Seq(Acbs)
    BY <1>8, <2>1 DEF Finish, Lives, Idles, PoolType
  <2> QED
    BY <2>1, <2>2, ThreadStep, Zenon
<1>9. ASSUME NEW t \in Threads, Kill(t)
      PROVE  PoolType' /\ WorkInv' /\ ThreadsCounted'
  <2> DEFINE r == [pc |-> "check", acb |-> None]
  <2>1. r \in Runners /\ r.pc = "check" /\ thread' = [thread EXCEPT ![t] = r]
    BY <1>9 DEF Kill, Runners, Pcs
  <2> HIDE DEF r
  <2>2. /\ cur_threads' = cur_threads - Lives(thread[t].pc) + Lives(r.pc)
        /\ idle_threads' = idle_threads - Idles(thread[t].pc) + Idles(r.pc)
        /\ request_list' \in Seq(Acbs)
    BY <1>9, <2>1 DEF Kill, Lives, Idles, PoolType
  <2> QED
    BY <2>1, <2>2, ThreadStep, Zenon
<1>10. CASE \/ posix_aio_read \/ qemu_aio_wait \/ qemu_bh_poll
            \/ posix_aio_process_queue \/ CallbackReturns \/ CancelWaited
            \/ async_context_push \/ async_context_pop \/ UNCHANGED vars
  <2>1. UNCHANGED pool
    BY <1>10
    DEF posix_aio_read, qemu_aio_wait, qemu_bh_poll, posix_aio_process_queue,
        CallbackReturns, CancelWaited, async_context_push, async_context_pop,
        lists, pool, vars
  <2> QED
    BY <2>1, <1>2
<1> QED
  BY <1>1, <1>3, <1>4, <1>5, <1>6, <1>7, <1>8, <1>9, <1>10, SMTT(20)
  DEF Next, Complete, Run, paio_submit, paio_ioctl

(* Releasing a control block puts it into the pool.                        *)
LEMMA ReleaseType ==
    ASSUME MainType, NEW a \in Acbs, Release(a)
    PROVE  acb' \in [Acbs -> Blocks] /\ free_aiocb' \in Seq(Acbs)
<1>1. acb' \in [Acbs -> Blocks]
  BY Zenon DEF MainType, Release, Blocks, States
<1>2. <<a>> \in Seq(Acbs)
  OBVIOUS
<1>3. free_aiocb' \in Seq(Acbs)
  BY <1>2 DEF MainType, Release
<1> QED
  BY <1>1, <1>3

(* The control blocks, the lists they are in and the contexts keep their   *)
(* types.                                                                  *)
LEMMA MainNext ==
    ASSUME AioInv, [Next]_vars
    PROVE  MainType'
<1> USE DEF AioInv
<1>1. signalled' \in BOOLEAN
  BY Zenon
  DEF MainType, Next, Complete, Kick, posix_aio_read, qemu_bh_poll, qemu_aio_wait,
      posix_aio_process_queue, CallbackReturns, CancelWaited, async_context_push,
      async_context_pop, paio_submit, paio_ioctl, Submit, paio_cancel, Run, Take,
      Idle, Finish, Kill, Timeout, vars, main
<1>2. ASSUME NEW a \in Acbs, NEW id \in Contexts, Submit(a, id)
      PROVE  MainType'
  <2>1. acb' \in [Acbs -> Blocks]
    BY <1>2 DEF Submit, MainType, Blocks, States, StackType
  <2>2. free_aiocb' \in Seq(Acbs)
    BY <1>2 DEF Submit, MainType
  <2>3. first_aio' \in Seq(Acbs)
    BY <1>2 DEF Submit, MainType
  <2>4. submits' \in 0 .. MaxSubmits
    BY <1>2, AioAssumption DEF Submit, MainType
  <2> QED
    BY <1>1, <1>2, <2>1, <2>2, <2>3, <2>4 DEF Submit, MainType
<1>3. ASSUME NEW a \in Acbs, paio_cancel(a)
      PROVE  MainType'
  <2>1. CASE acb[a].state = "active"
    BY <1>1, <1>3, <2>1 DEF paio_cancel, MainType
  <2>2. CASE acb[a].state # "active"
    <3>1. Release(a) /\ first_aio' = Without(first_aio, a)
      BY <1>3, <2>2 DEF paio_cancel, Removed
    <3>2. /\ acb' \in [Acbs -> Blocks] /\ free_aiocb' \in Seq(Acbs)
          /\ first_aio' \in Seq(Acbs)
      BY <3>1, ReleaseType, WithoutType DEF MainType
    <3> QED
      BY <1>1, <1>3, <3>2 DEF paio_cancel, MainType
  <2> QED
    BY <2>1, <2>2
<1>4. CASE CancelWaited
  <2>1. top.acb \in Acbs
    BY <1>4, TopOfStack DEF CancelWaited
  <2>2. Release(top.acb) /\ first_aio' = Without(first_aio, top.acb)
    BY <1>4 DEF CancelWaited, Removed
  <2>3. /\ acb' \in [Acbs -> Blocks] /\ free_aiocb' \in Seq(Acbs)
        /\ first_aio' \in Seq(Acbs)
    BY <2>1, <2>2, ReleaseType, WithoutType DEF MainType
  <2> QED
    BY <1>1, <1>4, <2>3 DEF CancelWaited, MainType
<1>5. CASE CallbackReturns
  <2>1. top.acb \in Acbs
    BY <1>5, TopOfStack DEF CallbackReturns
  <2>2. acb' \in [Acbs -> Blocks] /\ free_aiocb' \in Seq(Acbs)
    BY <1>5, <2>1, ReleaseType DEF CallbackReturns
  <2> QED
    BY <1>1, <1>5, <2>2 DEF CallbackReturns, MainType
<1>6. CASE posix_aio_process_queue
  <2>1. CASE Interesting
    <3>1. top.pos \in 1 .. Len(first_aio)
      BY <2>1, TopOfStack DEF Interesting, Frames, MainType
    <3>2. At \in Acbs
      BY <3>1 DEF At, MainType
    <3>3. called' \in [own : Contexts, current : Contexts]
      BY <1>6, <2>1, <3>2
      DEF posix_aio_process_queue, MainType, Blocks, StackType
    <3>4. first_aio' \in Seq(Acbs)
      <4> DEFINE k == top.pos
      <4> HIDE DEF k
      <4>1. k \in 1 .. Len(first_aio) /\ first_aio' = RemoveAt(first_aio, k)
        BY <1>6, <2>1, <3>1 DEF posix_aio_process_queue, k
      <4>2. /\ SubSeq(first_aio, 1, k - 1) \in Seq(Acbs)
            /\ SubSeq(first_aio, k + 1, Len(first_aio)) \in Seq(Acbs)
        BY <4>1, SubSeqProperties DEF MainType
      <4> QED
        BY <4>1, <4>2 DEF RemoveAt
    <3> QED
      BY <1>1, <1>6, <3>3, <3>4 DEF posix_aio_process_queue, MainType
  <2>2. CASE ~Interesting
    BY <1>1, <1>6, <2>2 DEF posix_aio_process_queue, MainType
  <2> QED
    BY <2>1, <2>2
<1>7. CASE posix_aio_read \/ qemu_aio_wait \/ qemu_bh_poll \/ async_context_push
  BY <1>1, <1>7
  DEF posix_aio_read, qemu_aio_wait, qemu_bh_poll, async_context_push, lists, MainType
<1>8. CASE async_context_pop
  <2>1. context - 1 \in Contexts
    <3>1. context = top.ctx + 1 /\ top.ctx \in Contexts /\ top.ctx \in Nat
      BY <1>8, TopOfStack DEF async_context_pop, After, Frames, Contexts
    <3> QED
      BY <3>1
  <2> QED
    BY <1>1, <1>8, <2>1 DEF async_context_pop, lists, MainType
<1>9. ASSUME NEW t \in Threads, Take(t)
      PROVE  MainType'
  <2>1. Head(request_list) \in Acbs
    BY <1>9 DEF Take, PoolType
  <2>2. acb' \in [Acbs -> Blocks]
    BY <1>9, <2>1, Zenon DEF Take, MainType, Blocks, States
  <2> QED
    BY <1>1, <1>9, <2>2 DEF Take, MainType
<1>10. ASSUME NEW t \in Threads, Finish(t)
       PROVE  MainType'
  <2>1. acb' \in [Acbs -> Blocks]
    BY <1>10, Zenon DEF Finish, WorkInv, MainType, Blocks, States
  <2> QED
    BY <1>1, <1>10, <2>1 DEF Finish, MainType
<1>11. ASSUME UNCHANGED <<acb, free_aiocb, first_aio, bhs, called, submits>>
       PROVE  MainType'
  BY <1>1, <1>11 DEF MainType
<1>12. ASSUME NEW t \in Threads, Idle(t) \/ Kill(t) \/ Timeout(t)
       PROVE  UNCHANGED <<acb, free_aiocb, first_aio, bhs, called, submits>>
  BY <1>12 DEF Idle, Kill, Timeout, main
<1>13. ASSUME NEW a \in Acbs, paio_submit(a) \/ paio_ioctl(a)
       PROVE  \E id \in Contexts : Submit(a, id)
  BY <1>13 DEF paio_submit, paio_ioctl, MainType, Blocks, StackType
<1> QED
  BY <1>2, <1>3, <1>4, <1>5, <1>6, <1>7, <1>8, <1>9, <1>10, <1>11, <1>12, <1>13, SMTT(20)
  DEF Next, Complete, Kick, Run, vars, main

(* The invariant is preserved by every step.                               *)
LEMMA AioNext ==
    ASSUME AioInv, [Next]_vars PROVE AioInv'
BY StackNext, PoolNext, MainNext DEF AioInv

(* The main thread's calls nest, and no path of a thread, with its timeout *)
(* and its request, leaves a counter or a list wrong.                      *)
THEOREM AioInvariant == Spec => []AioInv
<1>1. Init => AioInv
  BY AioInit
<1>2. AioInv /\ [Next]_vars => AioInv'
  BY AioNext
<1> QED
  BY <1>1, <1>2, PTL DEF Spec

(* cur_threads and idle_threads, which decide whether qemu_paio_submit     *)
(* creates a thread, are exact for any number of threads and requests.     *)
THEOREM AioThreadsCounted == Spec => []ThreadsCounted
<1>1. AioInv => ThreadsCounted
  BY DEF AioInv
<1> QED
  BY <1>1, AioInvariant, PTL

(* Everything keeps its type; in particular there are never more threads   *)
(* than max_threads, and async_context_pop never goes below context 0.     *)
THEOREM AioTypeOK == Spec => []TypeOK
<1>1. ASSUME AioInv PROVE TypeOK
  <2> USE <1>1 DEF AioInv
  <2>1. cur_threads <= Cardinality(Threads) /\ idle_threads <= Cardinality(Threads)
    BY AioAssumption, FS_Subset DEF ThreadsCounted
  <2>2. Cardinality(Threads) \in Nat
    BY AioAssumption, FS_CardinalityType
  <2>3. /\ cur_threads \in 0 .. Cardinality(Threads)
        /\ idle_threads \in 0 .. Cardinality(Threads)
    BY <2>1, <2>2 DEF PoolType
  <2> QED
    BY <2>3
    DEF TypeOK, StackType, PoolType, MainType, Runners, Pcs, Blocks, States
<1> QED
  BY <1>1, AioInvariant, PTL

-----------------------------------------------------------------------------
Awake(t) == thread[t].pc \in {"check", "timeout", "work", "kill"}

(* qemu_paio_submit leaves a thread awake, or one that its signal wakes:   *)
(* if none is idle and none can be created, all are at work.               *)
LEMMA SubmitNoticed ==
    ASSUME AioInv, NEW a \in Acbs, NEW id, Submit(a, id)
    PROVE  RequestNoticed'
<1> USE DEF AioInv
<1>1. top'.kind = "kick"
  BY CallStack DEF Submit
<1>2. CASE idle_threads = 0 /\ cur_threads < Cardinality(Threads)
  <2>1. \E t \in Threads : thread'[t].pc = "check"
    BY <1>2 DEF Submit, SpawnIfBusy, PoolType, Runners
  <2> QED
    BY <2>1 DEF RequestNoticed
<1>3. CASE ~(idle_threads = 0 /\ cur_threads < Cardinality(Threads))
  <2> DEFINE L == {t \in Threads : thread[t].pc # "none"}
             I == {t \in Threads : thread[t].pc \notin {"none", "work"}}
  <2>1. UNCHANGED thread
    BY <1>3 DEF Submit, SpawnIfBusy
  <2>2. /\ cur_threads = Cardinality(L) /\ idle_threads = Cardinality(I)
        /\ IsFiniteSet(L) /\ IsFiniteSet(I) /\ Cardinality(L) <= Cardinality(Threads)
        /\ Cardinality(Threads) = Cardinality(L) => Threads = L
    BY AioAssumption, FS_Subset DEF ThreadsCounted
  <2>3. \E t \in Threads : Awake(t) \/ thread[t].pc = "wait"
    <3>1. CASE idle_threads # 0
      <4>1. I # {}
        BY <3>1, <2>2, FS_EmptySet
      <4> QED
        BY <4>1 DEF Awake, PoolType, Runners, Pcs
    <3>2. CASE idle_threads = 0
      <4>1. Threads = L
        <5>1. Cardinality(Threads) \in Nat
          BY AioAssumption, FS_CardinalityType
        <5> QED
          BY <5>1, <3>2, <1>3, <2>2 DEF PoolType
      <4> QED
        BY <4>1, AioAssumption DEF Awake, PoolType, Runners, Pcs
    <3> QED
      BY <3>1, <3>2
  <2> QED
    BY <1>1, <2>1, <2>3 DEF RequestNoticed, Awake, Waiting
<1> QED
  BY <1>2, <1>3

(* Every other step leaves a thread awake.                                 *)
LEMMA NoticedNext ==
    ASSUME AioInv, RequestNoticed, [Next]_vars
    PROVE  RequestNoticed'
<1> USE DEF AioInv
<1>1. ASSUME NEW t \in Threads, Awake(t)' PROVE RequestNoticed'
  BY <1>1 DEF RequestNoticed, Awake
<1>2. ASSUME NEW a \in Acbs, paio_submit(a) \/ paio_ioctl(a)
      PROVE  RequestNoticed'
  BY <1>2, SubmitNoticed DEF paio_submit, paio_ioctl
<1>3. CASE Kick
  <2>1. CASE request_list = <<>>
    BY <1>3, <2>1 DEF Kick, RequestNoticed
  <2>2. CASE \E t \in Threads : Awake(t)
    BY <1>1, <1>3, <2>2 DEF Kick, Awake, PoolType, Runners
  <2>3. CASE Waiting # {}
    <3>1. PICK t \in Waiting : thread' = [thread EXCEPT ![t].pc = "check"]
      BY <1>3, <2>3 DEF Kick
    <3>2. t \in Threads /\ Awake(t)'
      BY <3>1 DEF Waiting, Awake, PoolType, Runners
    <3> QED
      BY <3>2, <1>1
  <2> QED
    BY <2>1, <2>2, <2>3 DEF RequestNoticed, Awake
<1>4. ASSUME top.kind # "kick", UNCHANGED thread,
             request_list = <<>> => request_list' = <<>>
      PROVE  RequestNoticed'
  BY <1>4 DEF RequestNoticed
<1>5. CASE \/ posix_aio_read \/ qemu_aio_wait \/ qemu_bh_poll
           \/ posix_aio_process_queue \/ CallbackReturns \/ CancelWaited
           \/ async_context_push \/ async_context_pop
  <2>1. top.kind # "kick"
    BY <1>5
    DEF posix_aio_read, qemu_aio_wait, qemu_bh_poll, posix_aio_process_queue,
        CallbackReturns, CancelWaited, async_context_push, async_context_pop, MayCall
  <2>2. UNCHANGED <<thread, request_list>>
    BY <1>5
    DEF posix_aio_read, qemu_aio_wait, qemu_bh_poll, posix_aio_process_queue,
        CallbackReturns, CancelWaited, async_context_push, async_context_pop,
        lists, pool
  <2> QED
    BY <2>1, <2>2, <1>4
<1>6. ASSUME NEW a \in Acbs, paio_cancel(a) PROVE RequestNoticed'
  <2>1. top.kind # "kick" /\ UNCHANGED thread
    BY <1>6 DEF paio_cancel, MayCall
  <2>2. request_list = <<>> => request_list' = <<>>
    BY <1>6, WithoutType, Zenon DEF paio_cancel, PoolType
  <2> QED
    BY <2>1, <2>2, <1>4
<1>7. ASSUME NEW t \in Threads, Take(t) \/ Timeout(t) \/ Finish(t) \/ Kill(t)
      PROVE  RequestNoticed'
  <2>1. Awake(t)'
    BY <1>7 DEF Take, Timeout, Finish, Kill, Awake, PoolType, Runners
  <2> QED
    BY <2>1, <1>1
<1>8. ASSUME NEW t \in Threads, Idle(t) PROVE RequestNoticed'
  BY <1>8 DEF Idle, RequestNoticed
<1>9. CASE UNCHANGED vars
  BY <1>9 DEF RequestNoticed, Waiting, top, vars, main
<1> QED
  BY <1>2, <1>3, <1>5, <1>6, <1>7, <1>8, <1>9 DEF Next, Complete, Run

(* A request in the list is sure to be taken: some thread will look at the *)
(* list again, whatever the order of its timeout and of the unlock before  *)
(* the signal.                                                             *)
THEOREM AioRequestNoticed == Spec => []RequestNoticed
<1>1. Init => RequestNoticed
  BY DEF Init, RequestNoticed
<1>2. AioInv /\ RequestNoticed /\ [Next]_vars => RequestNoticed'
  BY NoticedNext
<1> QED
  BY <1>1, <1>2, AioInvariant, PTL DEF Spec

-----------------------------------------------------------------------------
(* A scan calls back only requests whose control block has the id of the  *)
(* current context; one that is carried is then the request's own.         *)
LEMMA InContextNext ==
    ASSUME AioInv, Carried, InContext, [Next]_vars
    PROVE  InContext'
<1> USE DEF AioInv
<1>1. CASE UNCHANGED called
  BY <1>1 DEF InContext
<1>2. CASE posix_aio_process_queue
  <2>1. CASE Interesting
    <3>1. /\ top.pos \in 1 .. Len(first_aio) /\ context = top.ctx
      BY <1>2, <2>1, TopOfStack
      DEF posix_aio_process_queue, Interesting, Frames, MainType, After
    <3>2. At \in Acbs
      BY <3>1 DEF At, MainType
    <3>3. acb[At].owner = context
      BY <2>1, <3>1, <3>2 DEF Interesting, Carried
    <3> QED
      BY <1>2, <2>1, <3>3 DEF posix_aio_process_queue, InContext
  <2>2. CASE ~Interesting
    BY <1>1, <1>2, <2>2 DEF posix_aio_process_queue
  <2> QED
    BY <2>1, <2>2
<1>3. CASE \/ Kick \/ posix_aio_read \/ qemu_aio_wait \/ qemu_bh_poll
           \/ CallbackReturns \/ CancelWaited
           \/ async_context_push \/ async_context_pop \/ UNCHANGED vars
  BY <1>1, <1>3
  DEF Kick, posix_aio_read, qemu_aio_wait, qemu_bh_poll, CallbackReturns,
      CancelWaited, async_context_push, async_context_pop, lists, vars, main
<1>4. CASE \E a \in Acbs : paio_submit(a) \/ paio_ioctl(a) \/ paio_cancel(a)
  BY <1>1, <1>4 DEF paio_submit, paio_ioctl, Submit, paio_cancel
<1>5. CASE \E t \in Threads : Run(t) \/ Timeout(t)
  BY <1>1, <1>5 DEF Run, Take, Idle, Finish, Kill, Timeout, main
<1> QED
  BY <1>2, <1>3, <1>4, <1>5 DEF Next, Complete

(* "Callbacks must only be run if they belong to the current AsyncContext" *)
(* (async.c) holds for any depth of contexts and any number of requests as *)
(* long as the control blocks carry the context of their request.          *)
THEOREM AioRightContext == Spec => RightContext
<1>1. Init => InContext
  BY DEF Init, InContext
<1>2. AioInv /\ Carried /\ InContext /\ [Next]_vars => InContext'
  BY InContextNext
<1> QED
  BY <1>1, <1>2, AioInvariant, PTL DEF Spec, RightContext

-----------------------------------------------------------------------------
(* A list with an element removed at a place: the ones before stay where   *)
(* they are, the ones behind move up.                                      *)
LEMMA RemoveAtPlaces ==
    ASSUME NEW S, NEW s \in Seq(S), NEW k \in 1 .. Len(s)
    PROVE  /\ RemoveAt(s, k) \in Seq(S) /\ Len(RemoveAt(s, k)) = Len(s) - 1
           /\ \A i \in 1 .. Len(s) - 1 :
                RemoveAt(s, k)[i] = IF i < k THEN s[i] ELSE s[i + 1]
<1> DEFINE l == SubSeq(s, 1, k - 1)
           r == SubSeq(s, k + 1, Len(s))
<1>1. Len(s) \in Nat /\ k \in Nat /\ k >= 1 /\ k <= Len(s)
  OBVIOUS
<1>2. l \in Seq(S) /\ Len(l) = k - 1 /\ \A i \in 1 .. k - 1 : l[i] = s[i]
  BY <1>1
<1>3. /\ r \in Seq(S) /\ Len(r) = Len(s) - k
      /\ \A i \in 1 .. Len(s) - k : r[i] = s[k + i]
  BY <1>1
<1>4. RemoveAt(s, k) = l \o r
  BY DEF RemoveAt
<1> HIDE DEF l, r
<1>5. /\ l \o r \in Seq(S) /\ Len(l \o r) = Len(l) + Len(r)
      /\ \A i \in 1 .. Len(l) + Len(r) :
           (l \o r)[i] = IF i <= Len(l) THEN l[i] ELSE r[i - Len(l)]
  BY <1>2, <1>3, ConcatProperties, Zenon
<1>6. ASSUME NEW i \in 1 .. Len(s) - 1
      PROVE  (l \o r)[i] = IF i < k THEN s[i] ELSE s[i + 1]
  <2>1. CASE i < k
    BY <2>1, <1>1, <1>2, <1>3, <1>5
  <2>2. CASE ~(i < k)
    <3>1. i - Len(l) \in 1 .. Len(s) - k /\ k + (i - Len(l)) = i + 1 /\ ~(i <= Len(l))
      BY <2>2, <1>1, <1>2
    <3>2. (l \o r)[i] = r[i - Len(l)]
      BY <3>1, <1>1, <1>2, <1>3, <1>5
    <3>3. r[i - Len(l)] = s[k + (i - Len(l))]
      BY <3>1, <1>3
    <3> QED
      BY <2>2, <3>1, <3>2, <3>3
  <2> QED
    BY <2>1, <2>2, Zenon
<1> QED
  BY <1>1, <1>2, <1>3, <1>4, <1>5, <1>6

(* Taken out of a list of distinct elements, an element is gone and the    *)
(* others are there, once.                                                 *)
LEMMA RemoveAtOnce ==
    ASSUME NEW S, NEW s \in Seq(S), NEW k \in 1 .. Len(s), IsInjective(s)
    PROVE  /\ IsInjective(RemoveAt(s, k))
           /\ \A b : Contains(RemoveAt(s, k), b) <=> Contains(s, b) /\ b # s[k]
<1> DEFINE r == RemoveAt(s, k)
<1>1. /\ r \in Seq(S) /\ Len(r) = Len(s) - 1 /\ Len(s) \in Nat
      /\ \A i \in 1 .. Len(s) - 1 : r[i] = IF i < k THEN s[i] ELSE s[i + 1]
  BY RemoveAtPlaces
<1>2. \A i, j \in 1 .. Len(s) : s[i] = s[j] => i = j
  BY DEF IsInjective
<1> HIDE DEF r
<1>3. IsInjective(r)
  <2>1. ASSUME NEW i \in 1 .. Len(s) - 1, NEW j \in 1 .. Len(s) - 1, r[i] = r[j]
        PROVE  i = j
    BY <2>1, <1>1, <1>2
  <2>2. DOMAIN r = 1 .. Len(s) - 1
    BY <1>1
  <2> QED
    BY <2>1, <2>2 DEF IsInjective
<1>4. ASSUME NEW b, Contains(r, b) PROVE Contains(s, b) /\ b # s[k]
  <2>1. PICK i \in 1 .. Len(s) - 1 : r[i] = b
    BY <1>1, <1>4 DEF Contains
  <2>2. PICK j \in 1 .. Len(s) : s[j] = b /\ j # k
    BY <1>1, <2>1
  <2> QED
    BY <2>2, <1>2 DEF Contains
<1>5. ASSUME NEW b, Contains(s, b), b # s[k] PROVE Contains(r, b)
  <2>1. PICK j \in 1 .. Len(s) : s[j] = b /\ j # k
    BY <1>5 DEF Contains
  <2>2. CASE j < k
    <3>1. j \in 1 .. Len(r) /\ r[j] = b
      BY <1>1, <2>1, <2>2
    <3> QED
      BY <3>1 DEF Contains
  <2>3. CASE j > k
    <3>1. j - 1 \in 1 .. Len(r) /\ r[j - 1] = b
      BY <1>1, <2>1, <2>3
    <3> QED
      BY <3>1 DEF Contains
  <2> QED
    BY <1>1, <2>1, <2>2, <2>3
<1> QED
  BY <1>3, <1>4, <1>5 DEF r

(* Without, which removes an element only if it is there                   *)
LEMMA WithoutOnce ==
    ASSUME NEW S, NEW s \in Seq(S), NEW a, IsInjective(s)
    PROVE  /\ IsInjective(Without(s, a))
           /\ \A b : Contains(Without(s, a), b) <=> Contains(s, b) /\ b # a
<1>1. CASE \E i \in 1 .. Len(s) : s[i] = a
  <2> DEFINE k == CHOOSE i \in 1 .. Len(s) : s[i] = a
  <2>1. k \in 1 .. Len(s) /\ s[k] = a
    BY <1>1
  <2>2. Without(s, a) = RemoveAt(s, k)
    BY <1>1 DEF Without
  <2> HIDE DEF k
  <2> QED
    BY <2>1, <2>2, RemoveAtOnce
<1>2. CASE ~ \E i \in 1 .. Len(s) : s[i] = a
  BY <1>2 DEF Without, Contains
<1> QED
  BY <1>1, <1>2

(* A new element put at the head of a list                                 *)
LEMMA PutFirst ==
    ASSUME NEW S, NEW s \in Seq(S), NEW a \in S, IsInjective(s), ~Contains(s, a)
    PROVE  /\ IsInjective(<<a>> \o s)
           /\ \A b : Contains(<<a>> \o s, b) <=> Contains(s, b) \/ b = a
<1> DEFINE r == <<a>> \o s
<1>1. /\ Len(s) \in Nat /\ r \in Seq(S) /\ Len(r) = Len(s) + 1
      /\ \A i \in 1 .. Len(s) + 1 : r[i] = IF i = 1 THEN a ELSE s[i - 1]
  OBVIOUS
<1>2. \A i, j \in 1 .. Len(s) : s[i] = s[j] => i = j
  BY DEF IsInjective
<1>3. \A i \in 1 .. Len(s) : s[i] # a
  BY DEF Contains
<1> HIDE DEF r
<1>4. IsInjective(r)
  <2>1. ASSUME NEW i \in 1 .. Len(s) + 1, NEW j \in 1 .. Len(s) + 1, r[i] = r[j]
        PROVE  i = j
    <3>1. i # 1 => i - 1 \in 1 .. Len(s) /\ r[i] = s[i - 1]
      BY <1>1
    <3>2. j # 1 => j - 1 \in 1 .. Len(s) /\ r[j] = s[j - 1]
      BY <1>1
    <3>3. r[1] = a
      BY <1>1
    <3>4. CASE i = 1 \/ j = 1
      BY <2>1, <3>1, <3>2, <3>3, <3>4, <1>3
    <3>5. CASE i # 1 /\ j # 1
      <4>1. i - 1 = j - 1
        BY <2>1, <3>1, <3>2, <3>5, <1>2
      <4> QED
        BY <4>1
    <3> QED
      BY <3>4, <3>5
  <2>2. DOMAIN r = 1 .. Len(s) + 1
    BY <1>1
  <2> QED
    BY <2>1, <2>2 DEF IsInjective
<1>5. ASSUME NEW b, Contains(r, b) PROVE Contains(s, b) \/ b = a
  BY <1>1, <1>5 DEF Contains
<1>6. ASSUME NEW b, Contains(s, b) \/ b = a PROVE Contains(r, b)
  <2>1. CASE b = a
    <3>1. 1 \in 1 .. Len(r) /\ r[1] = b
      BY <2>1, <1>1
    <3> QED
      BY <3>1 DEF Contains
  <2>2. CASE Contains(s, b)
    <3>1. PICK i \in 1 .. Len(s) : s[i] = b
      BY <2>2 DEF Contains
    <3>2. i + 1 \in 1 .. Len(r) /\ r[i + 1] = b
      BY <3>1, <1>1
    <3> QED
      BY <3>2 DEF Contains
  <2> QED
    BY <1>6, <2>1, <2>2
<1> QED
  BY <1>4, <1>5, <1>6 DEF r

(* A new element put at the end of a list                                  *)
LEMMA PutLast ==
    ASSUME NEW S, NEW s \in Seq(S), NEW a \in S, IsInjective(s), ~Contains(s, a)
    PROVE  /\ IsInjective(Append(s, a))
           /\ \A b : Contains(Append(s, a), b) <=> Contains(s, b) \/ b = a
<1> DEFINE r == Append(s, a)
<1>1. /\ Len(s) \in Nat /\ r \in Seq(S) /\ Len(r) = Len(s) + 1
      /\ \A i \in 1 .. Len(s) + 1 : r[i] = IF i <= Len(s) THEN s[i] ELSE a
  OBVIOUS
<1>2. \A i, j \in 1 .. Len(s) : s[i] = s[j] => i = j
  BY DEF IsInjective
<1>3. \A i \in 1 .. Len(s) : s[i] # a
  BY DEF Contains
<1> HIDE DEF r
<1>4. IsInjective(r)
  <2>1. ASSUME NEW i \in 1 .. Len(s) + 1, NEW j \in 1 .. Len(s) + 1, r[i] = r[j]
        PROVE  i = j
    BY <2>1, <1>1, <1>2, <1>3
  <2>2. DOMAIN r = 1 .. Len(s) + 1
    BY <1>1
  <2> QED
    BY <2>1, <2>2 DEF IsInjective
<1>5. ASSUME NEW b, Contains(r, b) PROVE Contains(s, b) \/ b = a
  BY <1>1, <1>5 DEF Contains
<1>6. ASSUME NEW b, Contains(s, b) \/ b = a PROVE Contains(r, b)
  <2>1. CASE b = a
    <3>1. Len(s) + 1 \in 1 .. Len(r) /\ r[Len(s) + 1] = b
      BY <2>1, <1>1
    <3> QED
      BY <3>1 DEF Contains
  <2>2. CASE Contains(s, b)
    <3>1. PICK i \in 1 .. Len(s) : s[i] = b
      BY <2>2 DEF Contains
    <3>2. i \in 1 .. Len(r) /\ r[i] = b
      BY <3>1, <1>1
    <3> QED
      BY <3>2 DEF Contains
  <2> QED
    BY <1>6, <2>1, <2>2
<1> QED
  BY <1>4, <1>5, <1>6 DEF r

(* The head of a list taken off                                            *)
LEMMA TakeFirst ==
    ASSUME NEW S, NEW s \in Seq(S), s # <<>>, IsInjective(s)
    PROVE  /\ IsInjective(Tail(s)) /\ Contains(s, Head(s)) /\ Head(s) \in S
           /\ \A b : Contains(Tail(s), b) <=> Contains(s, b) /\ b # Head(s)
<1>1. Len(s) \in Nat \ {0} /\ Head(s) = s[1] /\ 1 \in 1 .. Len(s) /\ Head(s) \in S
  OBVIOUS
<1>2. Tail(s) = RemoveAt(s, 1)
  <2>1. /\ RemoveAt(s, 1) \in Seq(S) /\ Len(RemoveAt(s, 1)) = Len(s) - 1
        /\ \A i \in 1 .. Len(s) - 1 :
             RemoveAt(s, 1)[i] = IF i < 1 THEN s[i] ELSE s[i + 1]
    BY <1>1, RemoveAtPlaces
  <2>2. /\ Tail(s) \in Seq(S) /\ Len(Tail(s)) = Len(s) - 1
        /\ \A i \in 1 .. Len(s) - 1 : Tail(s)[i] = s[i + 1]
    BY <1>1
  <2>3. \A i \in 1 .. Len(s) - 1 : Tail(s)[i] = RemoveAt(s, 1)[i]
    BY <2>1, <2>2
  <2> QED
    BY <2>1, <2>2, <2>3, SeqEqual
<1>3. Contains(s, Head(s))
  BY <1>1 DEF Contains
<1> QED
  BY <1>1, <1>2, <1>3, RemoveAtOnce, ZenonT(30)

-----------------------------------------------------------------------------
(* A control block is between posix_aio_process_queue, which took it off   *)
(* the list, and the release after its callback.                           *)
Called(a) ==
    \E i \in 1 .. Len(frames) : frames[i].kind = "callback" /\ frames[i].acb = a

(* No two threads work on one control block.                               *)
WorkOwned ==
    /\ \A t \in Threads : thread[t].pc = "work" => acb[thread[t].acb].state = "active"
    /\ \A t, u \in Threads : thread[t].pc = "work" /\ thread[u].pc = "work"
                              /\ thread[t].acb = thread[u].acb => t = u

ListsOnce == IsInjective(first_aio) /\ IsInjective(free_aiocb) /\ IsInjective(request_list)

(* Where a control block is, by its state                                  *)
BlockInv(a) ==
    /\ Contains(request_list, a) <=> acb[a].state = "queued"
    /\ Contains(free_aiocb, a) <=> acb[a].state = "free"
    /\ Contains(first_aio, a) => acb[a].state \in {"queued", "active", "done"}
    /\ Called(a) => acb[a].state = "done" /\ ~Contains(first_aio, a)
    /\ acb[a].state \in {"queued", "active", "done"}
          => Contains(first_aio, a) \/ Called(a)
BlocksInv == \A a \in Acbs : BlockInv(a)

(* A callback has a control block of its own, and paio_cancel makes no     *)
(* calls while it waits.                                                   *)
CallsInv ==
    /\ \A i, j \in 1 .. Len(frames) :
         frames[i].kind = "callback" /\ frames[j].kind = "callback"
         /\ frames[i].acb = frames[j].acb => i = j
    /\ \A i \in 1 .. Len(frames) - 1 : frames[i].kind # "cancel"

CancelInv == top.kind = "cancel" => Contains(first_aio, top.acb)

OwnerInv == WorkOwned /\ ListsOnce /\ BlocksInv /\ CallsInv /\ CancelInv

(* A call made by one that does not wait                                   *)
LEMMA PushCalls ==
    ASSUME StackType, CallsInv, top.kind # "cancel", NEW f \in Frames, Push(f),
           f.kind = "callback" => ~Called(f.acb)
    PROVE  /\ CallsInv' /\ top' = f
           /\ \A a : Called(a)' <=> Called(a) \/ (f.kind = "callback" /\ f.acb = a)
<1> DEFINE n == Len(frames)
<1>1. /\ frames' \in Seq(Frames) /\ frames' # <<>> /\ Len(frames') = n + 1
      /\ \A i \in 1 .. n : frames'[i] = frames[i]
      /\ frames'[n + 1] = f
  BY AppendProperties DEF StackType, Push
<1>2. n \in Nat \ {0} /\ top = frames[n]
  BY TopOfStack DEF StackType
<1>3. top' = f
  BY <1>1, <1>2, FrontLast, Zenon DEF top
<1> HIDE DEF n
<1>4. ASSUME NEW a
      PROVE  Called(a)' <=> Called(a) \/ (f.kind = "callback" /\ f.acb = a)
  <2>1. Called(a) <=> \E i \in 1 .. n : frames[i].kind = "callback" /\ frames[i].acb = a
    BY DEF Called, n
  <2>2. Called(a)' <=>
          \E i \in 1 .. n + 1 : frames'[i].kind = "callback" /\ frames'[i].acb = a
    BY <1>1 DEF Called
  <2>3. 1 .. n + 1 = 1 .. n \cup {n + 1}
    BY <1>2
  <2> QED
    BY <2>1, <2>2, <2>3, <1>1, Zenon
<1>5. ASSUME NEW i \in 1 .. n + 1, NEW j \in 1 .. n + 1,
             frames'[i].kind = "callback", frames'[j].kind = "callback",
             frames'[i].acb = frames'[j].acb
      PROVE  i = j
  <2>1. \A m \in 1 .. n :
          frames[m].kind = "callback" => ~(f.kind = "callback" /\ f.acb = frames[m].acb)
    BY DEF Called, n
  <2>2. \A m \in 1 .. n + 1 : m \in 1 .. n \/ m = n + 1
    BY <1>2
  <2>3. CASE i = n + 1 \/ j = n + 1
    BY <2>1, <2>2, <2>3, <1>1, <1>5, Zenon
  <2>4. CASE i \in 1 .. n /\ j \in 1 .. n
    BY <2>4, <1>1, <1>5, Zenon DEF CallsInv, n
  <2> QED
    BY <2>2, <2>3, <2>4
<1>6. ASSUME NEW i \in 1 .. Len(frames') - 1
      PROVE  frames'[i].kind # "cancel"
  <2>1. i \in 1 .. n /\ (i = n \/ i \in 1 .. n - 1)
    BY <1>1, <1>2
  <2> QED
    BY <2>1, <1>1, <1>2 DEF CallsInv, n
<1>7. CallsInv'
  BY <1>1, <1>5, <1>6 DEF CallsInv
<1> QED
  BY <1>3, <1>4, <1>7

(* A frame that moves to another place                                     *)
LEMMA SameCalls ==
    ASSUME StackType, StackType', CallsInv, Len(frames') = Len(frames),
           \A i \in 1 .. Len(frames) :
              frames'[i].kind = frames[i].kind /\ frames'[i].acb = frames[i].acb
    PROVE  /\ CallsInv' /\ top'.kind = top.kind /\ top'.acb = top.acb
           /\ \A a : Called(a)' <=> Called(a)
<1>1. Len(frames) \in Nat \ {0} /\ Len(frames) \in 1 .. Len(frames)
  BY DEF StackType
<1>2. top = frames[Len(frames)] /\ top' = frames'[Len(frames')]
  BY FrontLast, Zenon DEF top, StackType
<1>3. CallsInv'
  <2>1. \A i \in 1 .. Len(frames) - 1 : i \in 1 .. Len(frames)
    BY <1>1
  <2> QED
    BY <2>1, Zenon DEF CallsInv
<1>4. \A a : Called(a)' <=> Called(a)
  BY Zenon DEF Called
<1> QED
  BY <1>1, <1>2, <1>3, <1>4

(* Returning from a call                                                   *)
LEMMA PopCalls ==
    ASSUME StackType, StackType', CallsInv, Len(frames') = Len(frames) - 1,
           \A i \in 1 .. Len(frames) - 1 :
              frames'[i].kind = frames[i].kind /\ frames'[i].acb = frames[i].acb
    PROVE  /\ CallsInv' /\ top'.kind # "cancel"
           /\ \A a : Called(a)' <=> Called(a) /\ ~(top.kind = "callback" /\ top.acb = a)
<1> DEFINE n == Len(frames)
<1>1. n \in Nat \ {0} /\ n - 1 \in Nat \ {0} /\ Len(frames') = n - 1
  BY DEF StackType
<1>2. top = frames[n] /\ top' = frames'[n - 1]
  BY <1>1, FrontLast, Zenon DEF top, StackType
<1>3. /\ \A i \in 1 .. n - 1 : i \in 1 .. n /\ i # n
      /\ \A i \in 1 .. n : i \in 1 .. n - 1 \/ i = n
      /\ \A i \in 1 .. (n - 1) - 1 : i \in 1 .. n - 1
      /\ n \in 1 .. n /\ n - 1 \in 1 .. n - 1
  BY <1>1
<1>4. \A i \in 1 .. n - 1 :
         frames'[i].kind = frames[i].kind /\ frames'[i].acb = frames[i].acb
  OBVIOUS
<1>5. /\ \A i, j \in 1 .. n :
           frames[i].kind = "callback" /\ frames[j].kind = "callback"
           /\ frames[i].acb = frames[j].acb => i = j
      /\ \A i \in 1 .. n - 1 : frames[i].kind # "cancel"
  BY DEF CallsInv
<1>6. \A a : Called(a) <=> \E i \in 1 .. n : frames[i].kind = "callback" /\ frames[i].acb = a
  BY DEF Called
<1>7. \A a : Called(a)' <=>
        \E i \in 1 .. n - 1 : frames'[i].kind = "callback" /\ frames'[i].acb = a
  BY <1>1 DEF Called
<1> HIDE DEF n
<1>8. CallsInv'
  <2>1. \A i, j \in 1 .. n - 1 :
          frames'[i].kind = "callback" /\ frames'[j].kind = "callback"
          /\ frames'[i].acb = frames'[j].acb => i = j
    BY <1>3, <1>4, <1>5, Zenon
  <2>2. \A i \in 1 .. (n - 1) - 1 : frames'[i].kind # "cancel"
    BY <1>3, <1>4, <1>5, Zenon
  <2> QED
    BY <2>1, <2>2, <1>1 DEF CallsInv
<1>9. top'.kind # "cancel"
  BY <1>2, <1>3, <1>4, <1>5, Zenon
<1>10. ASSUME NEW a
       PROVE  Called(a)' <=> Called(a) /\ ~(top.kind = "callback" /\ top.acb = a)
  <2>1. ASSUME Called(a)' PROVE Called(a) /\ ~(top.kind = "callback" /\ top.acb = a)
    BY <2>1, <1>2, <1>3, <1>4, <1>5, <1>6, <1>7, Zenon
  <2>2. ASSUME Called(a), ~(top.kind = "callback" /\ top.acb = a) PROVE Called(a)'
    BY <2>2, <1>2, <1>3, <1>4, <1>6, <1>7, Zenon
  <2> QED
    BY <2>1, <2>2
<1> QED
  BY <1>8, <1>9, <1>10

(* What a return leaves of the frames                                      *)
LEMMA ReturnFrames ==
    ASSUME StackType, Return
    PROVE  /\ Len(frames') = Len(frames) - 1
           /\ \A i \in 1 .. Len(frames) - 1 :
                frames'[i].kind = frames[i].kind /\ frames'[i].acb = frames[i].acb
BY FrontLast DEF StackType, Return

(* What a callback leaves when it returns to its scan                      *)
LEMMA RestartFrames ==
    ASSUME StackType, StackInv, top.kind = "callback",
           frames' = [Front(frames) EXCEPT ![Len(frames) - 1].pos = 1]
    PROVE  /\ Len(frames') = Len(frames) - 1
           /\ \A i \in 1 .. Len(frames) - 1 :
                frames'[i].kind = frames[i].kind /\ frames'[i].acb = frames[i].acb
<1> DEFINE k == Len(frames) - 1
           g == Front(frames)
<1>1. /\ Len(frames) \in Nat \ {0} /\ top = frames[Len(frames)]
      /\ g \in Seq(Frames) /\ Len(g) = k
      /\ \A i \in 1 .. k : g[i] = frames[i]
  BY FrontLast DEF StackType, top
<1>2. Len(frames) > 1
  BY <1>1 DEF StackInv
<1>3. k \in 1 .. Len(g) /\ k \in Nat \ {0}
  BY <1>1, <1>2
<1>4. \A i \in 1 .. k : g[i] \in Frames
  BY <1>1
<1>5. frames' = [g EXCEPT ![k].pos = 1]
  OBVIOUS
<1> HIDE DEF k, g
<1> DEFINE f == [g[k] EXCEPT !.pos = 1]
<1>6. frames' = [g EXCEPT ![k] = f]
  BY <1>5, Zenon
<1>7. f \in Frames /\ f.kind = g[k].kind /\ f.acb = g[k].acb
  <2>1. g[k] \in Frames
    BY <1>1, <1>3, <1>4
  <2> QED
    BY <2>1 DEF Frames
<1> HIDE DEF f
<1>8. /\ Len(frames') = k
      /\ \A i \in 1 .. k : frames'[i] = IF i = k THEN f ELSE g[i]
  <2>1. k \in 1 .. Len(g) /\ g \in Seq(Frames)
    BY <1>1, <1>3
  <2> QED
    BY <2>1, <1>1, <1>6, <1>7, ExceptSeq
<1>9. \A i \in 1 .. k : frames'[i].kind = frames[i].kind /\ frames'[i].acb = frames[i].acb
  BY <1>1, <1>7, <1>8, Zenon
<1> QED
  BY <1>8, <1>9 DEF k

(* A step that leaves the control blocks where they are                    *)
LEMMA SameBlocks ==
    ASSUME ListsOnce, BlocksInv,
           UNCHANGED <<acb, free_aiocb, first_aio, request_list>>,
           \A a : Called(a)' <=> Called(a)
    PROVE  ListsOnce' /\ BlocksInv'
<1>1. ListsOnce'
  BY DEF ListsOnce
<1>2. \A a \in Acbs : Contains(request_list, a)' <=> Contains(request_list, a)
  BY DEF Contains
<1>3. \A a \in Acbs : Contains(free_aiocb, a)' <=> Contains(free_aiocb, a)
  BY DEF Contains
<1>4. \A a \in Acbs : Contains(first_aio, a)' <=> Contains(first_aio, a)
  BY DEF Contains
<1>5. BlocksInv'
  BY <1>2, <1>3, <1>4, Zenon DEF BlocksInv, BlockInv
<1> QED
  BY <1>1, <1>5

(* A step that puts no thread to work, and takes no control block from one *)
LEMMA SameWork ==
    ASSUME WorkInv, WorkOwned,
           \A t \in Threads : thread'[t].pc = "work" =>
              /\ thread[t].pc = "work" /\ thread'[t].acb = thread[t].acb
              /\ acb'[thread[t].acb].state = acb[thread[t].acb].state
    PROVE  WorkOwned'
BY ZenonT(30) DEF WorkInv, WorkOwned

(* A control block the step has nothing to do with                         *)
LEMMA OtherBlock ==
    ASSUME BlocksInv, NEW b \in Acbs, acb'[b].state = acb[b].state,
           Contains(first_aio, b)' <=> Contains(first_aio, b),
           Contains(request_list, b)' <=> Contains(request_list, b),
           Contains(free_aiocb, b)' <=> Contains(free_aiocb, b),
           Called(b)' <=> Called(b)
    PROVE  BlockInv(b)'
BY Zenon DEF BlocksInv, BlockInv

(* A thread that qemu_paio_submit creates has no work yet.                 *)
LEMMA SpawnWork ==
    ASSUME PoolType, SpawnIfBusy
    PROVE  \A t \in Threads : thread'[t].pc = "work" =>
              thread[t].pc = "work" /\ thread'[t].acb = thread[t].acb
<1>1. CASE idle_threads = 0 /\ cur_threads < Cardinality(Threads)
  <2>1. PICK u \in Threads : thread' = [thread EXCEPT ![u].pc = "check"]
    BY <1>1 DEF SpawnIfBusy
  <2> QED
    BY <2>1 DEF PoolType, Runners
<1>2. CASE ~(idle_threads = 0 /\ cur_threads < Cardinality(Threads))
  BY <1>2 DEF SpawnIfBusy
<1> QED
  BY <1>1, <1>2

(* A control block from the pool, or a new one, is in no list, and after   *)
(* the submission it is in two.                                            *)
LEMMA SubmitOwned ==
    ASSUME AioInv, OwnerInv, NEW a \in Acbs, NEW id, Submit(a, id)
    PROVE  OwnerInv'
<1> USE DEF AioInv, OwnerInv
<1>1. acb[a].state \in {"new", "free"}
  <2>1. CASE free_aiocb # <<>>
    <3>1. a = Head(free_aiocb) /\ Contains(free_aiocb, a)
      BY <2>1, TakeFirst DEF Submit, Available, ListsOnce, MainType
    <3> QED
      BY <3>1 DEF BlocksInv, BlockInv
  <2>2. CASE free_aiocb = <<>>
    BY <2>2 DEF Submit, Available
  <2> QED
    BY <2>1, <2>2
<1>2. ~Contains(first_aio, a) /\ ~Contains(request_list, a) /\ ~Called(a)
  BY <1>1 DEF BlocksInv, BlockInv
<1>3. \A b \in Acbs : acb'[b].state = IF b = a THEN "queued" ELSE acb[b].state
  BY DEF Submit, MainType, Blocks
<1>4. /\ IsInjective(first_aio)'
      /\ \A b : Contains(first_aio, b)' <=> Contains(first_aio, b) \/ b = a
  <2>1. first_aio' = <<a>> \o first_aio
    BY DEF Submit
  <2>2. /\ IsInjective(<<a>> \o first_aio)
        /\ \A b : Contains(<<a>> \o first_aio, b) <=> Contains(first_aio, b) \/ b = a
    BY <1>2, PutFirst DEF ListsOnce, MainType
  <2> QED
    BY <2>1, <2>2, Zenon
<1>5. /\ IsInjective(request_list)'
      /\ \A b : Contains(request_list, b)' <=> Contains(request_list, b) \/ b = a
  <2>1. request_list' = Append(request_list, a)
    BY DEF Submit
  <2>2. /\ IsInjective(Append(request_list, a))
        /\ \A b : Contains(Append(request_list, a), b) <=> Contains(request_list, b) \/ b = a
    BY <1>2, PutLast DEF ListsOnce, PoolType
  <2> QED
    BY <2>1, <2>2, Zenon
<1>6. /\ IsInjective(free_aiocb)'
      /\ \A b : Contains(free_aiocb, b)' <=> Contains(free_aiocb, b) /\ b # a
  <2>1. CASE free_aiocb # <<>>
    <3>1. free_aiocb' = Tail(free_aiocb) /\ a = Head(free_aiocb)
      BY <2>1 DEF Submit, Available
    <3>2. /\ IsInjective(Tail(free_aiocb))
          /\ \A b : Contains(Tail(free_aiocb), b)
                      <=> Contains(free_aiocb, b) /\ b # Head(free_aiocb)
      BY <2>1, TakeFirst DEF ListsOnce, MainType
    <3> QED
      BY <3>1, <3>2, Zenon
  <2>2. CASE free_aiocb = <<>>
    <3>1. free_aiocb' = <<>> /\ \A b : ~Contains(<<>>, b)
      BY <2>2 DEF Submit, Contains
    <3> QED
      BY <2>2, <3>1, Zenon DEF ListsOnce
  <2> QED
    BY <2>1, <2>2
<1>7. CallsInv' /\ top'.kind = "kick" /\ \A b : Called(b)' <=> Called(b)
  <2>1. Frame("kick") \in Frames /\ Frame("kick").kind = "kick"
    BY FramePlain
  <2>2. top.kind # "cancel" /\ Push(Frame("kick"))
    BY DEF Submit, MayCall
  <2> QED
    BY <2>1, <2>2, PushCalls
<1>8. BlocksInv'
  <2> SUFFICES ASSUME NEW b \in Acbs
               PROVE  BlockInv(b)'
    BY DEF BlocksInv
  <2>1. CASE b = a
    BY <2>1, <1>2, <1>3, <1>4, <1>5, <1>6, <1>7, SMTT(20) DEF BlockInv
  <2>2. CASE b # a
    <3>1. /\ acb'[b].state = acb[b].state
          /\ Contains(first_aio, b)' <=> Contains(first_aio, b)
          /\ Contains(request_list, b)' <=> Contains(request_list, b)
          /\ Contains(free_aiocb, b)' <=> Contains(free_aiocb, b)
          /\ Called(b)' <=> Called(b)
      BY <2>2, <1>3, <1>4, <1>5, <1>6, <1>7, Zenon
    <3> QED
      BY <3>1, OtherBlock, Zenon
  <2> QED
    BY <2>1, <2>2
<1>9. WorkOwned'
  <2>1. \A t \in Threads : thread'[t].pc = "work" =>
           thread[t].pc = "work" /\ thread'[t].acb = thread[t].acb
    BY SpawnWork DEF Submit
  <2>2. \A t \in Threads : thread[t].pc = "work" => thread[t].acb \in Acbs /\ thread[t].acb # a
    BY <1>1 DEF WorkInv, WorkOwned
  <2>3. \A t \in Threads : thread'[t].pc = "work" =>
           /\ thread[t].pc = "work" /\ thread'[t].acb = thread[t].acb
           /\ acb'[thread[t].acb].state = acb[thread[t].acb].state
    BY <2>1, <2>2, <1>3
  <2> QED
    BY <2>3, SameWork, SMTT(20)
<1> QED
  BY <1>4, <1>5, <1>6, <1>7, <1>8, <1>9 DEF ListsOnce, CancelInv

(* A thread takes a request nobody works on.                               *)
LEMMA TakeOwned ==
    ASSUME AioInv, OwnerInv, NEW t \in Threads, Take(t)
    PROVE  OwnerInv'
<1> USE DEF AioInv, OwnerInv
<1> DEFINE a == Head(request_list)
<1>1. /\ IsInjective(Tail(request_list)) /\ Contains(request_list, a) /\ a \in Acbs
      /\ \A b : Contains(Tail(request_list), b) <=> Contains(request_list, b) /\ b # a
  BY TakeFirst DEF Take, ListsOnce, PoolType
<1>2. /\ acb' = [acb EXCEPT ![a].state = "active"]
      /\ thread' = [thread EXCEPT ![t] = [pc |-> "work", acb |-> a]]
      /\ request_list' = Tail(request_list)
      /\ UNCHANGED <<free_aiocb, first_aio, frames>>
  BY DEF Take
<1> HIDE DEF a
<1>3. acb[a].state = "queued"
  BY <1>1 DEF BlocksInv, BlockInv
<1>4. \A b \in Acbs : acb'[b].state = IF b = a THEN "active" ELSE acb[b].state
  <2>1. MainType
    OBVIOUS
  <2> QED
    BY ONLY <1>1, <1>2, <2>1, SMTT(20) DEF MainType, Blocks
<1>5. /\ IsInjective(request_list)'
      /\ \A b : Contains(request_list, b)' <=> Contains(request_list, b) /\ b # a
  BY <1>1, <1>2, Zenon
<1>6. /\ \A b : Contains(free_aiocb, b)' <=> Contains(free_aiocb, b)
      /\ \A b : Contains(first_aio, b)' <=> Contains(first_aio, b)
      /\ \A b : Called(b)' <=> Called(b)
  BY <1>2 DEF Contains, Called
<1>7. BlocksInv'
  <2> SUFFICES ASSUME NEW b \in Acbs
               PROVE  BlockInv(b)'
    BY DEF BlocksInv
  <2>1. CASE b = a
    BY <2>1, <1>3, <1>4, <1>5, <1>6, SMTT(20) DEF BlocksInv, BlockInv
  <2>2. CASE b # a
    <3>1. /\ acb'[b].state = acb[b].state
          /\ Contains(first_aio, b)' <=> Contains(first_aio, b)
          /\ Contains(request_list, b)' <=> Contains(request_list, b)
          /\ Contains(free_aiocb, b)' <=> Contains(free_aiocb, b)
          /\ Called(b)' <=> Called(b)
      BY <2>2, <1>4, <1>5, <1>6, Zenon
    <3> QED
      BY <3>1, OtherBlock, Zenon
  <2> QED
    BY <2>1, <2>2
<1>8. WorkOwned'
  <2>1. \A u \in Threads : thread'[u] = IF u = t THEN [pc |-> "work", acb |-> a] ELSE thread[u]
    BY <1>2 DEF PoolType
  <2>2. \A u \in Threads : thread[u].pc = "work" => thread[u].acb \in Acbs /\ thread[u].acb # a
    BY <1>3 DEF WorkInv, WorkOwned
  <2> QED
    BY <2>1, <2>2, <1>1, <1>4 DEF WorkOwned
<1>9. CallsInv' /\ CancelInv'
  BY <1>2, <1>6 DEF CallsInv, CancelInv, top
<1> QED
  BY <1>2, <1>5, <1>7, <1>8, <1>9, SMTT(20) DEF ListsOnce

(* A thread that has finished lets go of its control block.                *)
LEMMA FinishOwned ==
    ASSUME AioInv, OwnerInv, NEW t \in Threads, Finish(t)
    PROVE  OwnerInv'
<1> USE DEF AioInv, OwnerInv
<1> DEFINE a == thread[t].acb
<1>1. a \in Acbs /\ acb[a].state = "active"
  BY DEF Finish, WorkInv, WorkOwned
<1>2. /\ acb' = [acb EXCEPT ![a].state = "done"]
      /\ thread' = [thread EXCEPT ![t].pc = "kill"]
      /\ UNCHANGED <<free_aiocb, first_aio, request_list, frames>>
  BY DEF Finish
<1>3. \A u \in Threads : u # t /\ thread[u].pc = "work" => thread[u].acb # a
  BY DEF WorkOwned, Finish
<1> HIDE DEF a
<1>4. \A b \in Acbs : acb'[b].state = IF b = a THEN "done" ELSE acb[b].state
  <2>1. MainType
    OBVIOUS
  <2> QED
    BY ONLY <1>1, <1>2, <2>1, SMTT(20) DEF MainType, Blocks
<1>5. /\ \A b : Contains(free_aiocb, b)' <=> Contains(free_aiocb, b)
      /\ \A b : Contains(first_aio, b)' <=> Contains(first_aio, b)
      /\ \A b : Contains(request_list, b)' <=> Contains(request_list, b)
      /\ \A b : Called(b)' <=> Called(b)
  BY <1>2 DEF Contains, Called
<1>6. BlocksInv'
  <2> SUFFICES ASSUME NEW b \in Acbs
               PROVE  BlockInv(b)'
    BY DEF BlocksInv
  <2> QED
    BY <1>1, <1>4, <1>5, SMTT(20) DEF BlocksInv, BlockInv
<1>7. WorkOwned'
  <2>1. \A u \in Threads : thread'[u].pc = "work" =>
           u # t /\ thread[u].pc = "work" /\ thread'[u].acb = thread[u].acb
    BY <1>2 DEF PoolType, Runners
  <2>2. \A u \in Threads : thread'[u].pc = "work" =>
           /\ thread[u].pc = "work" /\ thread'[u].acb = thread[u].acb
           /\ acb'[thread[u].acb].state = acb[thread[u].acb].state
    BY <2>1, <1>3, <1>4 DEF WorkInv
  <2> QED
    BY <2>2, SameWork
<1>8. CallsInv' /\ CancelInv'
  BY <1>2, <1>5, SMTT(20) DEF CallsInv, CancelInv, top
<1> QED
  BY <1>2, <1>6, <1>7, <1>8, SMTT(20) DEF ListsOnce

(* A control block nobody works on is released: it is in the pool and in   *)
(* no other place.                                                         *)
LEMMA ReleaseOwned ==
    ASSUME AioInv, OwnerInv, NEW a \in Acbs, acb[a].state \in {"queued", "done"},
           Release(a), UNCHANGED thread,
           \A b : Contains(first_aio, b)' <=> Contains(first_aio, b) /\ b # a,
           \A b : Contains(request_list, b)' <=> Contains(request_list, b) /\ b # a,
           \A b : Called(b)' <=> Called(b) /\ b # a
    PROVE  BlocksInv' /\ IsInjective(free_aiocb)' /\ WorkOwned'
<1> USE DEF AioInv, OwnerInv
<1>1. \A b \in Acbs : acb'[b].state = IF b = a THEN "free" ELSE acb[b].state
  <2>1. MainType /\ a \in Acbs /\ acb' = [acb EXCEPT ![a].state = "free"]
    BY DEF Release
  <2> QED
    BY ONLY <2>1 DEF MainType, Blocks
<1>2. /\ IsInjective(free_aiocb)'
      /\ \A b : Contains(free_aiocb, b)' <=> Contains(free_aiocb, b) \/ b = a
  <2>1. ~Contains(free_aiocb, a)
    BY DEF BlocksInv, BlockInv
  <2>2. /\ IsInjective(<<a>> \o free_aiocb)
        /\ \A b : Contains(<<a>> \o free_aiocb, b) <=> Contains(free_aiocb, b) \/ b = a
    BY <2>1, PutFirst DEF ListsOnce, MainType
  <2> QED
    BY <2>2, ZenonT(30) DEF Release
<1>3. BlocksInv'
  <2> SUFFICES ASSUME NEW b \in Acbs
               PROVE  BlockInv(b)'
    BY DEF BlocksInv
  <2>1. CASE b = a
    BY <2>1, <1>1, <1>2, SMTT(20) DEF BlockInv
  <2>2. CASE b # a
    <3>1. /\ acb'[b].state = acb[b].state
          /\ Contains(first_aio, b)' <=> Contains(first_aio, b)
          /\ Contains(request_list, b)' <=> Contains(request_list, b)
          /\ Contains(free_aiocb, b)' <=> Contains(free_aiocb, b)
          /\ Called(b)' <=> Called(b)
      BY <2>2, <1>1, <1>2, Zenon
    <3> QED
      BY <3>1, OtherBlock, Zenon
  <2> QED
    BY <2>1, <2>2
<1>4. WorkOwned'
  <2>1. \A t \in Threads : thread[t].pc = "work" => thread[t].acb \in Acbs /\ thread[t].acb # a
    BY DEF WorkInv, WorkOwned
  <2>2. \A t \in Threads : thread'[t].pc = "work" =>
           /\ thread[t].pc = "work" /\ thread'[t].acb = thread[t].acb
           /\ acb'[thread[t].acb].state = acb[thread[t].acb].state
    BY <2>1, <1>1
  <2> QED
    BY <2>2, SameWork
<1> QED
  BY <1>2, <1>3, <1>4

(* paio_cancel takes a request that no thread has, or that is finished,    *)
(* out of every list; for an active one it waits.                          *)
LEMMA CancelOwned ==
    ASSUME AioInv, OwnerInv, NEW a \in Acbs, paio_cancel(a)
    PROVE  OwnerInv'
<1> USE DEF AioInv, OwnerInv
<1>1. Contains(first_aio, a) /\ ~Called(a) /\ acb[a].state \in {"queued", "active", "done"}
  BY DEF paio_cancel, BlocksInv, BlockInv
<1>2. UNCHANGED thread /\ top.kind # "cancel"
  BY DEF paio_cancel, MayCall
<1>3. CASE acb[a].state = "active"
  <2> DEFINE f == [Frame("cancel") EXCEPT !.acb = a]
  <2>1. Push(f) /\ UNCHANGED <<acb, free_aiocb, first_aio, request_list>>
    BY <1>3 DEF paio_cancel
  <2>2. f \in Frames /\ f.kind = "cancel" /\ f.acb = a
    BY DEF Frame, Frames, StackType
  <2> HIDE DEF f
  <2>3. CallsInv' /\ top' = f /\ \A b : Called(b)' <=> Called(b)
    BY <1>2, <2>1, <2>2, PushCalls, SMTT(20)
  <2>4. ListsOnce' /\ BlocksInv'
    BY <2>1, <2>3, SameBlocks, SMTT(20)
  <2>5. WorkOwned'
    BY <1>2, <2>1, SMTT(20) DEF WorkOwned
  <2>6. CancelInv'
    BY <1>1, <2>1, <2>2, <2>3, SMTT(20) DEF CancelInv, Contains
  <2> QED
    BY <2>3, <2>4, <2>5, <2>6
<1>4. CASE acb[a].state # "active"
  <2>1. /\ first_aio' = Without(first_aio, a) /\ request_list' = Without(request_list, a)
        /\ Release(a) /\ UNCHANGED frames
    BY <1>4 DEF paio_cancel, Removed
  <2>2. /\ IsInjective(first_aio)'
        /\ \A b : Contains(first_aio, b)' <=> Contains(first_aio, b) /\ b # a
    <3>1. /\ IsInjective(Without(first_aio, a))
          /\ \A b : Contains(Without(first_aio, a), b) <=> Contains(first_aio, b) /\ b # a
      BY WithoutOnce DEF ListsOnce, MainType
    <3> QED
      BY <2>1, <3>1, Zenon
  <2>3. /\ IsInjective(request_list)'
        /\ \A b : Contains(request_list, b)' <=> Contains(request_list, b) /\ b # a
    <3>1. /\ IsInjective(Without(request_list, a))
          /\ \A b : Contains(Without(request_list, a), b) <=> Contains(request_list, b) /\ b # a
      BY WithoutOnce DEF ListsOnce, PoolType
    <3> QED
      BY <2>1, <3>1, Zenon
  <2>4. \A b : Called(b)' <=> Called(b) /\ b # a
    BY <1>1, <2>1 DEF Called
  <2>5. acb[a].state \in {"queued", "done"}
    BY <1>1, <1>4, SMTT(20)
  <2>6. BlocksInv' /\ IsInjective(free_aiocb)' /\ WorkOwned'
    BY <1>2, <2>1, <2>2, <2>3, <2>4, <2>5, ReleaseOwned
  <2>7. CallsInv' /\ CancelInv'
    BY <1>2, <2>1, SMTT(20) DEF CallsInv, CancelInv, top
  <2> QED
    BY <2>2, <2>3, <2>6, <2>7 DEF ListsOnce
<1> QED
  BY <1>3, <1>4

(* paio_cancel has waited for the thread, and takes the request away.      *)
LEMMA WaitedOwned ==
    ASSUME AioInv, AioInv', OwnerInv, CancelWaited
    PROVE  OwnerInv'
<1> USE DEF AioInv, OwnerInv
<1> DEFINE a == top.acb
<1>1. a \in Acbs /\ top.kind = "cancel" /\ acb[a].state = "done" /\ Contains(first_aio, a)
  BY TopOfStack, SMTT(20) DEF CancelWaited, CancelInv
<1>2. /\ first_aio' = Without(first_aio, a) /\ Release(a) /\ Return
      /\ UNCHANGED <<request_list, thread>>
  BY DEF CancelWaited, Removed, pool
<1>3. CallsInv' /\ top'.kind # "cancel" /\ \A b : Called(b)' <=> Called(b)
  <2>1. /\ CallsInv' /\ top'.kind # "cancel"
        /\ \A b : Called(b)' <=> Called(b) /\ ~(top.kind = "callback" /\ top.acb = b)
    BY <1>2, ReturnFrames, PopCalls
  <2> QED
    BY <2>1, <1>1
<1> HIDE DEF a
<1>4. /\ IsInjective(first_aio)'
      /\ \A b : Contains(first_aio, b)' <=> Contains(first_aio, b) /\ b # a
  <2>1. /\ IsInjective(Without(first_aio, a))
        /\ \A b : Contains(Without(first_aio, a), b) <=> Contains(first_aio, b) /\ b # a
    BY WithoutOnce DEF ListsOnce, MainType
  <2> QED
    BY <1>2, <2>1, Zenon
<1>5. ~Called(a) /\ ~Contains(request_list, a)
  BY <1>1 DEF BlocksInv, BlockInv
<1>6. /\ IsInjective(request_list)'
      /\ \A b : Contains(request_list, b)' <=> Contains(request_list, b)
  BY <1>2 DEF Contains, ListsOnce
<1>7. /\ \A b : Called(b)' <=> Called(b) /\ b # a
      /\ \A b : Contains(request_list, b)' <=> Contains(request_list, b) /\ b # a
  BY <1>3, <1>5, <1>6, ZenonT(30)
<1>8. BlocksInv' /\ IsInjective(free_aiocb)' /\ WorkOwned'
  BY <1>1, <1>2, <1>4, <1>7, ReleaseOwned, SMTT(20)
<1> QED
  BY <1>3, <1>4, <1>6, <1>8, SMTT(20) DEF ListsOnce, CancelInv

(* The callback has returned, and its control block is released.           *)
LEMMA CallbackOwned ==
    ASSUME AioInv, AioInv', OwnerInv, CallbackReturns
    PROVE  OwnerInv'
<1> USE DEF AioInv, OwnerInv
<1> DEFINE a == top.acb
<1>1. a \in Acbs /\ top.kind = "callback" /\ Called(a)
  <2>1. a \in Acbs /\ top.kind = "callback" /\ top = frames[Len(frames)]
    BY TopOfStack DEF CallbackReturns
  <2>2. Len(frames) \in 1 .. Len(frames)
    BY DEF StackType
  <2> QED
    BY <2>1, <2>2 DEF Called
<1>2. /\ Release(a) /\ UNCHANGED <<first_aio, request_list, thread>>
      /\ frames' = [Front(frames) EXCEPT ![Len(frames) - 1].pos = 1]
  BY DEF CallbackReturns, pool
<1>3. CallsInv' /\ top'.kind # "cancel" /\ \A b : Called(b)' <=> Called(b) /\ b # a
  <2>1. /\ CallsInv' /\ top'.kind # "cancel"
        /\ \A b : Called(b)' <=> Called(b) /\ ~(top.kind = "callback" /\ top.acb = b)
    BY <1>1, <1>2, RestartFrames, PopCalls, SMTT(20)
  <2> QED
    BY <2>1, <1>1
<1> HIDE DEF a
<1>4. acb[a].state = "done" /\ ~Contains(first_aio, a) /\ ~Contains(request_list, a)
  BY <1>1 DEF BlocksInv, BlockInv
<1>5. /\ IsInjective(request_list)' /\ IsInjective(first_aio)'
      /\ \A b : Contains(request_list, b)' <=> Contains(request_list, b)
      /\ \A b : Contains(first_aio, b)' <=> Contains(first_aio, b)
  BY <1>2 DEF Contains, ListsOnce
<1>6. /\ \A b : Contains(first_aio, b)' <=> Contains(first_aio, b) /\ b # a
      /\ \A b : Contains(request_list, b)' <=> Contains(request_list, b) /\ b # a
  BY <1>4, <1>5, Zenon
<1>7. BlocksInv' /\ IsInjective(free_aiocb)' /\ WorkOwned'
  BY <1>1, <1>2, <1>3, <1>4, <1>6, ReleaseOwned
<1> QED
  BY <1>3, <1>5, <1>7 DEF ListsOnce, CancelInv

(* A finished request goes from the list to its callback.                  *)
LEMMA ScanOwned ==
    ASSUME AioInv, AioInv', OwnerInv, posix_aio_process_queue
    PROVE  OwnerInv'
<1> USE DEF AioInv, OwnerInv
<1>1. top.kind = "scan" /\ UNCHANGED <<acb, free_aiocb, request_list, thread>>
  BY DEF posix_aio_process_queue, pool
<1>2. WorkOwned'
  BY <1>1 DEF WorkOwned
<1>3. CASE Interesting
  <2> DEFINE a == At
             k == top.pos
             f == [Frame("callback") EXCEPT !.acb = a]
  <2>1. k \in 1 .. Len(first_aio)
    BY <1>3, TopOfStack, SMTT(20) DEF Interesting, Frames, MainType
  <2>2. a = first_aio[k] /\ a \in Acbs /\ Contains(first_aio, a) /\ acb[a].state = "done"
    BY <1>3, <2>1 DEF At, Interesting, MainType, Contains
  <2>3. Push(f) /\ first_aio' = RemoveAt(first_aio, k)
    BY <1>3 DEF posix_aio_process_queue
  <2>4. f \in Frames /\ f.kind = "callback" /\ f.acb = a
    BY <2>2 DEF Frame, Frames, StackType
  <2> HIDE DEF a, k, f
  <2>5. ~Called(a)
    BY <2>2 DEF BlocksInv, BlockInv
  <2>6. /\ CallsInv' /\ top' = f /\ \A b : Called(b)' <=> Called(b) \/ b = a
    <3>1. /\ CallsInv' /\ top' = f
          /\ \A b : Called(b)' <=> Called(b) \/ (f.kind = "callback" /\ f.acb = b)
      BY <1>1, <2>3, <2>4, <2>5, PushCalls
    <3> QED
      BY <2>4, <3>1
  <2>7. /\ IsInjective(first_aio)'
        /\ \A b : Contains(first_aio, b)' <=> Contains(first_aio, b) /\ b # a
    <3>1. /\ IsInjective(RemoveAt(first_aio, k))
          /\ \A b : Contains(RemoveAt(first_aio, k), b)
                      <=> Contains(first_aio, b) /\ b # first_aio[k]
      BY <2>1, RemoveAtOnce DEF ListsOnce, MainType
    <3> QED
      BY <2>2, <2>3, <3>1, Zenon
  <2>8. /\ IsInjective(request_list)' /\ IsInjective(free_aiocb)'
        /\ \A b : Contains(request_list, b)' <=> Contains(request_list, b)
        /\ \A b : Contains(free_aiocb, b)' <=> Contains(free_aiocb, b)
    BY <1>1 DEF Contains, ListsOnce
  <2>9. BlocksInv'
    <3> SUFFICES ASSUME NEW b \in Acbs
                 PROVE  BlockInv(b)'
      BY SMTT(20) DEF BlocksInv
    <3>1. CASE b = a
      BY <3>1, <1>1, <2>2, <2>6, <2>7, <2>8, SMTT(20) DEF BlocksInv, BlockInv
    <3>2. CASE b # a
      <4>1. /\ acb'[b].state = acb[b].state
            /\ Contains(first_aio, b)' <=> Contains(first_aio, b)
            /\ Contains(request_list, b)' <=> Contains(request_list, b)
            /\ Contains(free_aiocb, b)' <=> Contains(free_aiocb, b)
            /\ Called(b)' <=> Called(b)
        BY <3>2, <1>1, <2>6, <2>7, <2>8, Zenon
      <4> QED
        BY <4>1, OtherBlock, Zenon
    <3> QED
      BY <3>1, <3>2
  <2> QED
    BY <1>2, <2>4, <2>6, <2>7, <2>8, <2>9, SMTT(20) DEF ListsOnce, CancelInv
<1>4. CASE ~Interesting
  <2>1. UNCHANGED first_aio
    BY <1>4 DEF posix_aio_process_queue
  <2>2. CallsInv' /\ top'.kind # "cancel" /\ \A b : Called(b)' <=> Called(b)
    <3>1. CASE top.pos <= Len(first_aio)
      <4>1. frames' = [frames EXCEPT ![Len(frames)].pos = top.pos + 1]
        BY <1>4, <3>1 DEF posix_aio_process_queue, ScanAt
      <4>2. Len(frames') = Len(frames)
        BY <4>1 DEF StackType
      <4>3. \A i \in 1 .. Len(frames) :
              frames'[i].kind = frames[i].kind /\ frames'[i].acb = frames[i].acb
        BY <4>1 DEF StackType, Frames
      <4> QED
        BY <1>1, <4>2, <4>3, SameCalls
    <3>2. CASE ~(top.pos <= Len(first_aio))
      <4>1. Return
        BY <1>4, <3>2 DEF posix_aio_process_queue, Return
      <4>2. /\ CallsInv' /\ top'.kind # "cancel"
            /\ \A b : Called(b)' <=> Called(b) /\ ~(top.kind = "callback" /\ top.acb = b)
        BY <4>1, ReturnFrames, PopCalls
      <4> QED
        BY <1>1, <4>2
    <3> QED
      BY <3>1, <3>2
  <2>3. ListsOnce' /\ BlocksInv'
    BY <1>1, <2>1, <2>2, SameBlocks
  <2> QED
    BY <1>2, <2>2, <2>3 DEF CancelInv
<1> QED
  BY <1>3, <1>4

(* The other calls of the main thread, and returns from them               *)
LEMMA CallOwned ==
    ASSUME AioInv, AioInv', OwnerInv,
           \/ Kick \/ posix_aio_read \/ qemu_bh_poll \/ qemu_aio_wait
           \/ async_context_push \/ async_context_pop
    PROVE  OwnerInv'
<1> USE DEF AioInv, OwnerInv
<1>1. UNCHANGED <<acb, free_aiocb, first_aio, request_list>>
  BY DEF Kick, posix_aio_read, qemu_bh_poll, qemu_aio_wait, async_context_push,
         async_context_pop, lists, pool
<1>2. CallsInv' /\ top'.kind # "cancel" /\ \A b : Called(b)' <=> Called(b)
  <2>1. CASE \/ posix_aio_read \/ qemu_bh_poll \/ qemu_aio_wait \/ async_context_push
    <3>1. PICK k \in {"scan", "context"} : Push(Frame(k))
      BY <2>1 DEF posix_aio_read, qemu_bh_poll, qemu_aio_wait, async_context_push
    <3>2. Frame(k) \in Frames /\ Frame(k).kind = k
      BY <3>1 DEF Frame, Frames, StackType
    <3>3. top.kind # "cancel"
      BY <2>1 DEF posix_aio_read, qemu_bh_poll, qemu_aio_wait, async_context_push, MayCall
    <3> QED
      BY <3>1, <3>2, <3>3, PushCalls, SMTT(20)
  <2>2. CASE Kick \/ async_context_pop
    <3>1. Return /\ top.kind \in {"kick", "context"}
      BY <2>2 DEF Kick, async_context_pop
    <3>2. /\ CallsInv' /\ top'.kind # "cancel"
          /\ \A b : Called(b)' <=> Called(b) /\ ~(top.kind = "callback" /\ top.acb = b)
      BY <3>1, ReturnFrames, PopCalls
    <3> QED
      BY <3>1, <3>2
  <2> QED
    BY <2>1, <2>2
<1>3. ListsOnce' /\ BlocksInv'
  BY <1>1, <1>2, SameBlocks
<1>4. WorkOwned'
  <2>1. \A t \in Threads : thread'[t].pc = "work" =>
           thread[t].pc = "work" /\ thread'[t].acb = thread[t].acb
    <3>1. CASE UNCHANGED thread
      BY <3>1
    <3>2. CASE Kick /\ Waiting # {}
      <4>1. PICK u \in Threads : thread' = [thread EXCEPT ![u].pc = "check"]
        BY <3>2 DEF Kick, Waiting
      <4> QED
        BY <4>1 DEF PoolType, Runners
    <3> QED
      BY <3>1, <3>2
      DEF Kick, posix_aio_read, qemu_bh_poll, qemu_aio_wait, async_context_push,
          async_context_pop, lists, pool
  <2> QED
    BY <1>1, <2>1, SameWork
<1> QED
  BY <1>2, <1>3, <1>4 DEF CancelInv

(* A thread that waits, gives up waiting or sends the signal               *)
LEMMA PauseOwned ==
    ASSUME AioInv, OwnerInv, NEW t \in Threads, Idle(t) \/ Timeout(t) \/ Kill(t)
    PROVE  OwnerInv'
<1> USE DEF AioInv, OwnerInv
<1>1. UNCHANGED <<acb, free_aiocb, first_aio, request_list, frames>>
  BY DEF Idle, Timeout, Kill, main
<1>2. CallsInv' /\ CancelInv' /\ \A b : Called(b)' <=> Called(b)
  BY <1>1 DEF CallsInv, CancelInv, Called, top
<1>3. ListsOnce' /\ BlocksInv'
  BY <1>1, <1>2, SameBlocks
<1>4. WorkOwned'
  <2>1. PICK r \in Runners : r.pc # "work" /\ thread' = [thread EXCEPT ![t] = r]
    <3>1. CASE Kill(t)
      BY <3>1, Zenon DEF Kill, Runners, Pcs
    <3>2. CASE Idle(t) \/ Timeout(t)
      <4>1. PICK p \in {"wait", "none", "timeout"} : thread' = [thread EXCEPT ![t].pc = p]
        BY <3>2 DEF Idle, Timeout
      <4>2. [thread[t] EXCEPT !.pc = p] \in Runners
        BY DEF PoolType, Runners, Pcs
      <4>3. [thread[t] EXCEPT !.pc = p].pc # "work"
        BY DEF PoolType, Runners, Pcs
      <4> QED
        BY <4>1, <4>2, <4>3, Zenon
    <3> QED
      BY <3>1, <3>2
  <2>2. \A u \in Threads : thread'[u].pc = "work" =>
           thread[u].pc = "work" /\ thread'[u].acb = thread[u].acb
    BY <2>1 DEF PoolType
  <2> QED
    BY <1>1, <2>2, SameWork
<1> QED
  BY <1>2, <1>3, <1>4

(* Every step leaves each control block in one place.                      *)
LEMMA OwnerNext ==
    ASSUME AioInv, AioInv', OwnerInv, [Next]_vars
    PROVE  OwnerInv'
<1>1. CASE UNCHANGED vars
  <2>1. UNCHANGED <<acb, free_aiocb, first_aio, request_list, frames, thread>>
    BY <1>1 DEF vars, main
  <2>2. CallsInv' /\ CancelInv' /\ \A b : Called(b)' <=> Called(b)
    BY <2>1 DEF OwnerInv, CallsInv, CancelInv, Called, top
  <2>3. ListsOnce' /\ BlocksInv'
    BY <2>1, <2>2, SameBlocks DEF OwnerInv
  <2> QED
    BY <2>1, <2>2, <2>3 DEF OwnerInv, WorkOwned
<1>2. CASE Next
  BY <1>2, CallOwned, ScanOwned, CallbackOwned, WaitedOwned, CancelOwned,
     SubmitOwned, TakeOwned, FinishOwned, PauseOwned, Zenon
  DEF Next, Complete, Run, paio_submit, paio_ioctl
<1> QED
  BY <1>1, <1>2

(* At the beginning there is no control block in use.                      *)
LEMMA OwnerInit ==
    ASSUME Init PROVE OwnerInv
<1>1. Len(frames) = 1 /\ frames[1].kind = "main" /\ top.kind = "main"
  <2>1. frames = <<Frame("main")>>
    BY DEF Init
  <2>2. frames[1].kind = "main" /\ Len(frames) = 1
    BY <2>1 DEF Frame
  <2> QED
    BY <2>2 DEF top, Last
<1>2. \A b : ~Contains(<<>>, b) /\ ~Called(b)
  BY <1>1 DEF Contains, Called
<1>3. WorkOwned
  BY DEF Init, WorkOwned
<1>4. ListsOnce
  <2>1. IsInjective(<<>>)
    BY DEF IsInjective
  <2> QED
    BY <2>1 DEF Init, ListsOnce
<1>5. BlocksInv
  <2>1. \A a \in Acbs : acb[a].state = "new"
    BY DEF Init
  <2> QED
    BY <1>2, <2>1 DEF Init, BlocksInv, BlockInv
<1>6. CallsInv /\ CancelInv
  BY <1>1 DEF CallsInv, CancelInv
<1> QED
  BY <1>3, <1>4, <1>5, <1>6 DEF OwnerInv

(* Where a control block is, by its state, for any number of threads and   *)
(* requests and any nesting of callbacks.                                  *)
THEOREM AioOwnerInvariant == Spec => []OwnerInv
<1>1. Init => OwnerInv
  BY OwnerInit
<1>2. AioInv /\ AioInv' /\ OwnerInv /\ [Next]_vars => OwnerInv'
  BY OwnerNext
<1> QED
  BY <1>1, <1>2, AioInvariant, PTL DEF Spec

(* An outstanding control block is in first_aio or with its callback, one  *)
(* in the pool is neither, no list has one twice, and a thread works only  *)
(* on an active one: paio_cancel and callbacks that submit and cancel      *)
(* never release a control block that is in use.                           *)
THEOREM AioOneOwner == Spec => []OneOwner
<1>1. ASSUME AioInv, OwnerInv PROVE OneOwner
  <2> USE <1>1 DEF AioInv, OwnerInv
  <2> DEFINE C == {f.acb : f \in {g \in ToSet(frames) : g.kind = "callback"}}
  <2>1. \A a : a \in C <=> Called(a)
    <3>1. DOMAIN frames = 1 .. Len(frames)
      BY DEF StackType
    <3> QED
      BY <3>1, Zenon DEF Called, ToSet
  <2>2. \A a \in C : a \in Acbs
    <3>1. \A a : Called(a) => a \in Acbs
      BY DEF StackInv, Called
    <3> QED
      BY <2>1, <3>1, Zenon
  <2>3. /\ \A a : a \in ToSet(first_aio) <=> Contains(first_aio, a)
        /\ \A a : a \in ToSet(free_aiocb) <=> Contains(free_aiocb, a)
    <3>1. DOMAIN first_aio = 1 .. Len(first_aio) /\ DOMAIN free_aiocb = 1 .. Len(free_aiocb)
      BY DEF MainType
    <3> QED
      BY <3>1, Zenon DEF ToSet, Contains
  <2>4. ToSet(first_aio) \subseteq Acbs /\ ToSet(free_aiocb) \subseteq Acbs
    BY DEF ToSet, MainType
  <2> HIDE DEF C
  <2>5. ToSet(first_aio) \cup C = Outstanding
    BY <2>1, <2>2, <2>3, <2>4, SMTT(20) DEF BlocksInv, BlockInv, Outstanding
  <2>6. ToSet(free_aiocb) = {a \in Acbs : acb[a].state = "free"}
    BY <2>3, <2>4 DEF BlocksInv, BlockInv
  <2> QED
    BY <2>5, <2>6 DEF OneOwner, C, WorkOwned, ListsOnce
<1> QED
  BY <1>1, AioInvariant, AioOwnerInvariant, PTL

=============================================================================
