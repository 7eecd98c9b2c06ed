------------------------------ MODULE Migration -----------------------------
(***************************************************************************)
(* Outgoing live migration over TCP (migration.c, migration-tcp.c) through *)
(* the rate-limited file of buffered_file.c.  Everything runs in the main  *)
(* thread: monitor commands, the timer of the file, and the handler of the *)
(* socket, which waits for the connection or, after EAGAIN, for room.      *)
(*                                                                         *)
(* The stream is the bytes 1, 2, ...: the stages of savevm put them into   *)
(* the QEMUFile, which hands them over by the block.  The socket takes     *)
(* what it has room for; the peer makes room, or is gone and every send    *)
(* fails from then on.                                                     *)
(***************************************************************************)
EXTENDS Naturals, Sequences, SequencesExt, FiniteSetsExt

CONSTANTS Block,     \* bytes the QEMUFile holds, IO_BUF_SIZE
          Puts,      \* numbers of bytes a stage of savevm puts
          SockRoom,  \* bytes the socket holds
          Limits,    \* values of xfer_limit
          MaxBytes   \* after that many the rest of the guest's memory is small
                     \* enough for max_downtime, at the latest

ASSUME MigrationAssumption ==
    /\ Block \in Nat \ {0} /\ SockRoom \in Nat \ {0} /\ MaxBytes \in Nat
    /\ Puts \subseteq 1 .. Block /\ Limits \subseteq Nat /\ Limits # {}

VARIABLES
    state,       \* of the migration, "none" before the first
    fd,          \* the socket is open
    handler,     \* on the socket: "none", "connect" or "notify"
    file,        \* the QEMUFileBuffered, and the QEMUFile on it
    timer,       \* the timer of the file is armed
    closing,     \* the state to set after migrate_fd_cleanup, or "no"
    mon,         \* the migration has a monitor to resume
    suspended,   \* suspend_cnt of the monitor
    vm_running,
    wanted,      \* the user's last word: stop, cont or a migration completed
    sock         \* what was sent, the room left, whether the peer is gone

vars == <<state, fd, handler, file, timer, closing, mon, suspended, vm_running, wanted, sock>>

Ended == {"completed", "error", "cancelled"}
Bytes == 1 .. (MaxBytes + 3 * Block)

NoFile == [open |-> FALSE, has_error |-> FALSE, freeze_output |-> FALSE,
           bytes_xfer |-> 0, xfer_limit |-> 0, buffer |-> <<>>, f_error |-> FALSE,
           f_buf |-> <<>>, written |-> 0]

TypeOK ==
    /\ state \in {"none", "active"} \cup Ended
    /\ fd \in BOOLEAN /\ timer \in BOOLEAN /\ mon \in BOOLEAN
    /\ handler \in {"none", "connect", "notify"}
    /\ file \in [open : BOOLEAN, has_error : BOOLEAN, freeze_output : BOOLEAN,
                 bytes_xfer : Nat, xfer_limit : Limits \cup {0}, buffer : Seq(Bytes),
                 f_error : BOOLEAN, f_buf : Seq(Bytes), written : Bytes \cup {0}]
    /\ closing \in {"no"} \cup Ended
    /\ suspended \in 0 .. 1
    /\ vm_running \in BOOLEAN /\ wanted \in BOOLEAN
    /\ sock \in [sent : Seq(Bytes), room : 0 .. SockRoom, gone : BOOLEAN]

Init ==
    /\ state = "none" /\ fd = FALSE /\ handler = "none" /\ file = NoFile
    /\ timer = FALSE /\ closing = "no" /\ mon = FALSE /\ suspended = 0
    /\ vm_running \in BOOLEAN /\ wanted = vm_running
    /\ sock = [sent |-> <<>>, room |-> SockRoom, gone |-> FALSE]

-----------------------------------------------------------------------------
(* buffered_file.c, on b = [file, sock, handler]                           *)

(* migrate_fd_put_buffer and the loops around it: what the socket has no   *)
(* room for ends in EAGAIN, which freezes the output and sets the handler. *)
Sendable(b, data) == Min({Len(data), b.sock.room})

Sent(b, data) ==
    LET k == Sendable(b, data)
    IN  [b EXCEPT !.sock.sent = @ \o SubSeq(data, 1, k), !.sock.room = @ - k]

FrozenSilently(b) == [b EXCEPT !.file.freeze_output = TRUE]

Frozen(b) == [b EXCEPT !.file.freeze_output = TRUE, !.handler = "notify"]

Rest(b, data) == SubSeq(data, Sendable(b, data) + 1, Len(data))

FlushKeepsBuffer(b) ==
    IF b.file.has_error \/ b.file.buffer = <<>> THEN b
    ELSE IF b.sock.gone THEN [b EXCEPT !.file.has_error = TRUE]
    ELSE LET rest == Rest(b, b.file.buffer)
         IN  IF rest = <<>> THEN [Sent(b, b.file.buffer) EXCEPT !.file.buffer = <<>>]
             ELSE Frozen(Sent(b, b.file.buffer))

buffered_flush(b) ==
    IF b.file.has_error \/ b.file.buffer = <<>> THEN b
    ELSE IF b.sock.gone THEN [b EXCEPT !.file.has_error = TRUE]
    ELSE LET rest == Rest(b, b.file.buffer)
             c == [Sent(b, b.file.buffer) EXCEPT !.file.buffer = rest]
         IN  IF rest = <<>> THEN c ELSE Frozen(c)

(* The loop of buffered_put_buffer, and buffered_append of what it leaves  *)
PutRest(b, data) ==
    IF b.file.freeze_output \/ data = <<>> \/ b.file.bytes_xfer > b.file.xfer_limit
    THEN [b EXCEPT !.file.buffer = @ \o data]
    ELSE IF b.sock.gone THEN [b EXCEPT !.file.has_error = TRUE, !.file.f_error = TRUE]
    ELSE LET rest == Rest(b, data)
             c == [Sent(b, data) EXCEPT !.file.buffer = @ \o rest,
                                        !.file.bytes_xfer = @ + Sendable(b, data)]
         IN  IF rest = <<>> \/ c.file.bytes_xfer > c.file.xfer_limit THEN c ELSE Frozen(c)

(* buffered_put_buffer; qemu_fflush marks the QEMUFile when it fails, and  *)
(* qemu_file_put_notify, which puts nothing, does not look.                *)
buffered_put_buffer(b, data) ==
    IF b.file.has_error THEN [b EXCEPT !.file.f_error = @ \/ data # <<>>]
    ELSE PutRest(buffered_flush([b EXCEPT !.file.freeze_output = FALSE]), data)

buffered == [file |-> file, sock |-> sock, handler |-> handler]

(* How far the stages have come                                            *)
Total(b) == b.file.written + Len(b.file.f_buf)

(* The next n bytes of the stream go into the QEMUFile.                    *)
Filled(b, n) == [b EXCEPT !.file.f_buf = @ \o [i \in 1 .. n |-> Total(b) + i]]

FflushForgets(b) == [b EXCEPT !.file.written = Total(b), !.file.f_buf = <<>>]

(* The QEMUFile is empty afterwards, also if it failed.  file.written is   *)
(* how much it has handed over.                                            *)
qemu_fflush(b) ==
    IF b.file.f_buf = <<>> THEN b
    ELSE [buffered_put_buffer([b EXCEPT !.file.written = Total(b)], b.file.f_buf)
             EXCEPT !.file.f_buf = <<>>]

(* At most two rounds of the loop, for n <= Block                          *)
qemu_put_buffer(b, n) ==
    LET l == Min({n, Block - Len(b.file.f_buf)})
        full == qemu_fflush(Filled(b, l))
    IN  IF b.file.f_error THEN b
        ELSE IF Len(b.file.f_buf) + n < Block THEN Filled(b, n)
        ELSE IF full.file.f_error THEN full
        ELSE Filled(full, n - l)

(* A stage of savevm, the last one included, puts some bytes: the first of *)
(* them may be handed over, the others stay in the QEMUFile.               *)
Stage(b) == {qemu_put_buffer(b, n) : n \in Puts}

-----------------------------------------------------------------------------
(* migration.c                                                             *)

(* migrate_fd_cleanup with a file: the handler goes, qemu_fclose puts what *)
(* is left in the QEMUFile, and buffered_close begins its loop.  s is the  *)
(* state the migration has at the end; nobody looks before.                *)
migrate_fd_cleanup(b, s) ==
    \E c \in {qemu_fflush([b EXCEPT !.handler = "none"])} :
        file' = c.file /\ sock' = c.sock /\ handler' = c.handler /\ closing' = s

(* monitor_resume of the monitor that migrate_fd_monitor_suspend kept      *)
MonitorResume ==
    /\ suspended' = IF mon THEN suspended - 1 ELSE suspended
    /\ mon' = FALSE

(* migrate_fd_cleanup before there is a file                               *)
CleanupNoFile(s) ==
    /\ handler' = "none" /\ fd' = FALSE /\ state' = s /\ MonitorResume
    /\ UNCHANGED <<file, timer, closing, sock, vm_running, wanted>>

CloseKeepsHandler ==
    /\ fd' = FALSE /\ timer' = FALSE /\ file' = NoFile
    /\ state' = closing /\ closing' = "no" /\ MonitorResume
    /\ wanted' = (wanted /\ closing # "completed")
    /\ UNCHANGED <<handler, sock>>

(* migrate_fd_close and the rest of buffered_close and migrate_fd_cleanup  *)
migrate_fd_close ==
    /\ handler' = "none" /\ fd' = FALSE /\ timer' = FALSE /\ file' = NoFile
    /\ state' = closing /\ closing' = "no" /\ MonitorResume
    /\ wanted' = (wanted /\ closing # "completed")
    /\ UNCHANGED sock

(* The loop of buffered_close keeps the main thread.  migrate_fd_wait_for_ *)
(* unfreeze is given the file instead of the migration, finds it not       *)
(* active and does not wait: it flushes again and again.                   *)
buffered_close ==
    /\ closing # "no"
    /\ IF file.has_error \/ file.buffer = <<>> THEN migrate_fd_close
       ELSE LET b == buffered_flush(buffered)
            IN  /\ file' = b.file /\ sock' = b.sock /\ handler' = b.handler
                /\ UNCHANGED <<state, fd, timer, closing, mon, suspended, wanted>>
    /\ UNCHANGED vm_running

VmNotRestarted(failed) == vm_running' = FALSE

(* vm_stop, and vm_start if the last stage failed and the machine ran      *)
VmAfter(failed) == vm_running' = (failed /\ vm_running)

(* migrate_fd_put_ready: an iteration, and if it was the last one the rest *)
(* with the machine stopped; meanwhile the peer may go.  An iteration that *)
(* fails may be the last, since save_live_state is not held back any more, *)
(* or not: then its -EIO is not looked at and the migration stays active.  *)
migrate_fd_put_ready(b) ==
    \E i \in Stage(b) :
        \/ /\ Total(i) < MaxBytes \/ i.file.f_error
           /\ file' = i.file /\ sock' = i.sock /\ handler' = i.handler
           /\ UNCHANGED <<closing, vm_running>>
        \/ \E p \in {i, [i EXCEPT !.sock.gone = TRUE]} : \E l \in Stage(p) :
              /\ VmAfter(l.file.f_error)
              /\ migrate_fd_cleanup(l, IF l.file.f_error THEN "error" ELSE "completed")

qemu_fopen_ops_buffered(b, limit) ==
    [b EXCEPT !.file = [NoFile EXCEPT !.open = TRUE, !.xfer_limit = limit]]

(* migrate_fd_connect, with a file limited to limit                        *)
migrate_fd_connect(b, limit) ==
    \E begun \in Stage(qemu_fopen_ops_buffered(b, limit)) :
        \/ /\ ~begun.file.f_error
           /\ migrate_fd_put_ready(begun)
        \/ /\ begun.file.f_error
           /\ migrate_fd_cleanup(begun, "error")
           /\ UNCHANGED vm_running

-----------------------------------------------------------------------------
(* Handlers of the main loop                                               *)

MainLoop == closing = "no"

NewSock == [sent |-> <<>>, room |-> SockRoom, gone |-> FALSE]

(* The monitor's migrate, and tcp_start_outgoing_migration.  When connect  *)
(* fails at once the monitor is left suspended.                            *)
do_migrate(detach) ==
    /\ MainLoop /\ state # "active" /\ suspended = 0
    /\ suspended' = IF detach THEN 0 ELSE 1
    /\ \/ /\ handler' = "connect" /\ fd' = TRUE /\ state' = "active" /\ mon' = ~detach
          /\ sock' = NewSock
          /\ UNCHANGED <<file, timer, closing, vm_running, wanted>>
       \/ /\ fd' = TRUE /\ state' = "active" /\ mon' = ~detach /\ timer' = TRUE
          /\ \E limit \in Limits :
                migrate_fd_connect([buffered EXCEPT !.sock = NewSock], limit)
          /\ UNCHANGED wanted
       \/ UNCHANGED <<handler, fd, state, mon, sock, file, timer, closing, vm_running, wanted>>

(* The socket is connected, or it is not going to be.                      *)
tcp_wait_for_connect ==
    /\ MainLoop /\ handler = "connect"
    /\ \/ /\ timer' = TRUE
          /\ \E limit \in Limits :
                migrate_fd_connect([buffered EXCEPT !.handler = "none"], limit)
          /\ UNCHANGED <<state, fd, mon, suspended, wanted>>
       \/ CleanupNoFile("error")

(* There is room again, or the peer is gone: qemu_file_put_notify          *)
migrate_fd_put_notify ==
    /\ MainLoop /\ handler = "notify" /\ (sock.room > 0 \/ sock.gone)
    /\ LET b == buffered_put_buffer([buffered EXCEPT !.handler = "none"], <<>>)
       IN  file' = b.file /\ sock' = b.sock /\ handler' = b.handler
    /\ UNCHANGED <<state, fd, timer, closing, mon, suspended, vm_running, wanted>>

buffered_rate_tick ==
    /\ MainLoop /\ timer
    /\ UNCHANGED <<state, fd, mon, suspended, wanted>>
    /\ \/ /\ file.has_error
          /\ timer' = FALSE
          /\ UNCHANGED <<file, sock, handler, closing, vm_running>>
       \/ /\ ~file.has_error /\ ~file.freeze_output
          /\ UNCHANGED timer
          /\ \E b \in {buffered_flush([buffered EXCEPT !.file.bytes_xfer = 0])} :
                migrate_fd_put_ready(b)

(* The monitor's migrate_cancel                                            *)
migrate_fd_cancel ==
    /\ MainLoop /\ state = "active"
    /\ \/ /\ file.open
          /\ migrate_fd_cleanup(buffered, "cancelled")
          /\ UNCHANGED <<state, fd, timer, mon, suspended, vm_running, wanted>>
       \/ /\ ~file.open
          /\ CleanupNoFile("cancelled")

(* The monitor's migrate_set_speed                                         *)
do_migrate_set_speed(limit) ==
    /\ MainLoop /\ file.open /\ ~file.has_error
    /\ file' = [file EXCEPT !.xfer_limit = limit]
    /\ UNCHANGED <<state, fd, handler, timer, closing, mon, suspended, vm_running, wanted, sock>>

(* The monitor's stop and cont                                             *)
StopOrCont(run) ==
    /\ MainLoop
    /\ vm_running' = run /\ wanted' = run
    /\ UNCHANGED <<state, fd, handler, file, timer, closing, mon, suspended, sock>>

PeerReads ==
    /\ fd /\ ~sock.gone /\ sock.room < SockRoom
    /\ sock' = [sock EXCEPT !.room = SockRoom]
    /\ UNCHANGED <<state, fd, handler, file, timer, closing, mon, suspended, vm_running, wanted>>

PeerGoes ==
    /\ fd /\ handler # "connect" /\ ~sock.gone
    /\ sock' = [sock EXCEPT !.gone = TRUE]
    /\ UNCHANGED <<state, fd, handler, file, timer, closing, mon, suspended, vm_running, wanted>>

Next ==
    \/ \E detach \in BOOLEAN : do_migrate(detach)
    \/ tcp_wait_for_connect \/ migrate_fd_put_notify \/ buffered_rate_tick
    \/ buffered_close \/ migrate_fd_cancel \/ \E run \in BOOLEAN : StopOrCont(run)
    \/ \E limit \in Limits : do_migrate_set_speed(limit)
    \/ PeerReads \/ PeerGoes

Spec == Init /\ [][Next]_vars

(* Events are handled, timers fire, and a peer that is not gone reads.     *)
FairSpec ==
    /\ Spec
    /\ WF_vars(tcp_wait_for_connect) /\ WF_vars(migrate_fd_put_notify)
    /\ WF_vars(buffered_rate_tick) /\ WF_vars(buffered_close) /\ WF_vars(PeerReads)

-----------------------------------------------------------------------------
(* What reaches the socket is the stream from its first byte on, with no   *)
(* byte left out, put twice or out of order, whatever part of a block the  *)
(* socket took and however flushes of the timer, of the handler and of the *)
(* next block take turns; without an error all the rest is buffered.       *)
StreamInOrder ==
    /\ \A i \in DOMAIN sock.sent : sock.sent[i] = i
    /\ file.open /\ ~file.has_error =>
          sock.sent \o file.buffer \o file.f_buf = [i \in 1 .. Total(buffered) |-> i]

(* No handler is left on a closed socket, no timer on a freed file, and    *)
(* the handler that flushes has a file.  Frozen output thaws: while the    *)
(* file waits for room the handler that ends the wait is set, or the file  *)
(* is closing.                                                             *)
HandlersRight ==
    /\ handler # "none" => fd
    /\ timer \/ handler = "notify" => file.open
    /\ file.freeze_output /\ ~file.has_error /\ MainLoop => handler = "notify"

(* The machine runs here exactly if the user wants it to: a migration that *)
(* fails, at the last stage too, or is cancelled leaves it as it was, and  *)
(* one that completes has stopped it.  It never runs twice: when it runs   *)
(* on here after an error, the peer has not got the whole stream.          *)
VmKept ==
    /\ vm_running = (wanted /\ closing # "completed")
    /\ closing = "error" => Len(sock.sent) < Total(buffered)

(* A migration that is "completed" has sent all of its stream, unless the  *)
(* peer went away, and "Don't resume monitor until we've flushed all of    *)
(* the buffers" (migration.c) is kept on every path.                       *)
FlushedAtEnd ==
    [][/\ closing = "completed" /\ closing' = "no" =>
             Len(sock.sent) = Total(buffered) \/ sock.gone
       /\ suspended' < suspended => file.buffer = <<>> \/ file.has_error]_vars

(* A migration to a peer that goes on reading comes to an end, connecting  *)
(* included and at any speed limit, if the guest does not keep its memory  *)
(* too dirty: MaxBytes, the number of bytes after which what remains can   *)
(* be sent within max_downtime, is an assumption about the guest.  Nothing *)
(* is said once the peer is gone: after an ignored error the migration may *)
(* stay active until it is cancelled.                                      *)
MigrationEnds == state = "active" ~> (state # "active" \/ sock.gone)

=============================================================================
