# Verification of vm-playback-driver

The program accelerates video playback in a virtual machine. A player in the
Windows guest sends the compressed stream, and the rectangle of its window, to
the host; the host (QEMU with two added threads) decodes the pictures and draws
them over the guest's screen with an SDL overlay. Guest and host talk through a
small message library (`comm/`) over TCP or UDT.

The models cover the code this program adds (`vabknd.cc`, `va.c`, the
hooks in QEMU, the message library and its console server), and those parts of
the qemu-kvm 0.12.3 it ships that have concurrency or callback order to get
wrong and that playback runs on or beside: the SDL display with its scaling, the
block I/O threads, the VLAN packet queue, outgoing migration.

## 1. Inventory

| Part | Source | State | Operations | What is hard about it |
|---|---|---|---|---|
| Playback context | `va.h`, `vabknd/vabknd.cc` | mutex, avctx, frame, clientRect, needDraw, playing | `va_init`, `va_getContext` | three threads; two accesses made without the mutex |
| Change handler | `vabknd.cc` `changeHandler_thread` | connection on port 8198 | accept, header 7, exception | default rectangle written unlocked, field by field |
| Decoder | `vabknd.cc` `decode_thread`, `codec_init`, `h264init` | connection on port 8199, codec context | accept, headers 1 and 4, exception | `playing` cleared unlocked; an exception type nobody catches; protocol order |
| Drawing | `va.c` | `state.overlay`, `state.last_screen` | `va_do_drawing`, `calcScale`, `convert` | five exits under a mutex; overlay used after unlock; roundings, division |
| Display and hook | `sdl.c`, `console.c`, `hw/vga.c`, `vl.c` | `real_screen`, `ds->surface`, `guest_screen`, scaling, consoles, modes | GUI timer, resize, full screen, mode set, console switch, screen dump | three owners of pixels, replaced in any order |
| Scaled blit | `sdl_zoom.c`, `sdl_zoom_template.h` | fixed-point positions | `sdl_zoom_blit`, its loops | roundings at the edges |
| Message connection | `comm/bknd/MessageConnection.cpp`, `connection.cpp`, `UdpConnection.cpp`, `comm/ftnd/*` | `open`, the byte stream | `writeMessage`, `readMessage`, `send`, `receive`, `close` | partial sends and receives, a peer that goes away |
| Message | `comm/bknd/Message.cpp` | `Refbuf` and its count | construct, copy, assign, destroy | manual reference counting |
| Builder and reader | `MessageBuilder.cpp`, `MessageReader.cpp` | buffer, capacity, size; content, position | `write`, `reserve`, `toMessage`; `read*`, `seek` | zero-copy hand-over, unsigned arithmetic that wraps, failing `new` |
| Listeners | `connection.cpp`, `UdpConnection.cpp` of both ends | listening socket | `listen`, `acceptConnection`, `newConnection`, `closeListener` | sockets on error paths |
| Console server | `comm/console/main.cpp` | processes, descriptors | accept, fork, service | ownership of the connection after `fork` |
| Bandwidth test, echo client | `comm/bkndtest`, `comm/ftndtest` | none that is kept | request, acknowledgement | (not modelled) |
| Block I/O threads | `posix-aio-compat.c`, `async.c`, `aio.c`, pool in `block.c` | request lists, thread counters, contexts, the signal | submit, ioctl, cancel, thread loop, completion, push and pop of contexts | lost wake-ups, recycled control blocks, callbacks in callbacks |
| VLAN packet queue | `net/queue.c`, `net.c` | queue, `receive_disabled`, stopped senders | send, flush, callback, `set_link` | re-entrance, order, a sender that waits for ever |
| Outgoing migration | `migration.c`, `migration-tcp.c`, `buffered_file.c`, stages of `savevm.c` | state, handler, timer, two buffers, monitor | migrate, connect, timer, socket handler, cancel, speed | partial sends, clean-up on every path |

`PROJECT.json` lists the hazards of this code one by one, at the line where
each bites, with the properties that cover it.

## 2. Modules and how they correspond to the code

    CalcScale ──── VaPlayback ──── MCVaPlayback, VaPlaybackProofs
        └───────── OverlayGeometry ─┐
    SdlZoom ────────────────────────┴─ ScaledScreen ─── MCScaledScreen, ScaledScreenProofs
    SdlSurface ──── SdlSurfaceProofs
    MessageChannel ◄─(refines)─ MessageStream ─── MCMessageStream, MessageStreamProofs
    MessageMemory ──── MCMessageMemory ─┐
    MessageBuffer ──── MCMessageBuffer ─┼─ BackEndProofs
    ConsoleServer ──────────────────────┘
    PosixAio ──── PosixAioProofs
    NetQueue ──── MCNetQueue, NetQueueProofs
    Migration ──── MigrationProofs

(`BackEndProofs` extends the three modules on its left, which share no variable;
it does not extend the MC modules. Because they are extended together, their
initial predicates, next-state relations and type invariants are named
`MemoryInit`, `BufferNext`, `ServerTypeOK` and so on.)

**CalcScale** is `calcScale` of `va.c` as operators: bounds on the window
(`Clamp`), the side that limits the picture (`FitsHeight`, `Fit`), centring
(`Placed`) and the conversion to pixels of the SDL surface (`ToScreen`), with
C's division, which truncates towards zero (`CDiv`).

**VaPlayback** is the host process. The variables are the fields of `VAContext`,
the static `state` of `va.c`, SDL's heap of overlays (`yuv`), the current surface
and guest resolution, and a program counter and locals per thread. An action is
what a thread does between two points where another can interfere. Where the
code holds the mutex for a whole block, the block is split only where an
unlocked access of another thread can fall in between: `calcScale` reads the
width and the rest of the rectangle in two steps (`DrawReadWidth`,
`DrawCalcScale`) because the change handler's first writes are unlocked.
Messages are chosen when they are read. The environment may fail everywhere the
code tests for failure: connections (`ChhFail`, `DecFail`), libavcodec
(`DecodeNothing`, `codec_init_fails`), SDL (`DrawNoOverlay`, `ResizeFails`) and
libswscale (`DrawConvert`). `proc` records how the process ended: `throw cid` in
`codec_init` throws an enumerator past a handler for `std::exception`, which
terminates it. Overlay addresses are reused after a free.

**OverlayGeometry** is one call of `calcScale` with every input chosen from sets,
for the properties of the result.

**MessageChannel** says what a message connection promises: messages arrive
whole, in order and at most once; after a failure, a prefix of them did.
**MessageStream** is one direction of `MessageConnection` over a byte stream. A
message is its header and length, then its content, handed over in separate
sends. Send and receive move any number of cells; either end may close at any
point; a closed writer's last cells may be lost. Header, length and content draw
from the same values, so a reader that is out of step cannot tell. `wire` and
`ends` are history variables, which no guard reads: all cells ever written, and
the position at which each message ends. `InStep` is stated with them.

**MessageMemory** has the objects that own message buffers: `Message` (through
`Refbuf`), `MessageReader` (a Message and a plain pointer), `MessageBuilder` (a
plain buffer), and the heap with reusable addresses. `fault` records an `inc` or
`dec` of a deleted `Refbuf`. `MessageReader` declares no copy operations, so
`AssignReader` is the member-wise assignment the compiler generates. An exception
between the allocation of a buffer and that of its `Refbuf`, in `readMessage` or
`toMessage`, leaves the buffer to nobody (`NewMessageFails`,
`builderToMessageFails`); the ghost `lost` has those buffers.

**MessageBuffer** has the arithmetic of builder and reader, with an alphabet of
`Base` byte values and `unsigned int` of `Word` bytes, so that sums wrap modulo
`Base^Word`. `write` includes `reserve`, which is public and also an action of its
own; integers are converted to bytes and back (`Represent`, `readInt`). `toMessage`
may fail at either of its two allocations (`toMessageFails`). The ghost `failed`
says that it did at the first and nothing was written since, and `cut` that
`reserve` was called in that situation for less than has been written.

**ConsoleServer** has the processes of `console/main.cpp`, each with its place in
`main`, its open sockets, its copy of `Connection::listening` and its Connection
object; `fork` copies them. `listen`, `acceptConnection` and the static
destroyer are those of `connection.cpp`, with every call that may fail. After
`service` the child deletes its Connection a second time: `deleteAgain` is what
undefined behaviour can come to there, dying or going on.

**SdlSurface** has the display's pixels. A pointer is the kind of memory it points
to: the window's pixels, the heap, the guest's video memory, or memory that was
freed. The functions of `sdl.c`, `console.c` and `hw/vga.c` are functions from
display to display, composed as the code calls them, so that an action is a whole
event handler with the `vga_hw_invalidate` and `vga_hw_update` at its end.
Drawing records what went wrong in `disp.fault`. A size is one number for width
and height. `con.dumped` remembers that a screen was dumped while a text console
was shown.

**SdlZoom** is one dimension of `sdl_zoom_blit` and of the loops of
`sdl_zoom_rgb16/32`, a step per column, in 16.16 fixed point. **ScaledScreen**
composes it with `OverlayGeometry` as the end of `vga_draw_graphic` does: changed
rows are flushed, which is the blit, and then the picture is placed.

**PosixAio** has the main thread as a stack of calls (`frames`), since a callback
may submit, cancel, enter a context, or look through the queue again while an
outer call is in the middle of the list. The threads' steps are those between
locks; `cond_signal` and `kill` come after the unlock and are steps of their own
(`Kick`, `Kill`). Control blocks are recycled with their fields, as in
`qemu_aio_get`. `owner` records the context that submitted a request, whatever
the code stores; `Carried` says that the two agree.

**NetQueue** is a queue and its clients; a client is described by what its
handlers may do (refuse, drop, reply from its receive handler, send with a
callback, send vectors), which makes tap, slirp and virtio-net instances. A flush
is one step per packet; a callback may send in between, as often as
`virtio_net_flush_tx` finds packets. `flushes` is the stack of nested flushes, with
the sender whose callback each has called: when a flush caused by a callback is
over, that callback may send again.

**Migration** is a migration over TCP from `migrate` to its end. The stream is
numbered, so that what the socket received can be compared with what was written.
A stage of `savevm.c` puts some bytes into the `QEMUFile`, which hands them over
when it is full (`qemu_put_buffer`, `qemu_fflush`), so an error may show only in a
later stage, the last one included, or in the clean-up. The functions of
`buffered_file.c` work on file, socket and handler together; the loop of
`buffered_close` keeps the main thread, so only the peer moves during it
(`MainLoop`). `migrate_fd_put_ready` does not look at the -EIO of an iteration; the
peer may also go while the machine is stopped for the last stage. `wanted` is
what the user last asked for: `stop`, `cont`, or a migration that completed.

## 3. Runs

| Run | Module, config | Properties | What it shows |
|---|---|---|---|
| `va_safety` | MCVaPlayback, VaSafety | OverlayOwned, DisplayedFits, DisplayedIsNew | any guest, everything may fail (3.5 million states) |
| `va_session` | MCVaPlayback, VaSession | PictureReady, NoFault, OverlayReleased, PictureDrawn | a guest that opens each session with its codec: nothing is drawn without a picture, pictures get drawn, overlays disappear |
| `va_reinit` | MCVaPlayback, VaReinit | PictureReady (violated) | the finding below |
| `scaled` | MCScaledScreen, Scaled | LargestFit, OnScreen, OverPlayer, InsideSource | calcScale's result, the scaled blit, and that the two agree |
| `stream` | MCMessageStream, Stream | InStep, ImplementsChannel, Delivery, NoEndWaits | the stream implements the channel; messages arrive, nobody waits for an end that is gone |
| `memory` | MCMessageMemory, Memory | RefcountExact, NothingLeaked, BuilderUnshared, ReaderPointerLive | buffers are owned, counted and freed; exceptions leak exactly the buffers one expects |
| `buffer` | MCMessageBuffer, Buffer | InBounds, RoundTrip | what is written is read back, inside the buffer, also after failed allocations |
| `console` | ConsoleServer, Console | FilesAccounted, SocketsReleased, NoClientWaits | descriptors over accept, fork and exit; a queued client is accepted or reset |
| `display` | SdlSurface, Display | OwnerKnown, NoDangling, DrawInside, ZoomPossible | who owns the pixels, and what is drawn where |
| `aio` | PosixAio, Aio | RequestNoticed, OneOwner, RightContext, EveryRequestEnds | the thread pool, the control blocks, and callbacks that come in their context |
| `net` | MCNetQueue, Net | InOrder, CallbackOwed, SenderResumes | order, and a stopped sender that is called back |
| `migrate` | Migration, Migrate | StreamInOrder, HandlersRight, VmKept, FlushedAtEnd, MigrationEnds | stream, handlers and machine through success, error and cancelling |

The type invariants are theorems (section 4) and no run repeats them.

Every property of a passing run is also shown to be sensitive to the code: each
module has variants of its definitions (a dropped guard, a missing unlock, an
off-by-one; the comments call them "Variant") under which TLC finds the property
violated. `PROJECT.json` lists the pairs under "mutants".

**Bounds.** In `va_*`, `MaxReads` bounds the guest's messages, shared by both
connections: four are enough for codec, picture, resize and another picture.
There are two surface addresses, one of which recurs with another size, two
picture sizes, and rectangles with and without area. `va_session` has the
visible rectangle, and the overlay SDL is asked for. `stream` writes up to four
messages, of content length 0, 1 and 3, through a window smaller than a message,
so that sends block. `memory` has three Messages, two readers, two builders and
five addresses, so that three Messages can share or hold different buffers while
both builders have theirs; Messages, readers, builders and addresses are each
interchangeable. `buffer` has four byte values and two-byte words, so sums wrap
at 16: positions up to 11 and lengths up to 15 do. Builders begin with no room or
with room for three bytes, and messages have up to two values (`MaxItems`);
`reserve` is called for two and five bytes (`Reserves`), less and more than has
been written. `scaled` has sizes and ratios
that do not divide evenly, growing, shrinking and equal, and blits the rows of
the player's window or of the whole screen.

`console` has three clients and children and two descriptors a process: a server
that kept one would fail on its second client. `display` has two sizes, one
smaller than the text console, and a depth that is converted besides the two
that are shared. `aio` has three requests on two control blocks and two threads,
so that blocks are recycled, and one nested context. `net` has room for one
packet, one packet of the user-mode network, two of tap and three of the network
card, so that the queue holds packets of several while it is flushed and a
callback can send again after a nested flush. `migrate` has blocks of 3 bytes and
a socket of 4, so that blocks are split at every place, stages that put 1, 2 or 3
bytes (`Puts`), so that a block is or is not handed over in a stage, and limits of
zero, below and above a block. `MaxBytes`, 12, is an assumption about the guest
and not only a bound: by then what remains is small enough to be sent within
`max_downtime`. The last stage may come earlier.

Deadlock is checked except where the system may stop: `scaled` (one call), the
stream and console runs (everybody gone), `memory` (every address leaked by an
exception), and the display, AIO, network and migration runs, which wait for
events or have used up a bound.

**Fairness.** `va_session`: each thread's own steps are weakly fair (the kernel
schedules it, library calls return) and so is the GUI timer, which every
`gui_update` re-arms. Nothing is assumed of the guest or the user. Mutex
acquisition is only weakly fair; that suffices because the bounded guest cannot
keep the mutex busy for ever, which is an assumption about the load.
`stream`: blocking calls make progress when the network lets them, the
receiver sits in its loop of `readMessage`, and an end that is inside a send or
receive is told that its peer has closed. An idle writer is told nothing, as in
the code.
`console`: every process runs while it is not blocked, and `service` returns once
its client has left; nothing is assumed of clients. `aio`: threads run and system
calls return; callbacks and nested contexts come to an end, and the main loop
comes back to its select and its bottom halves, both strongly fair because other
calls may come in between; time-outs are not fair. `net`: the main thread
finishes a flush, and a client that refused has room again some time and says so
(strong fairness, as traffic may use the room up again). `migrate`:
timers and handlers are called, and a peer that is there reads.

**Finding.** `va_reinit`: `decode_thread` accepts header 1 at any point of a
session. `codec_init` then replaces the codec context, but `needDraw` and
`playing` stay set, so the test commented "Check if there's anything to draw"
(`va.c:86`) passes although no picture of the new context exists; a fresh MPEG
context has width 0, by which `calcScale` divides. `va_session` shows that a
guest that sends its one header 1 first never gets there.

**Observed, not part of a run.** Three comments of QEMU say more than its code
does, and `reserve` can go wrong where no comment says anything; the properties
above are stated so that they do not depend on them.

- `sdl_zoom.c:78` calls the blitted rectangle "the area on the destination surface
  that needs to be updated". With 6 columns shown in 4 and a change of columns 2
  and 3 it is columns 0 to 2, but column 3 of the window is interpolated from
  column 3 of the screen and keeps its old colour.
- `async.c:40`: "Callbacks must only be run if they belong to the current
  AsyncContext". `paio_submit` sets `async_context_id`, `paio_ioctl` does not, so an
  ioctl has the context its recycled control block had. `RightContext` and
  `EveryRequestEnds` are stated as long as control blocks carry their contexts.
- `net/queue.c:37`: "If a sent callback isn't provided, we just drop the packet to
  avoid unbounded queueing", but both send functions append the packet after a
  zero return, callback or not.
- When `operator new` throws in `toMessage` (`MessageBuilder.cpp:26`), the builder
  keeps its buffer and size but has the initial capacity. Writing on is safe,
  because a write reserves more than `size`. A call of `reserve` with more than
  the initial capacity and less than `size` may allocate less than the
  `memcpy` at line 43 then copies. `InBounds` excludes what follows such a call.

## 4. Theorems

All proofs are in the `*Proofs` modules and hold for every value of the
constants that satisfies the named assumptions of the module (sizes are
positive, sets of objects finite, NULL is not an address).

**VaPlaybackProofs.** The inductive invariant `IInv` adds to the type invariant,
`LockDiscipline` and `OverlayOwned`: `OverlayInv` (the overlay's surface is the
one in `last_screen`, and between choosing it and displaying it the overlay fits;
needed because it is displayed after the unlock), `HandoverInv` (the order of
the shown, pending and decoded picture numbers in every phase of a drawing;
`DisplayedIsNew` alone says nothing before the display), `ContextInv` (after a
picture there is a context) and `BootInv`. `TypeCorrect`, `LockCorrect`,
`OverlayCorrect`, `DisplayCorrect` and `HandoverCorrect` follow. `AreaCorrect`
assumes pictures of at least 20 by 20 pixels: below that, the limit of a
twentieth is 0 in integer division. `PictureCorrect` and `FaultFree` assume
`GuestDisciplined` and `SizeStable` and rest on `SessionInv`, which ties
`playing`, `decFresh` and the context's size to the decoder's place in its
session; it is what makes the unlocked `playing = 0` harmless.

**ScaledScreenProofs** has three parts. On `calcScale`: `FitsWindow`, `FitsLargest`,
`FitsCentred` and `FitsScreen`, from lemmas on truncating division
(`CDivBounds`), products (`TimesMonotone`, `TimesCancel`) and the three stages of
the function. On the blit: `ZoomInv` says that the table's entry and the pointer
together are the exact position: `c00 * 65536` plus the entry's fraction is `x`
steps. That is needed because the table only holds fractions and the pointer
only whole columns. `ZoomNoDrift` follows, and `ZoomInsideSource` from it with a
bound on `x` steps of the rounded-down step; `ZoomInsideDestination` is arithmetic
on the roundings. They hold for all sizes of at least 2. On the two together:
each step of a frame is a step of one part, so their theorems hold in a frame
(`ScaledSafe`); `ScaledOverPlayer` compares the two roundings of the same scale,
down on one side and up on the other, for all sizes.

**MessageStreamProofs.** The argument is about positions on the wire. `StreamInv`
says that every message written lies on the wire between the end of its
predecessor and its own end, and that what `readMessage` has half read, the
network, and what `writeMessage` has still to send lie there one after the other
from the end of the last message delivered; messages delivered are the first
ones sent. So the two cells `readMessage` takes for a `msg_struct` are the struct
of the next message, and the content it then takes has the right length:
`StreamInStep`. `StreamImplementsChannel` is the refinement of `MessageChannel`:
the step that returns a message appends the next one of `sent`, every other one
leaves the channel alone or closes an end. It holds for any set of messages, any
window and any number of messages. Positions take the place of a concatenation
of all messages.

**BackEndProofs** has the theorems on `MessageMemory`, `MessageBuffer` and
`ConsoleServer`.

*MessageMemory.* The invariants are inductive together. The heart is how
`inc` and `dec` change the set of holders of a buffer (`HoldersMore`,
`HoldersLess`, `HoldersSame`, with the library's cardinality theorems) and,
for assignment, `DecIncMemory`: the old buffer may be freed, the new one cannot
be the one freed.

*MessageBuffer, bounds.* `BufferInv` adds `init_cap <= capacity`: without it,
`toMessageFails`, which resets the capacity but keeps the old buffer, could leave
the builder believing in more memory than it has. `BuilderFits` (`ReserveCorrect`)
says besides that what is written fits the allocation, and the capacity unless
`toMessage` has just failed: this is why the copy of the next `reserve` is inside
both buffers when a write calls it. `AccessCorrect` follows for stores, copies
and reads; on the reader's side, `PositionCorrect` shows that `assureSize` is safe
although its sum may wrap.

*MessageBuffer, contents.* `ReadsWhatWasWritten` (`RoundTrip`) has two halves. The
first is that the conversion to bytes loses nothing: `RepresentInjective` says
that no two values of a type, signed or not, have the same bytes, for every
width and every alphabet. It is an induction on the number of digits
(`SameDigits`): values with the same digits up to the k-th differ by a multiple of
`Base^k`, and two values of a type differ by less than that. So the value
`readInt` chooses, the one with these bytes, is the one that was written. The
second half is where values lie. `Spells` says that bytes from a position on are
what writing certain values appends, by giving the position of each; `RoundInv`
says so of the builder's buffer, of the message from 0 and of what an in-order
reading has still to read from `seek_pos`. `RoundTrip` alone says nothing of a
value before it is read. A read in order shortens what is spelled by one; a read
out of order or a `seek` ends the in-order reading or begins it again. What is
assumed of the constants is that a written value is one of its type, that a
string's length fits its length field (`ItemsAssumption`), and that a buffer and
one more item stay below the modulus (`SizesAssumption`, `TypesAssumption`), as
allocations on a 32-bit machine do.

*ConsoleServer.* `ServerInv` adds to the type invariant and the two halves of
`FilesAccounted` (`Accounted`, `ServedOnce`): `Roles` (only the server is in the
loop of `main`, only children serve), `Connected` (there is a Connection between
`accept` and the end of `service`) and `InOnePlace` (a client is once in the
backlog, or with the server before its fork, or with those it was given to).
`InOnePlace` is what makes a forked child the only one with its connection.
`ServerTyped` and `ServerFiles` follow for any number of children and clients, any
backlog and any limit on descriptors.

**PosixAioProofs.** `AioInv` has four parts. `StackType`: the main thread's frames are
a stack whose contexts go up by one at each "context" frame and whose callbacks
lie on scans; without it `async_context_pop` could go below context 0.
`PoolType` counts the threads: the two counters are cardinalities of sets of
threads (`Recount`, `CountStep`). `MainType` types the lists, and `WorkInv` ties a
working thread to its control block. `AioThreadsCounted`, `AioTypeOK` and, with
the further step `NoticedNext`, `AioRequestNoticed` follow for any number of
requests and any finite, nonempty set of threads. `AioRightContext` needs no
invariant on the blocks: while they carry their contexts, what a scan picks in a
step (`InContextNext`) belongs to the context it runs in. `OwnerInv`, on top of
`AioInv`, says where a control block is by its state: queued ones are in
`request_list`, free ones in the pool, outstanding ones in `first_aio` or in the
hands of a callback and never both. For the lists to stay without duplicates it
also needs that no two threads work on one block, that no two callbacks have the
same one, and that the block a `paio_cancel` waits for stays in the list, for which
that call must be the innermost one. `AioOneOwner` follows. The lemmas are about
lists without duplicates (`RemoveAtOnce`, `WithoutOnce`, `PutFirst`, `TakeFirst`).

**MigrationProofs.** `PutInv` numbers the stream: what the socket got is bytes 1 to
some n, and unless the peer is gone the buffer has those from n + 1 to the last
one written. Every function of `buffered_file.c` has a lemma that it keeps this
(`FlushPut`, `PutRestPut`, `BufferedPut`), whatever part the socket takes, and so
have `qemu_fflush` and a stage (`FflushPut`, `StagePut`). `Short` says that after an
error something of the stream never reached the socket; it comes from what each
function does to the error flags (`Errs`), and is what the second half of `VmKept`
needs, together with `RunsRight` for the first.
`ControlInv` ties file, handler, timer and `fd` to the state of the migration,
with the exception that the loop of `buffered_close` may run on frozen output
without a handler (`MainLoop`). `MigrationStreamInOrder`,
`MigrationHandlersRight`, `MigrationVmKept` and the action property
`MigrationFlushedAtEnd` follow, for any size of block, socket and memory and any
limits. The last one needs no `FlushedAtEnd` in the invariant: the guard of the
closing step is that the buffer is empty or in error, and `PutInv` turns an empty
buffer into a complete stream. `MigrationTyped` bounds what is put as well
(`BoundInv`): a handler that finds the file open and without an error has put less
than `MaxBytes`, and before it returns puts at most three blocks more (the first
stage, an iteration and the last stage, when all fall in the step that connects).
Each function has a second lemma for that (`FlushBounded`, `PutRestBounded`,
`StageBounded`, `CleanupBounded`).

**NetQueueProofs.** `NetInv` says that a sender with callbacks has a packet in the
queue just while it waits, only one, and the last it sent (`Held`), that no client
has had a packet that was not sent yet (`NoneAhead`), and that outside of a flush
some client refused the first packet and will ask for it (`Awaited`). `Held` is
the point: `InOrder` alone does not exclude a second packet behind the one that
is queued. What `qemu_vlan_deliver_packet` does is a loop over the clients, a
recursive function here; `DeliveryCarries` shows by induction on the turns that it
forgets no refusal, that a return of 0 leaves a client that refused, and that only
the sender's entries change, and never to an earlier packet (`Carries`).
`SendStep` and `FlushStep` combine that with what happens to the queue: a packet is
appended with the replies sent from receive handlers behind it, or put back in
front. `NetInOrder` and `NetCallbackOwed` follow for any sequence of clients, any
room and any numbers of packets. `NetAssumption` asks that a client that replies
from its receive handler, as slirp does, neither refuses packets nor has
callbacks (`net/slirp.c:110-117`).

**SdlSurfaceProofs.** `SurfaceInv` has two parts. `Safe` holds always: the surface
has the memory its kind says (`Backed`) and `guest_screen` wraps it. `Good` holds
until a screen is dumped behind a text console: `Sized` says that the surface has
the size last drawn, and that the size of the guest's display is remembered
while a text console is shown; `Zoomed`, that the depths match unless the display
is blank and its next update will make them match. Inside an action they do not
hold. So there is a lemma per procedure on what it makes of any display
(`NewSurfaceBacked` assumes nothing of the old surface, which may be gone) or of
any world (`Updated`, with the weaker precondition `Loose`), and an action is
proved from those it calls. `SurfaceOwnerKnown` and `SurfaceNoDangling` follow
from `Safe`, `SurfaceDrawInside` and `SurfaceZoomPossible` from `Good`, for any
sizes, any depths of the adapter and any depth of the host.

Induction over numbers (`Induction` in `BackEndProofs` and `NetQueueProofs`) comes
from the library's theorem that a well-founded relation has minimal elements: a
set of numbers that is not all of them would have a least one missing. It is
stated for a set, not for a predicate, so that the provers can apply it; that a
recursive function satisfies its defining equation is proved with it.

All the invariants named here were model-checked on small instances before they
were proved.

Some of these theorems state what no run repeats, because the theorem covers
it: type correctness, `LockDiscipline`, `OverlayHasArea`, `InsideWindow`,
`Centred`, `BuilderFits`, `PositionInside`, `InsideDestination`, `NoDrift`,
`ThreadsCounted`, and the freedom from faults of `MessageMemory`.

**Only model-checked.** Liveness (`OverlayReleased`, `PictureDrawn`, `Delivery`,
`NoEndWaits`, `SocketsReleased`, `NoClientWaits`, `EveryRequestEnds`,
`SenderResumes`, `MigrationEnds`) is out of the prover's reach: it needs fairness
and ENABLED. Every other property of the passing runs is a theorem.

## 5. Assumptions and limits

- `int` is unbounded in `CalcScale`; a guest rectangle large enough to overflow,
  or to exceed the 16-bit fields of `SDL_Rect`, is outside the model.
- The length inside a packet (header 4) agrees with the message's length.
- `SizeStable` (only where a theorem or run names it): while playing, libavcodec
  changes the context's size only together with a picture.
- The display is SDL. `VaPlayback` has a guest that stays in a true-colour graphic
  mode; `SdlSurface` has all modes, without the overlay.
- `TcpListener`, used by `vabknd.cc`, is not in the repository; it is modelled by
  its use, as a source of connections. A listener that cannot be set up is not
  modelled.
- `NoClientWaits` allows a queue to be kept while the server is gone and a child
  that inherited the listener serves a client that does not leave.
- `float` and `double` can be written but have no read; they are bytes here. The
  accessors that copy the header are left out.
- `SdlZoom` takes the float divisions of `sdl_zoom_blit` as exact, which they are
  for sizes up to 4096, and sizes of at least 2.
- `SdlSurface` has one graphic and one text console, and no failure of
  `SDL_SetVideoMode` (which ends the process; it is in `VaPlayback`).
- `ZoomPossible` leaves out a blanked display, and it and `DrawInside` hold until a
  screen is dumped behind a text console: there the code does what the properties
  forbid, and no comment or document says otherwise. The hazards in
  `PROJECT.json` describe the cases.
- `InOrder` is about senders with callbacks. A sender without one can be
  overtaken, and a packet that one client took and another refused is offered to
  both again.
- `FlushedAtEnd` and `MigrationEnds` say nothing of a peer that has gone: an error
  found while the file is closed still ends in "completed", and one found by the
  socket's handler, or by an iteration, leaves the migration active until it is
  cancelled. `MigrationEnds` rests on `MaxBytes`: a guest that dirties its memory
  faster than it is sent is outside the model.
- An error of the `QEMUFile` comes from the socket. `ram_save_live` also sets it
  when the dirty bitmap cannot be read (`vl.c:3081`), which is not modelled.
- `ScaledScreen` follows rows only; columns are scaled by the same code.
- In `PosixAio` a nested context is left only when its own requests are finished,
  as the callers in `block.c` do; only the bottom half of `async_context_pop` is
  modelled.

**Not modelled.**

- The guest's `newConnection`, `initialize` and `resolve`: straight-line calls in one
  thread. The UDT listener repeats the TCP one.
- The bandwidth test and the echo client: single-threaded loops that send a message
  and wait for its acknowledgement, to measure. What they rely on is what
  `stream` checks.
- Keyboard, mouse and cursor in `sdl.c`; colours, glyphs and the dirty bitmap in
  `hw/vga.c`; displays other than SDL.
- `qemu_aio_flush`, other AIO handlers, the emulated vectored and synchronous I/O
  of `block.c`.
- Removal of VLAN clients and `qemu_net_queue_purge`; netdev peers; the devices.
- Migration over exec, unix sockets and file descriptors (the same functions with
  another transport), incoming migration, the contents of the sections.
- The rest of QEMU: CPU emulation and KVM, devices, block formats, monitor. It is
  by far the largest part of the source tree, and not part of video playback.
- Exception texts, message numbers, and the scripts that configure the network.

## 6. Plan

1. *Composition*: `SdlSurface` with `VaPlayback`, for overlays across console
   switches and modes without true colour.
2. *Clients that go away*: `qemu_del_vlan_client` with packets in the queue.
