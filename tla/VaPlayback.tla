----------------------------- MODULE VaPlayback -----------------------------
(***************************************************************************)
(* The host side of video acceleration: the VAContext shared, under one    *)
(* SDL mutex, by the three threads of the QEMU process                     *)
(*                                                                         *)
(*   changeHandler_thread  (vabknd.cc)  stores the player's rectangle,     *)
(*   decode_thread         (vabknd.cc)  decodes the guest's packets,       *)
(*   QEMU's main thread    (va.c)       draws decoded pictures through an  *)
(*                                      SDL YUV overlay.                   *)
(*                                                                         *)
(* An action is what a thread does between two points where another        *)
(* thread can interfere: taking the mutex, an access to the context made   *)
(* without it, or waiting for the guest.  The guest never gets an answer   *)
(* on these two connections, so a message is chosen when it is read; how   *)
(* bytes become messages is the subject of MessageStream.                  *)
(***************************************************************************)
EXTENDS CalcScale

CONSTANTS
    Surfaces,         \* what SDL_SetVideoMode returns: [id, w, h]
    Modes,            \* guest resolutions: [w, h]
    VideoSizes,       \* picture sizes the decoder reports: [w, h]
    GuestRects,       \* client rectangles the guest sends: [l, t, w, h]
    CodecIds,         \* codec numbers the guest sends
    OverlayIds,       \* addresses of SDL overlays
    NULL,             \* the null pointer
    MaxReads,         \* bound: messages the guest sends
    GuestDisciplined, \* each decode session starts with its only header 1
    SizeStable,       \* while playing, avctx's size changes with a picture
    OverlayMayFail    \* SDL may be unable to create or fill an overlay

Positive == Nat \ {0}
Size     == [w : Positive, h : Positive]
Rect     == [l : Int, t : Int, w : Int, h : Int]

ASSUME SurfacesAssumption ==
    /\ Surfaces # {}
    /\ \A s \in Surfaces : s.w \in Positive /\ s.h \in Positive
ASSUME SizesAssumption ==
    /\ Modes \subseteq Size /\ Modes # {}
    /\ VideoSizes \subseteq Size
ASSUME GuestAssumption ==
    /\ GuestRects \subseteq Rect
    /\ CodecIds \subseteq Int
    /\ MaxReads \in Nat
ASSUME NULLAssumption ==
    /\ NULL \notin OverlayIds
    /\ NULL \notin [w : Nat, h : Nat]
    /\ \A s \in Surfaces : s.id # NULL
ASSUME SwitchesAssumption ==
    {GuestDisciplined, SizeStable, OverlayMayFail} \subseteq BOOLEAN

VARIABLES
    (* VAContext, va.h *)
    mutex,        \* the thread that holds it, or "free"
    avctx,        \* NULL, or the size the codec context reports
    frame,        \* number of the picture in context->frame
    frameSize,    \* ... and its size
    clientRect,
    needDraw,
    playing,
    (* the static "state" of va.c and SDL's heap *)
    overlay,      \* NULL or a member of OverlayIds
    last_screen,  \* NULL or the id of a surface
    yuv,          \* what is allocated at each overlay address
    real_screen,  \* sdl.c
    mode,         \* the guest's resolution
    (* threads *)
    chhPc, chhRect,
    decPc, decCid, decFresh,
    mainPc, windoww, placed, success,
    proc,         \* "up", or how the process ended
    reads,        \* messages of the guest read so far
    shown         \* history: number of the last picture displayed

context == <<avctx, frame, frameSize, clientRect, needDraw, playing>>
display == <<overlay, last_screen, yuv, real_screen, mode, shown>>
chh     == <<chhPc, chhRect>>
dec     == <<decPc, decCid, decFresh>>
locals  == <<windoww, placed, success>>
main    == <<mainPc, locals>>
host    == <<proc, reads>>
vars    == <<mutex, context, display, chh, dec, main, host>>

Freed       == [w |-> -1, h |-> -1, screen |-> NULL, picture |-> 0]
Unsized     == [w |-> 0, h |-> 0]
ZeroRect    == [l |-> 0, t |-> 0, w |-> 0, h |-> 0]
DefaultRect == [l |-> 0, t |-> 0, w |-> 1024, h |-> 768]

(***************************************************************************)
(* Before va_init: a zeroed context, no overlay, a window on the screen.   *)
(***************************************************************************)
Init ==
    /\ mutex = "free"
    /\ avctx = NULL
    /\ frame = 0
    /\ frameSize = Unsized
    /\ clientRect = ZeroRect
    /\ needDraw = FALSE
    /\ playing = FALSE
    /\ overlay = NULL
    /\ last_screen = NULL
    /\ yuv = [o \in OverlayIds |-> Freed]
    /\ real_screen \in Surfaces
    /\ mode \in Modes
    /\ chhPc = "off" /\ chhRect = ZeroRect
    /\ decPc = "off" /\ decCid = 0 /\ decFresh = FALSE
    /\ mainPc = "boot" /\ windoww = 0 /\ placed = ZeroRect /\ success = FALSE
    /\ proc = "up" /\ reads = 0 /\ shown = 0

(* A thread is at this point of its code; no thread runs once the process  *)
(* has ended.                                                              *)
ChhAt(pc)  == proc = "up" /\ chhPc = pc
DecAt(pc)  == proc = "up" /\ decPc = pc
MainAt(pc) == proc = "up" /\ mainPc = pc

(* va_init, called by QEMU's main just before main_loop.                   *)
va_init ==
    /\ MainAt("boot")
    /\ mainPc' = "idle"
    /\ chhPc' = "rectW"
    /\ decPc' = "accept"
    /\ UNCHANGED <<mutex, context, display, chhRect, decCid, decFresh, locals,
                   host>>

SDL_LockMutex(t) == mutex = "free" /\ mutex' = t
SDL_UnlockMutex  == mutex' = "free"

Receive == reads < MaxReads /\ reads' = reads + 1

(* The process ends in this way, whatever the other threads are doing.     *)
Die(how) ==
    /\ proc' = how
    /\ UNCHANGED <<mutex, context, display, chh, dec, main, reads>>

(***************************************************************************)
(* changeHandler_thread                                                    *)
(***************************************************************************)
ChhGoto(pc) == chhPc' = pc

(* The default rectangle is written without the mutex.  Its left and top   *)
(* are the zeroes already there.                                           *)
ChhDefaultWidth ==
    /\ ChhAt("rectW")
    /\ clientRect' = [l |-> 0, t |-> 0, w |-> DefaultRect.w, h |-> clientRect.h]
    /\ ChhGoto("rectH")
    /\ UNCHANGED <<mutex, avctx, frame, frameSize, needDraw, playing, display,
                   chhRect, dec, main, host>>

ChhDefaultHeight ==
    /\ ChhAt("rectH")
    /\ clientRect' = [clientRect EXCEPT !.h = DefaultRect.h]
    /\ ChhGoto("accept")
    /\ UNCHANGED <<mutex, avctx, frame, frameSize, needDraw, playing, display,
                   chhRect, dec, main, host>>

ChhAccept ==
    /\ ChhAt("accept")
    /\ ChhGoto("read")
    /\ UNCHANGED <<mutex, context, display, chhRect, dec, main, host>>

(* A header 7 with four integers; any other header is skipped, which       *)
(* changes nothing.                                                        *)
ChhRead(r) ==
    /\ ChhAt("read")
    /\ Receive
    /\ chhRect' = r
    /\ ChhGoto("lock")
    /\ UNCHANGED <<mutex, context, display, dec, main, proc>>

(* The connection fails, or the message is too short for MessageReader:    *)
(* the exception closes the connection and nothing was stored.             *)
ChhFail ==
    /\ ChhAt("read")
    /\ ChhGoto("accept")
    /\ UNCHANGED <<mutex, context, display, chhRect, dec, main, host>>

ChhLock ==
    /\ ChhAt("lock")
    /\ SDL_LockMutex("chh")
    /\ ChhGoto("store")
    /\ UNCHANGED <<context, display, chhRect, dec, main, host>>

ChhStore ==
    /\ ChhAt("store")
    /\ clientRect' = chhRect
    /\ SDL_UnlockMutex
    /\ ChhGoto("read")
    /\ UNCHANGED <<avctx, frame, frameSize, needDraw, playing, display,
                   chhRect, dec, main, host>>

(***************************************************************************)
(* decode_thread                                                           *)
(***************************************************************************)
DecGoto(pc) == decPc' = pc

DecAccept ==
    /\ DecAt("accept")
    /\ decFresh' = TRUE
    /\ DecGoto("read")
    /\ UNCHANGED <<mutex, context, display, chh, decCid, main, host>>

(* The next message of the session.  Headers other than 1 and 4 are        *)
(* skipped, which changes nothing.                                         *)
DecRead(pc) ==
    /\ DecAt("read")
    /\ Receive
    /\ decFresh' = FALSE
    /\ DecGoto(pc)
    /\ UNCHANGED <<mutex, context, display, chh, main, proc>>

(* Header 1: the codec to use.                                             *)
DecReadInit(c) ==
    /\ GuestDisciplined => decFresh
    /\ decCid' = c
    /\ DecRead("lockInit")

(* Header 4: a packet of the stream.                                       *)
DecReadPacket ==
    /\ GuestDisciplined => ~decFresh
    /\ UNCHANGED decCid
    /\ DecRead("lockPacket")

(* acceptConnection or readMessage throws: unwinding closes the            *)
(* connection, then the handler clears "playing" without the mutex.        *)
DecFail ==
    /\ DecAt("accept") \/ DecAt("read")
    /\ DecGoto("catch")
    /\ UNCHANGED <<mutex, context, display, chh, decCid, decFresh, main, host>>

(* Variant: the handler forgets that the session is over.                  *)
DecCatchKeepsPlaying ==
    /\ DecAt("catch")
    /\ DecGoto("accept")
    /\ UNCHANGED <<mutex, avctx, frame, frameSize, clientRect, needDraw,
                   playing, display, chh, decCid, decFresh, main, host>>

DecCatch ==
    /\ DecAt("catch")
    /\ playing' = FALSE
    /\ DecGoto("accept")
    /\ UNCHANGED <<mutex, avctx, frame, frameSize, clientRect, needDraw,
                   display, chh, decCid, decFresh, main, host>>

DecLock ==
    /\ \/ DecAt("lockInit")   /\ DecGoto("codec_init")
       \/ DecAt("lockPacket") /\ DecGoto("decode")
    /\ SDL_LockMutex("dec")
    /\ UNCHANGED <<context, display, chh, decCid, decFresh, main, host>>

H264      == 5
MPEG2     == 7
MPEG4     == 8
Supported == {H264, MPEG2, MPEG4}

(* Variant: the new context is not stored.                                 *)
OpenedSizesLost(c) == IF c = H264 THEN VideoSizes ELSE {NULL}

(* The codec context codec_init leaves behind: H.264 borrows one from a    *)
(* file, which has a size; the others know theirs once they have decoded.  *)
OpenedSizes(c) == IF c = H264 THEN VideoSizes ELSE {Unsized}

codec_init ==
    /\ DecAt("codec_init")
    /\ decCid \in Supported
    /\ avctx' \in OpenedSizes(decCid)
    /\ SDL_UnlockMutex
    /\ DecGoto("read")
    /\ UNCHANGED <<frame, frameSize, clientRect, needDraw, playing, display,
                   chh, decCid, decFresh, main, host>>

(* "throw cid" throws an enumerator.  The thread catches std::exception    *)
(* only, so an unsupported codec, or one libavcodec cannot find or open,   *)
(* ends the process; h264init calls exit.                                  *)
codec_init_fails ==
    /\ DecAt("codec_init")
    /\ \/ Die("terminate")
       \/ decCid = H264 /\ Die("exit")

(* avcodec_decode_video2 returned a picture.                               *)
DecodeGot ==
    /\ DecAt("decode")
    /\ avctx # NULL
    /\ avctx' \in VideoSizes
    /\ frameSize' \in VideoSizes
    /\ SizeStable => frameSize' = avctx'
    /\ frame' = frame + 1
    /\ playing' = TRUE
    /\ needDraw' = TRUE
    /\ SDL_UnlockMutex
    /\ DecGoto("read")
    /\ UNCHANGED <<clientRect, display, chh, decCid, decFresh, main, host>>

(* It returned an error or no picture; it may have parsed a new size.      *)
DecodeNothing ==
    /\ DecAt("decode")
    /\ avctx # NULL
    /\ \/ UNCHANGED avctx
       \/ ~(SizeStable /\ playing) /\ avctx' \in VideoSizes
    /\ SDL_UnlockMutex
    /\ DecGoto("read")
    /\ UNCHANGED <<frame, frameSize, clientRect, needDraw, playing, display,
                   chh, decCid, decFresh, main, host>>

(* A packet before any header 1: libavcodec is called without a context.   *)
DecodeNoContext ==
    /\ DecAt("decode")
    /\ avctx = NULL
    /\ Die("segv")

(***************************************************************************)
(* The main thread.  Between two drawings it runs the rest of QEMU; every  *)
(* path below reaches va_do_drawing through vga_hw_update.                 *)
(***************************************************************************)
MainGoto(pc) == mainPc' = pc

(* The GUI timer, in a graphic mode of 16, 24 or 32 bits per pixel.        *)
Refresh ==
    /\ MainAt("idle")
    /\ MainGoto("lock")
    /\ UNCHANGED <<mutex, context, display, chh, dec, locals, host>>

(* The user resizes the window, toggles full screen or undoes the scaling. *)
Resize(s) ==
    /\ MainAt("idle")
    /\ real_screen' = s
    /\ MainGoto("lock")
    /\ UNCHANGED <<mutex, context, overlay, last_screen, yuv, mode, shown, chh,
                   dec, locals, host>>

(* The guest changes its resolution; unless the window is being scaled,    *)
(* SDL gets a new surface.                                                 *)
ModeSet(m, s) ==
    /\ MainAt("idle")
    /\ mode' = m
    /\ real_screen' = s
    /\ MainGoto("lock")
    /\ UNCHANGED <<mutex, context, overlay, last_screen, yuv, shown, chh, dec,
                   locals, host>>

(* SDL_SetVideoMode fails: do_sdl_resize calls exit.                       *)
ResizeFails == MainAt("idle") /\ Die("exit")

(***************************************************************************)
(* va_do_drawing_locked.  The overlay belongs to the main thread alone, so *)
(* what is done to it is part of the step that decides to do it.           *)
(***************************************************************************)
DrawLock ==
    /\ MainAt("lock")
    /\ SDL_LockMutex("main")
    /\ MainGoto("check")
    /\ UNCHANGED <<context, display, chh, dec, locals, host>>

(* Variant: the overlay is not freed when playing stops.                   *)
DrawNotPlayingReturns ==
    /\ MainAt("check")
    /\ ~playing
    /\ SDL_UnlockMutex
    /\ MainGoto("idle")
    /\ UNCHANGED <<context, display, chh, dec, locals, host>>

(* Not playing: unlock, then free the overlay.                             *)
DrawNotPlaying ==
    /\ MainAt("check")
    /\ ~playing
    /\ SDL_UnlockMutex
    /\ MainGoto("free")
    /\ UNCHANGED <<context, display, chh, dec, locals, host>>

DrawNothingNew ==
    /\ MainAt("check")
    /\ playing /\ ~needDraw
    /\ SDL_UnlockMutex
    /\ MainGoto("idle")
    /\ UNCHANGED <<context, display, chh, dec, locals, host>>

(* calcScale reads the width, and later the rest of the rectangle:         *)
(* changeHandler_thread's first writes may come in between.                *)
DrawReadWidth ==
    /\ MainAt("check")
    /\ playing /\ needDraw
    /\ windoww' = clientRect.w
    /\ MainGoto("calcScale")
    /\ UNCHANGED <<mutex, context, display, chh, dec, placed, success, host>>

RectRead == [clientRect EXCEPT !.w = windoww]

DivisorZero ==
    FitDivisor(avctx, Clamp(RectRead.w), Clamp(RectRead.h)) = 0

DrawCalcScale ==
    /\ MainAt("calcScale")
    /\ ~DivisorZero
    /\ placed' = calcScale(avctx, RectRead, real_screen, mode)
    /\ MainGoto("overlay")
    /\ UNCHANGED <<mutex, context, display, chh, dec, windoww, success, host>>

DrawDivideByZero == MainAt("calcScale") /\ DivisorZero /\ Die("fpe")

(* Variant: a new surface is not noticed.                                  *)
OverlayFitsAnySurface ==
    /\ overlay # NULL
    /\ yuv[overlay].w = placed.w /\ yuv[overlay].h = placed.h

(* The overlay at hand has the right size and surface.                     *)
OverlayFits ==
    /\ overlay # NULL
    /\ yuv[overlay].w = placed.w /\ yuv[overlay].h = placed.h
    /\ last_screen = real_screen.id

TooSmall == placed.w < CDiv(avctx.w, 20) \/ placed.h < CDiv(avctx.h, 20)

(* Variant: the old overlay is not freed.                                  *)
FreedYuvLeaks == yuv

FreedYuv == IF overlay = NULL THEN yuv ELSE [yuv EXCEPT ![overlay] = Freed]

DrawKeepOverlay ==
    /\ MainAt("overlay")
    /\ OverlayFits
    /\ MainGoto("convert")
    /\ UNCHANGED <<mutex, context, display, chh, dec, locals, host>>

(* The old overlay is freed and no new one is made: the picture would be   *)
(* too small, or SDL_CreateYUVOverlay fails.                               *)
DrawNoOverlay ==
    /\ MainAt("overlay")
    /\ ~OverlayFits
    /\ TooSmall \/ OverlayMayFail
    /\ yuv' = FreedYuv
    /\ overlay' = NULL
    /\ SDL_UnlockMutex
    /\ MainGoto("idle")
    /\ UNCHANGED <<context, last_screen, real_screen, mode, shown, chh, dec,
                   locals, host>>

(* The address of the new overlay is any that is free, the old one's too.  *)
DrawNewOverlay(o) ==
    /\ MainAt("overlay")
    /\ ~OverlayFits
    /\ ~TooSmall
    /\ FreedYuv[o] = Freed
    /\ yuv' = [FreedYuv EXCEPT ![o] = [w |-> placed.w, h |-> placed.h,
                                       screen |-> real_screen.id, picture |-> 0]]
    /\ overlay' = o
    /\ last_screen' = real_screen.id
    /\ MainGoto("convert")
    /\ UNCHANGED <<mutex, context, real_screen, mode, shown, chh, dec, locals,
                   host>>

(* The overlay gets the picture in its size, unless sws_scale fails.       *)
convert(ok) == IF ok THEN [yuv EXCEPT ![overlay].picture = frame] ELSE yuv

(* Variant: the frame is not marked as drawn.                              *)
DrawConvertAgain ==
    /\ MainAt("convert")
    /\ success' \in {TRUE, ~OverlayMayFail}
    /\ yuv' = convert(success')
    /\ UNCHANGED needDraw
    /\ SDL_UnlockMutex
    /\ MainGoto("display")
    /\ UNCHANGED <<avctx, frame, frameSize, clientRect, playing, overlay,
                   last_screen, real_screen, mode, shown, chh, dec, windoww,
                   placed, host>>

(* convert, mark the frame as drawn, unlock.                               *)
DrawConvert ==
    /\ MainAt("convert")
    /\ success' \in {TRUE, ~OverlayMayFail}
    /\ yuv' = convert(success')
    /\ needDraw' = FALSE
    /\ SDL_UnlockMutex
    /\ MainGoto("display")
    /\ UNCHANGED <<avctx, frame, frameSize, clientRect, playing, overlay,
                   last_screen, real_screen, mode, shown, chh, dec, windoww,
                   placed, host>>

(* SDL_DisplayYUVOverlay, outside the mutex.                               *)
DrawDisplay ==
    /\ MainAt("display")
    /\ shown' = IF success THEN yuv[overlay].picture ELSE shown
    /\ MainGoto("idle")
    /\ UNCHANGED <<mutex, context, overlay, last_screen, yuv, real_screen,
                   mode, chh, dec, locals, host>>

DrawFree ==
    /\ MainAt("free")
    /\ yuv' = FreedYuv
    /\ overlay' = NULL
    /\ MainGoto("idle")
    /\ UNCHANGED <<mutex, context, last_screen, real_screen, mode, shown, chh,
                   dec, locals, host>>

(***************************************************************************)
(* The process                                                             *)
(***************************************************************************)
ChhNext ==
    \/ ChhDefaultWidth \/ ChhDefaultHeight
    \/ ChhAccept \/ ChhFail \/ ChhLock \/ ChhStore
    \/ \E r \in GuestRects : ChhRead(r)

DecNext ==
    \/ DecAccept \/ DecReadPacket \/ DecFail \/ DecCatch \/ DecLock
    \/ \E c \in CodecIds : DecReadInit(c)
    \/ codec_init \/ codec_init_fails
    \/ DecodeGot \/ DecodeNothing \/ DecodeNoContext

MainIdleNext ==
    \/ va_init \/ Refresh \/ ResizeFails
    \/ \E s \in Surfaces : Resize(s)
    \/ \E m \in Modes, s \in Surfaces : ModeSet(m, s)

DrawNext ==
    \/ DrawLock \/ DrawNotPlaying \/ DrawNothingNew \/ DrawReadWidth
    \/ DrawCalcScale \/ DrawDivideByZero
    \/ DrawKeepOverlay \/ DrawNoOverlay
    \/ \E o \in OverlayIds : DrawNewOverlay(o)
    \/ DrawConvert \/ DrawDisplay \/ DrawFree

(* The process has ended and stays so.                                     *)
Ended == proc # "up" /\ UNCHANGED vars

Next == ChhNext \/ DecNext \/ MainIdleNext \/ DrawNext \/ Ended

Spec == Init /\ [][Next]_vars

(***************************************************************************)
(* Fairness.  A thread that can take a step of its own eventually does:    *)
(* the kernel schedules it, libavcodec and SDL return, the GUI timer is    *)
(* re-armed by every gui_update.  Nothing is assumed of the guest or the   *)
(* user (Accept, Read, Fail, Resize, ModeSet), and since the guest sends   *)
(* at most MaxReads messages a waiting thread is not starved of the mutex. *)
(***************************************************************************)
ChhOwn == ChhDefaultWidth \/ ChhDefaultHeight \/ ChhLock \/ ChhStore
DecOwn == \/ DecCatch \/ DecLock
          \/ codec_init \/ codec_init_fails
          \/ DecodeGot \/ DecodeNothing \/ DecodeNoContext

Fairness ==
    /\ WF_vars(ChhOwn)
    /\ WF_vars(DecOwn)
    /\ WF_vars(Refresh)
    /\ WF_vars(DrawNext)

FairSpec == Spec /\ Fairness

-----------------------------------------------------------------------------
(***************************************************************************)
(* Properties                                                              *)
(***************************************************************************)
ChhPcs    == {"off", "rectW", "rectH", "accept", "read", "lock", "store"}
DecLocked == {"codec_init", "decode"}
DecPcs    == {"off", "accept", "read", "catch", "lockInit", "lockPacket"} \cup DecLocked
Drawing   == {"calcScale", "overlay", "convert"}
MainPcs   == {"boot", "idle", "lock", "check", "display", "free"} \cup Drawing
SurfaceIds == {s.id : s \in Surfaces}
Overlays  == [w : Int, h : Int, screen : SurfaceIds, picture : Nat]

(* Type invariant: the values every variable of the model can have.        *)
TypeOK ==
    /\ mutex \in {"free", "chh", "dec", "main"}
    /\ avctx \in VideoSizes \cup {NULL, Unsized}
    /\ frame \in Nat /\ shown \in Nat
    /\ frameSize \in VideoSizes \cup {Unsized}
    /\ clientRect \in Rect /\ chhRect \in Rect /\ placed \in Rect
    /\ needDraw \in BOOLEAN /\ playing \in BOOLEAN
    /\ decFresh \in BOOLEAN /\ success \in BOOLEAN
    /\ overlay \in OverlayIds \cup {NULL}
    /\ last_screen \in SurfaceIds \cup {NULL}
    /\ yuv \in [OverlayIds -> Overlays \cup {Freed}]
    /\ real_screen \in Surfaces /\ mode \in Modes
    /\ chhPc \in ChhPcs /\ decPc \in DecPcs /\ mainPc \in MainPcs
    /\ decCid \in CodecIds \cup {0}
    /\ reads \in Nat /\ windoww \in Int
    /\ proc \in {"up", "terminate", "exit", "segv", "fpe"}

(* The mutex is held by exactly the thread that is between its             *)
(* SDL_LockMutex and its SDL_UnlockMutex: every early return of            *)
(* va_do_drawing_locked and every "continue" of decode_thread gives it     *)
(* back, so the codec context and the frame are never replaced or decoded  *)
(* into while they are being drawn.                                        *)
LockDiscipline ==
    /\ mutex = "chh"  <=> chhPc = "store"
    /\ mutex = "dec"  <=> decPc \in DecLocked
    /\ mutex = "main" <=> mainPc \in Drawing \cup {"check"}

(* state.overlay owns the only overlay SDL has allocated: none leaks when  *)
(* a window is resized, shrinks to nothing or playing stops, and the       *)
(* pointer never dangles.                                                  *)
OverlayOwned ==
    \A o \in OverlayIds : yuv[o] # Freed <=> o = overlay

(* What SDL_DisplayYUVOverlay is given, after the mutex was released, is   *)
(* an overlay of the size calcScale computed, made for the surface that    *)
(* is on the screen now.                                                   *)
DisplayedFits ==
    mainPc = "display" =>
        /\ overlay # NULL
        /\ yuv[overlay].w = placed.w /\ yuv[overlay].h = placed.h
        /\ yuv[overlay].screen = real_screen.id

(* A picture is displayed at most once, and never after a later one:       *)
(* needDraw is the hand-over between decode_thread and the main thread.    *)
DisplayedIsNew ==
    mainPc = "display" /\ success => yuv[overlay].picture > shown

(* No overlay without pixels is made, although calcScale may see a client  *)
(* rectangle of which changeHandler_thread has written only a part, or one *)
(* the guest sent with no area.                                            *)
OverlayHasArea ==
    overlay # NULL => yuv[overlay].w > 0 /\ yuv[overlay].h > 0

(* While the main thread draws, the codec context has a size and it is the *)
(* size of the picture in context->frame, also across the end of a session *)
(* and the codec_init of the next one.                                     *)
PictureReady ==
    mainPc \in Drawing => avctx \in VideoSizes /\ avctx = frameSize

(* With a guest that keeps to the protocol the process is not ended by a   *)
(* missing codec context or by a division by zero.                         *)
NoFault == proc \notin {"segv", "fpe"}

(* When playing stops the overlay is taken off the screen.                 *)
OverlayReleased ==
    ~playing ~> (overlay = NULL \/ playing \/ proc # "up")

(* A decoded picture is drawn unless playing stops: no thread keeps the    *)
(* mutex and no hand-over is lost.                                         *)
PictureDrawn ==
    (playing /\ needDraw) ~> (~needDraw \/ ~playing \/ proc # "up")

=============================================================================
