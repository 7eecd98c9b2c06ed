-------------------------- MODULE VaPlaybackProofs --------------------------
(***************************************************************************)
(* Theorems about VaPlayback for any number of surfaces, modes, picture    *)
(* sizes, rectangles, codecs, overlay addresses and messages.              *)
(***************************************************************************)
EXTENDS VaPlayback, TLAPS

(* The overlay remembers the surface it was made for in last_screen, and   *)
(* from DrawKeepOverlay or DrawNewOverlay until it is displayed it is the  *)
(* one calcScale asked for.                                                *)
OverlayInv ==
    /\ overlay # NULL => yuv[overlay].screen = last_screen
    /\ mainPc \in {"convert", "display"} => OverlayFits

(* needDraw announces a picture later than the one shown; it stays set     *)
(* while that picture is being drawn, and once the picture is in the       *)
(* overlay needDraw can only announce a later one.                         *)
HandoverInv ==
    /\ shown <= frame
    /\ needDraw => shown < frame
    /\ mainPc \in Drawing => needDraw
    /\ mainPc = "display" /\ success =>
         /\ shown < yuv[overlay].picture
         /\ yuv[overlay].picture <= frame
         /\ needDraw => yuv[overlay].picture < frame

(* Once a picture has been decoded there is a codec context; past          *)
(* calcScale, which has divided by its size, it has a size.                *)
ContextInv ==
    /\ playing \/ needDraw => avctx # NULL
    /\ mainPc \in {"overlay", "convert"} => avctx \in VideoSizes

(* va_init starts the other two threads.                                   *)
BootInv == mainPc = "boot" => chhPc = "off" /\ decPc = "off"

IInv ==
    /\ TypeOK /\ LockDiscipline /\ OverlayOwned
    /\ OverlayInv /\ HandoverInv /\ ContextInv /\ BootInv

(* What holds in addition when the guest opens each session with its only  *)
(* header 1: playing starts after it, with a picture of the context's      *)
(* size, and ends before the next one.                                     *)
SessionInv ==
    /\ decPc \in {"off", "accept", "lockInit", "codec_init"} => ~playing
    /\ decPc = "read" => (IF decFresh THEN ~playing ELSE avctx # NULL)
    /\ decPc \in {"lockPacket", "decode"} => ~decFresh /\ avctx # NULL
    /\ playing => avctx \in VideoSizes /\ avctx = frameSize

DisciplinedInv == SessionInv /\ PictureReady /\ NoFault

(* With pictures of at least 20 by 20 pixels, the test against a twentieth *)
(* of the picture's size refuses an overlay without pixels.                *)
PicturesAtLeast20 == \A v \in VideoSizes : v.w >= 20 /\ v.h >= 20

-----------------------------------------------------------------------------
(* C's division yields an integer.                                         *)
LEMMA CDivType ==
    ASSUME NEW a \in Int, NEW b \in Positive
    PROVE  CDiv(a, b) \in Int
BY DEF CDiv, Positive

(* calcScale's bounds on the window leave a natural number.                *)
LEMMA ClampType ==
    ASSUME NEW n \in Int
    PROVE  Clamp(n) \in Nat
BY DEF Clamp, MaxWindow

(* For a picture with a size, calcScale computes a rectangle.              *)
LEMMA CalcScaleType ==
    ASSUME NEW v \in Size, NEW r \in Rect, NEW s, s.w \in Positive, s.h \in Positive,
           NEW m \in Size
    PROVE  calcScale(v, r, s, m) \in Rect
<1>1. /\ v.w \in Positive /\ v.h \in Positive
      /\ m.w \in Positive /\ m.h \in Positive
      /\ r.l \in Int /\ r.t \in Int /\ r.w \in Int /\ r.h \in Int
  BY DEF Size, Rect
<1> DEFINE ww == Clamp(r.w)
           wh == Clamp(r.h)
           f  == Fit(v, ww, wh)
           p  == Placed(v, r)
<1>2. ww \in Nat /\ wh \in Nat
  BY <1>1, ClampType
<1>3. f.w \in Int /\ f.h \in Int
  <2>1. v.w * wh \in Int /\ v.h * ww \in Int
    BY <1>1, <1>2 DEF Positive
  <2>2. CDiv(v.w * wh, v.h) \in Int /\ CDiv(v.h * ww, v.w) \in Int
    BY <1>1, <2>1, CDivType
  <2> QED
    BY <1>2, <2>2 DEF Fit
<1>4. p \in Rect
  <2>1. CDiv(ww - f.w, 2) \in Int /\ CDiv(wh - f.h, 2) \in Int
    BY <1>2, <1>3, CDivType DEF Positive
  <2> QED
    BY <1>1, <1>3, <2>1 DEF Placed, Rect
<1>5. /\ p.l * s.w \in Int /\ p.w * s.w \in Int
      /\ p.t * s.h \in Int /\ p.h * s.h \in Int
  BY <1>4 DEF Rect, Positive
<1> QED
  BY <1>1, <1>5, CDivType DEF calcScale, ToScreen, Rect

(* The null pointer is no codec context.                                   *)
LEMMA ContextNotNull == NULL # Unsized /\ NULL \notin VideoSizes
BY SizesAssumption, NULLAssumption DEF Size, Positive, Unsized

(* The state before va_init satisfies the invariant.                       *)
LEMMA InitIInv == Init => IInv
<1> SUFFICES ASSUME Init PROVE IInv
  OBVIOUS
<1> USE SurfacesAssumption, SizesAssumption, GuestAssumption, NULLAssumption DEF Init
<1>1. TypeOK
  <2>1. /\ needDraw \in BOOLEAN /\ playing \in BOOLEAN
        /\ decFresh \in BOOLEAN /\ success \in BOOLEAN
    BY Zenon
  <2>2. clientRect \in Rect /\ chhRect \in Rect /\ placed \in Rect
    BY DEF Rect, ZeroRect
  <2>3. /\ chhPc \in ChhPcs /\ decPc \in DecPcs /\ mainPc \in MainPcs
        /\ mutex \in {"free", "chh", "dec", "main"}
        /\ proc \in {"up", "terminate", "exit", "segv", "fpe"}
    BY DEF ChhPcs, DecPcs, MainPcs
  <2> QED
    BY <2>1, <2>2, <2>3 DEF TypeOK
<1>2. LockDiscipline
  BY DEF LockDiscipline, DecLocked, Drawing
<1>3. OverlayOwned
  BY DEF OverlayOwned
<1>4. OverlayInv /\ HandoverInv /\ ContextInv /\ BootInv
  BY DEF OverlayInv, HandoverInv, ContextInv, BootInv, Drawing
<1> QED
  BY <1>1, <1>2, <1>3, <1>4 DEF IInv

(* Steps of changeHandler_thread preserve the invariant.                   *)
LEMMA ChhIInv == IInv /\ ChhNext => IInv'
<1> SUFFICES ASSUME IInv, ChhNext PROVE IInv'
  OBVIOUS
<1> USE SurfacesAssumption, SizesAssumption, GuestAssumption, NULLAssumption
    DEF context, display, chh, dec, locals, main, host, Drawing, DecLocked,
        ChhAt, DecAt, MainAt, ChhGoto, DecGoto, MainGoto, SDL_LockMutex,
        SDL_UnlockMutex, Die, Receive
<1>1. CASE ChhDefaultWidth
  <2>1. TypeOK'
    <3>1. clientRect' \in Rect
      BY <1>1
      DEF ChhDefaultWidth, Rect, DefaultRect, IInv, TypeOK, ChhPcs, DecPcs, MainPcs
    <3> QED
      BY <1>1, <3>1 DEF ChhDefaultWidth, IInv, TypeOK, ChhPcs, DecPcs, MainPcs
  <2>2. LockDiscipline'
    BY <1>1 DEF ChhDefaultWidth, IInv, LockDiscipline
  <2>3. OverlayOwned'
    BY <1>1
    DEF ChhDefaultWidth, OverlayFits, Overlays, Freed, IInv, TypeOK, OverlayOwned,
        OverlayInv
  <2>4. OverlayInv'
    BY <1>1
    DEF ChhDefaultWidth, OverlayFits, Overlays, Freed, IInv, TypeOK, OverlayOwned,
        OverlayInv
  <2>5. HandoverInv'
    BY <1>1
    DEF ChhDefaultWidth, OverlayFits, IInv, TypeOK, OverlayOwned, OverlayInv,
        HandoverInv
  <2>6. ContextInv'
    BY <1>1 DEF ChhDefaultWidth, IInv, TypeOK, ContextInv
  <2>7. BootInv'
    BY <1>1 DEF ChhDefaultWidth, IInv, BootInv
  <2> QED
    BY <2>1, <2>2, <2>3, <2>4, <2>5, <2>6, <2>7 DEF IInv
<1>2. CASE ChhDefaultHeight
  <2>1. TypeOK'
    <3>1. clientRect' \in Rect
      BY <1>2
      DEF ChhDefaultHeight, Rect, DefaultRect, IInv, TypeOK, ChhPcs, DecPcs, MainPcs
    <3> QED
      BY <1>2, <3>1 DEF ChhDefaultHeight, IInv, TypeOK, ChhPcs, DecPcs, MainPcs
  <2>2. LockDiscipline'
    BY <1>2 DEF ChhDefaultHeight, IInv, LockDiscipline
  <2>3. OverlayOwned'
    BY <1>2
    DEF ChhDefaultHeight, OverlayFits, Overlays, Freed, IInv, TypeOK, OverlayOwned,
        OverlayInv
  <2>4. OverlayInv'
    BY <1>2
    DEF ChhDefaultHeight, OverlayFits, Overlays, Freed, IInv, TypeOK, OverlayOwned,
        OverlayInv
  <2>5. HandoverInv'
    BY <1>2
    DEF ChhDefaultHeight, OverlayFits, IInv, TypeOK, OverlayOwned, OverlayInv,
        HandoverInv
  <2>6. ContextInv'
    BY <1>2 DEF ChhDefaultHeight, IInv, TypeOK, ContextInv
  <2>7. BootInv'
    BY <1>2 DEF ChhDefaultHeight, IInv, BootInv
  <2> QED
    BY <2>1, <2>2, <2>3, <2>4, <2>5, <2>6, <2>7 DEF IInv
<1>3. CASE ChhAccept
  BY <1>3
  DEF ChhAccept, OverlayFits, IInv, TypeOK, LockDiscipline, OverlayOwned,
      OverlayInv, HandoverInv, ContextInv, BootInv, ChhPcs, DecPcs, MainPcs
<1>4. CASE ChhFail
  BY <1>4
  DEF ChhFail, OverlayFits, IInv, TypeOK, LockDiscipline, OverlayOwned, OverlayInv,
      HandoverInv, ContextInv, BootInv, ChhPcs, DecPcs, MainPcs
<1>5. CASE ChhLock
  BY <1>5
  DEF ChhLock, OverlayFits, IInv, TypeOK, LockDiscipline, OverlayOwned, OverlayInv,
      HandoverInv, ContextInv, BootInv, ChhPcs, DecPcs, MainPcs
<1>6. CASE ChhStore
  BY <1>6
  DEF ChhStore, OverlayFits, IInv, TypeOK, LockDiscipline, OverlayOwned, OverlayInv,
      HandoverInv, ContextInv, BootInv, ChhPcs, DecPcs, MainPcs
<1>7. ASSUME NEW r \in GuestRects, ChhRead(r) PROVE IInv'
  BY <1>7
  DEF ChhRead, OverlayFits, IInv, TypeOK, LockDiscipline, OverlayOwned, OverlayInv,
      HandoverInv, ContextInv, BootInv, ChhPcs, DecPcs, MainPcs
<1> QED
  BY <1>1, <1>2, <1>3, <1>4, <1>5, <1>6, <1>7 DEF ChhNext

(* Steps of decode_thread preserve the invariant.                          *)
LEMMA DecIInv == IInv /\ DecNext => IInv'
<1> SUFFICES ASSUME IInv, DecNext PROVE IInv'
  OBVIOUS
<1> USE SurfacesAssumption, SizesAssumption, GuestAssumption, NULLAssumption
    DEF context, display, chh, dec, locals, main, host, Drawing, DecLocked,
        ChhAt, DecAt, MainAt, ChhGoto, DecGoto, MainGoto, SDL_LockMutex,
        SDL_UnlockMutex, Die, Receive
<1>1. CASE DecAccept
  BY <1>1
  DEF DecAccept, OverlayFits, IInv, TypeOK, LockDiscipline, OverlayOwned,
      OverlayInv, HandoverInv, ContextInv, BootInv, ChhPcs, DecPcs, MainPcs
<1>2. CASE DecReadPacket
  <2>1. TypeOK'
    <3>1. decFresh' \in BOOLEAN
      BY <1>2, Zenon DEF DecReadPacket, DecRead
    <3>2. /\ decPc' \in DecPcs
          /\ decCid' \in CodecIds \cup {0}
          /\ reads' \in Nat
      BY <1>2 DEF DecReadPacket, DecRead, IInv, TypeOK, ChhPcs, DecPcs, MainPcs
    <3>3. UNCHANGED <<mutex, context, display, chh, main, proc>>
      BY <1>2, Zenon DEF DecReadPacket, DecRead
    <3> QED
      BY <3>1, <3>2, <3>3 DEF IInv, TypeOK, ChhPcs, DecPcs, MainPcs
  <2>2. LockDiscipline'
    BY <1>2 DEF DecReadPacket, DecRead, IInv, LockDiscipline
  <2>3. OverlayOwned'
    BY <1>2
    DEF DecReadPacket, DecRead, OverlayFits, Overlays, Freed, IInv, TypeOK,
        OverlayOwned, OverlayInv
  <2>4. OverlayInv'
    BY <1>2
    DEF DecReadPacket, DecRead, OverlayFits, Overlays, Freed, IInv, TypeOK,
        OverlayOwned, OverlayInv
  <2>5. HandoverInv'
    BY <1>2
    DEF DecReadPacket, DecRead, OverlayFits, IInv, TypeOK, OverlayOwned, OverlayInv,
        HandoverInv
  <2>6. ContextInv'
    BY <1>2 DEF DecReadPacket, DecRead, IInv, TypeOK, ContextInv
  <2>7. BootInv'
    BY <1>2 DEF DecReadPacket, DecRead, IInv, BootInv
  <2> QED
    BY <2>1, <2>2, <2>3, <2>4, <2>5, <2>6, <2>7 DEF IInv
<1>3. CASE DecFail
  BY <1>3
  DEF DecFail, OverlayFits, IInv, TypeOK, LockDiscipline, OverlayOwned, OverlayInv,
      HandoverInv, ContextInv, BootInv, ChhPcs, DecPcs, MainPcs
<1>4. CASE DecCatch
  <2>1. TypeOK'
    <3>1. playing' \in BOOLEAN
      BY <1>4, Zenon DEF DecCatch
    <3>2. decPc' \in DecPcs
      BY <1>4 DEF DecCatch, IInv, TypeOK, ChhPcs, DecPcs, MainPcs
    <3>3. UNCHANGED <<mutex, avctx, frame, frameSize, clientRect, needDraw,
                      display, chh, decCid, decFresh, main, host>>
      BY <1>4, Zenon DEF DecCatch
    <3> QED
      BY <3>1, <3>2, <3>3 DEF IInv, TypeOK, ChhPcs, DecPcs, MainPcs
  <2>2. LockDiscipline'
    BY <1>4 DEF DecCatch, IInv, LockDiscipline
  <2>3. OverlayOwned'
    BY <1>4
    DEF DecCatch, OverlayFits, Overlays, Freed, IInv, TypeOK, OverlayOwned,
        OverlayInv
  <2>4. OverlayInv'
    BY <1>4
    DEF DecCatch, OverlayFits, Overlays, Freed, IInv, TypeOK, OverlayOwned,
        OverlayInv
  <2>5. HandoverInv'
    BY <1>4
    DEF DecCatch, OverlayFits, IInv, TypeOK, OverlayOwned, OverlayInv, HandoverInv
  <2>6. ContextInv'
    BY <1>4 DEF DecCatch, IInv, TypeOK, ContextInv
  <2>7. BootInv'
    BY <1>4 DEF DecCatch, IInv, BootInv
  <2> QED
    BY <2>1, <2>2, <2>3, <2>4, <2>5, <2>6, <2>7 DEF IInv
<1>5. CASE DecLock
  BY <1>5
  DEF DecLock, OverlayFits, IInv, TypeOK, LockDiscipline, OverlayOwned, OverlayInv,
      HandoverInv, ContextInv, BootInv, ChhPcs, DecPcs, MainPcs
<1>6. ASSUME NEW c \in CodecIds, DecReadInit(c) PROVE IInv'
  <2>1. TypeOK'
    <3>1. decFresh' \in BOOLEAN
      BY <1>6, Zenon DEF DecReadInit, DecRead
    <3>2. /\ decPc' \in DecPcs
          /\ decCid' \in CodecIds \cup {0}
          /\ reads' \in Nat
      BY <1>6 DEF DecReadInit, DecRead, IInv, TypeOK, ChhPcs, DecPcs, MainPcs
    <3>3. UNCHANGED <<mutex, context, display, chh, main, proc>>
      BY <1>6, Zenon DEF DecReadInit, DecRead
    <3> QED
      BY <3>1, <3>2, <3>3 DEF IInv, TypeOK, ChhPcs, DecPcs, MainPcs
  <2>2. LockDiscipline'
    BY <1>6 DEF DecReadInit, DecRead, IInv, LockDiscipline
  <2>3. OverlayOwned'
    BY <1>6
    DEF DecReadInit, DecRead, OverlayFits, Overlays, Freed, IInv, TypeOK,
        OverlayOwned, OverlayInv
  <2>4. OverlayInv'
    BY <1>6
    DEF DecReadInit, DecRead, OverlayFits, Overlays, Freed, IInv, TypeOK,
        OverlayOwned, OverlayInv
  <2>5. HandoverInv'
    BY <1>6
    DEF DecReadInit, DecRead, OverlayFits, IInv, TypeOK, OverlayOwned, OverlayInv,
        HandoverInv
  <2>6. ContextInv'
    BY <1>6 DEF DecReadInit, DecRead, IInv, TypeOK, ContextInv
  <2>7. BootInv'
    BY <1>6 DEF DecReadInit, DecRead, IInv, BootInv
  <2> QED
    BY <2>1, <2>2, <2>3, <2>4, <2>5, <2>6, <2>7 DEF IInv
<1>7. CASE codec_init
  <2>1. TypeOK'
    BY <1>7
    DEF codec_init, OverlayFits, OpenedSizes, Unsized, H264, Rect, Overlays, Freed,
        IInv, TypeOK, ChhPcs, DecPcs, MainPcs
  <2>2. LockDiscipline'
    BY <1>7 DEF codec_init, OpenedSizes, Unsized, H264, IInv, LockDiscipline
  <2>3. OverlayOwned'
    BY <1>7
    DEF codec_init, OverlayFits, OpenedSizes, Unsized, H264, Overlays, Freed, IInv,
        TypeOK, OverlayOwned, OverlayInv
  <2>4. OverlayInv'
    BY <1>7
    DEF codec_init, OverlayFits, OpenedSizes, Unsized, H264, Overlays, Freed, IInv,
        TypeOK, OverlayOwned, OverlayInv
  <2>5. HandoverInv'
    BY <1>7
    DEF codec_init, OverlayFits, OpenedSizes, Unsized, H264, IInv, TypeOK,
        OverlayOwned, OverlayInv, HandoverInv
  <2>6. ContextInv'
    BY <1>7, ContextNotNull
    DEF codec_init, OpenedSizes, IInv, LockDiscipline, ContextInv
  <2>7. BootInv'
    BY <1>7 DEF codec_init, IInv, BootInv
  <2> QED
    BY <2>1, <2>2, <2>3, <2>4, <2>5, <2>6, <2>7 DEF IInv
<1>8. CASE codec_init_fails
  BY <1>8
  DEF codec_init_fails, OverlayFits, IInv, TypeOK, LockDiscipline, OverlayOwned,
      OverlayInv, HandoverInv, ContextInv, BootInv, ChhPcs, DecPcs, MainPcs
<1>9. CASE DecodeGot
  <2>1. TypeOK'
    BY <1>9
    DEF DecodeGot, OverlayFits, Rect, Overlays, Freed, IInv, TypeOK, ChhPcs, DecPcs,
        MainPcs
  <2>2. LockDiscipline'
    BY <1>9 DEF DecodeGot, IInv, LockDiscipline
  <2>3. OverlayOwned'
    BY <1>9
    DEF DecodeGot, OverlayFits, Overlays, Freed, IInv, TypeOK, OverlayOwned,
        OverlayInv
  <2>4. OverlayInv'
    BY <1>9
    DEF DecodeGot, OverlayFits, Overlays, Freed, IInv, TypeOK, OverlayOwned,
        OverlayInv
  <2>5. HandoverInv'
    <3>1. mainPc = "display" => yuv[overlay].picture \in Int
      BY DEF OverlayFits, Overlays, Freed, IInv, TypeOK, OverlayOwned, OverlayInv,
          HandoverInv
    <3> QED
      BY <1>9, <3>1
      DEF DecodeGot, IInv, TypeOK, OverlayOwned, OverlayInv, HandoverInv
  <2>6. ContextInv'
    BY <1>9, ContextNotNull DEF DecodeGot, IInv, TypeOK, ContextInv
  <2>7. BootInv'
    BY <1>9 DEF DecodeGot, IInv, BootInv
  <2> QED
    BY <2>1, <2>2, <2>3, <2>4, <2>5, <2>6, <2>7 DEF IInv
<1>10. CASE DecodeNothing
  <2>1. TypeOK'
    BY <1>10
    DEF DecodeNothing, OverlayFits, Rect, Overlays, Freed, IInv, TypeOK, ChhPcs,
        DecPcs, MainPcs
  <2>2. LockDiscipline'
    BY <1>10 DEF DecodeNothing, IInv, LockDiscipline
  <2>3. OverlayOwned'
    BY <1>10
    DEF DecodeNothing, OverlayFits, Overlays, Freed, IInv, TypeOK, OverlayOwned,
        OverlayInv
  <2>4. OverlayInv'
    BY <1>10
    DEF DecodeNothing, OverlayFits, Overlays, Freed, IInv, TypeOK, OverlayOwned,
        OverlayInv
  <2>5. HandoverInv'
    BY <1>10
    DEF DecodeNothing, OverlayFits, IInv, TypeOK, OverlayOwned, OverlayInv,
        HandoverInv
  <2>6. ContextInv'
    BY <1>10, ContextNotNull DEF DecodeNothing, IInv, TypeOK, ContextInv
  <2>7. BootInv'
    BY <1>10 DEF DecodeNothing, IInv, BootInv
  <2> QED
    BY <2>1, <2>2, <2>3, <2>4, <2>5, <2>6, <2>7 DEF IInv
<1>11. CASE DecodeNoContext
  BY <1>11
  DEF DecodeNoContext, OverlayFits, IInv, TypeOK, LockDiscipline, OverlayOwned,
      OverlayInv, HandoverInv, ContextInv, BootInv, ChhPcs, DecPcs, MainPcs
<1> QED
  BY <1>1, <1>2, <1>3, <1>4, <1>5, <1>6, <1>7, <1>8, <1>9, <1>10, <1>11 DEF DecNext

(* Steps of the main thread between drawings preserve the invariant.       *)
LEMMA MainIdleIInv == IInv /\ MainIdleNext => IInv'
<1> SUFFICES ASSUME IInv, MainIdleNext PROVE IInv'
  OBVIOUS
<1> USE SurfacesAssumption, SizesAssumption, GuestAssumption, NULLAssumption
    DEF context, display, chh, dec, locals, main, host, Drawing, DecLocked,
        ChhAt, DecAt, MainAt, ChhGoto, DecGoto, MainGoto, SDL_LockMutex,
        SDL_UnlockMutex, Die, Receive
<1>1. CASE va_init
  <2>1. TypeOK'
    <3>1. /\ mainPc' \in MainPcs /\ chhPc' \in ChhPcs /\ decPc' \in DecPcs
      BY <1>1, ZenonT(30) DEF va_init, MainPcs, ChhPcs, DecPcs
    <3> QED
      BY <1>1, <3>1, SMTT(20) DEF va_init, IInv, TypeOK
  <2>2. LockDiscipline'
    BY <1>1, Zenon DEF va_init, IInv, LockDiscipline, BootInv
  <2>3. OverlayOwned'
    BY <1>1
    DEF va_init, OverlayFits, Overlays, Freed, IInv, TypeOK, OverlayOwned,
        OverlayInv
  <2>4. OverlayInv'
    BY <1>1
    DEF va_init, OverlayFits, Overlays, Freed, IInv, TypeOK, OverlayOwned,
        OverlayInv
  <2>5. HandoverInv'
    BY <1>1
    DEF va_init, OverlayFits, IInv, TypeOK, OverlayOwned, OverlayInv, HandoverInv
  <2>6. ContextInv'
    BY <1>1 DEF va_init, IInv, TypeOK, ContextInv
  <2>7. BootInv'
    BY <1>1 DEF va_init, IInv, BootInv
  <2> QED
    BY <2>1, <2>2, <2>3, <2>4, <2>5, <2>6, <2>7 DEF IInv
<1>2. CASE Refresh
  BY <1>2
  DEF Refresh, OverlayFits, IInv, TypeOK, LockDiscipline, OverlayOwned, OverlayInv,
      HandoverInv, ContextInv, BootInv, ChhPcs, DecPcs, MainPcs
<1>3. CASE ResizeFails
  BY <1>3
  DEF ResizeFails, OverlayFits, IInv, TypeOK, LockDiscipline, OverlayOwned,
      OverlayInv, HandoverInv, ContextInv, BootInv, ChhPcs, DecPcs, MainPcs
<1>4. ASSUME NEW s \in Surfaces, Resize(s) PROVE IInv'
  BY <1>4
  DEF Resize, OverlayFits, IInv, TypeOK, LockDiscipline, OverlayOwned, OverlayInv,
      HandoverInv, ContextInv, BootInv, ChhPcs, DecPcs, MainPcs
<1>5. ASSUME NEW m \in Modes, NEW s \in Surfaces, ModeSet(m, s) PROVE IInv'
  BY <1>5
  DEF ModeSet, OverlayFits, IInv, TypeOK, LockDiscipline, OverlayOwned, OverlayInv,
      HandoverInv, ContextInv, BootInv, ChhPcs, DecPcs, MainPcs
<1> QED
  BY <1>1, <1>2, <1>3, <1>4, <1>5 DEF MainIdleNext

(* Steps of va_do_drawing_locked preserve the invariant.                   *)
LEMMA DrawIInv == IInv /\ DrawNext => IInv'
<1> SUFFICES ASSUME IInv, DrawNext PROVE IInv'
  OBVIOUS
<1> USE SurfacesAssumption, SizesAssumption, GuestAssumption, NULLAssumption
    DEF context, display, chh, dec, locals, main, host, Drawing, DecLocked,
        ChhAt, DecAt, MainAt, ChhGoto, DecGoto, MainGoto, SDL_LockMutex,
        SDL_UnlockMutex, Die, Receive
<1>1. CASE DrawLock
  BY <1>1
  DEF DrawLock, OverlayFits, IInv, TypeOK, LockDiscipline, OverlayOwned, OverlayInv,
      HandoverInv, ContextInv, BootInv, ChhPcs, DecPcs, MainPcs
<1>2. CASE DrawNotPlaying
  BY <1>2
  DEF DrawNotPlaying, OverlayFits, IInv, TypeOK, LockDiscipline, OverlayOwned,
      OverlayInv, HandoverInv, ContextInv, BootInv, ChhPcs, DecPcs, MainPcs
<1>3. CASE DrawNothingNew
  BY <1>3
  DEF DrawNothingNew, OverlayFits, IInv, TypeOK, LockDiscipline, OverlayOwned,
      OverlayInv, HandoverInv, ContextInv, BootInv, ChhPcs, DecPcs, MainPcs
<1>4. CASE DrawReadWidth
  <2>1. TypeOK'
    BY <1>4
    DEF DrawReadWidth, OverlayFits, Rect, Overlays, Freed, IInv, TypeOK, ChhPcs,
        DecPcs, MainPcs
  <2>2. LockDiscipline'
    BY <1>4 DEF DrawReadWidth, IInv, LockDiscipline
  <2>3. OverlayOwned'
    BY <1>4
    DEF DrawReadWidth, OverlayFits, Overlays, Freed, IInv, TypeOK, OverlayOwned,
        OverlayInv
  <2>4. OverlayInv'
    BY <1>4
    DEF DrawReadWidth, OverlayFits, Overlays, Freed, IInv, TypeOK, OverlayOwned,
        OverlayInv
  <2>5. HandoverInv'
    BY <1>4
    DEF DrawReadWidth, OverlayFits, IInv, TypeOK, OverlayOwned, OverlayInv,
        HandoverInv
  <2>6. ContextInv'
    BY <1>4 DEF DrawReadWidth, IInv, TypeOK, ContextInv
  <2>7. BootInv'
    BY <1>4 DEF DrawReadWidth, IInv, BootInv
  <2> QED
    BY <2>1, <2>2, <2>3, <2>4, <2>5, <2>6, <2>7 DEF IInv
<1>5. CASE DrawCalcScale
  <2>0. avctx \in VideoSizes
    <3>1. avctx # NULL
      BY <1>5 DEF DrawCalcScale, IInv, HandoverInv, ContextInv
    <3>2. avctx # Unsized
      BY <1>5 DEF DrawCalcScale, DivisorZero, FitDivisor, Unsized
    <3> QED
      BY <3>1, <3>2 DEF IInv, TypeOK
  <2>1. TypeOK'
    <3>1. RectRead \in Rect
      BY DEF RectRead, Rect, IInv, TypeOK
    <3>2. placed' \in Rect
      BY <1>5, <2>0, <3>1, CalcScaleType DEF DrawCalcScale, IInv, TypeOK
    <3> QED
      BY <1>5, <3>2 DEF DrawCalcScale, IInv, TypeOK, MainPcs
  <2>2. LockDiscipline'
    BY <1>5 DEF DrawCalcScale, IInv, LockDiscipline
  <2>3. OverlayOwned'
    BY <1>5
    DEF DrawCalcScale, OverlayFits, Overlays, Freed, IInv,
        TypeOK, OverlayOwned, OverlayInv
  <2>4. OverlayInv'
    BY <1>5
    DEF DrawCalcScale, OverlayFits, Overlays, Freed, IInv,
        TypeOK, OverlayOwned, OverlayInv
  <2>5. HandoverInv'
    BY <1>5
    DEF DrawCalcScale, OverlayFits, IInv, TypeOK,
        OverlayOwned, OverlayInv, HandoverInv
  <2>6. ContextInv'
    BY <1>5, <2>0 DEF DrawCalcScale, IInv, ContextInv
  <2>7. BootInv'
    BY <1>5 DEF DrawCalcScale, IInv, BootInv
  <2> QED
    BY <2>1, <2>2, <2>3, <2>4, <2>5, <2>6, <2>7 DEF IInv
<1>6. CASE DrawDivideByZero
  BY <1>6
  DEF DrawDivideByZero, OverlayFits, IInv, TypeOK, LockDiscipline, OverlayOwned,
      OverlayInv, HandoverInv, ContextInv, BootInv, ChhPcs, DecPcs, MainPcs
<1>7. CASE DrawKeepOverlay
  BY <1>7
  DEF DrawKeepOverlay, OverlayFits, IInv, TypeOK, LockDiscipline, OverlayOwned,
      OverlayInv, HandoverInv, ContextInv, BootInv, ChhPcs, DecPcs, MainPcs
<1>8. CASE DrawNoOverlay
  <2>1. TypeOK'
    BY <1>8
    DEF DrawNoOverlay, OverlayFits, FreedYuv, Rect, Overlays, Freed, IInv, TypeOK,
        ChhPcs, DecPcs, MainPcs
  <2>2. LockDiscipline'
    BY <1>8 DEF DrawNoOverlay, IInv, LockDiscipline
  <2>3. OverlayOwned'
    BY <1>8
    DEF DrawNoOverlay, OverlayFits, FreedYuv, Overlays, Freed, IInv, TypeOK,
        OverlayOwned, OverlayInv
  <2>4. OverlayInv'
    BY <1>8
    DEF DrawNoOverlay, OverlayFits, FreedYuv, Overlays, Freed, IInv, TypeOK,
        OverlayOwned, OverlayInv
  <2>5. HandoverInv'
    BY <1>8
    DEF DrawNoOverlay, OverlayFits, FreedYuv, IInv, TypeOK, OverlayOwned,
        OverlayInv, HandoverInv
  <2>6. ContextInv'
    BY <1>8 DEF DrawNoOverlay, IInv, TypeOK, ContextInv
  <2>7. BootInv'
    BY <1>8 DEF DrawNoOverlay, IInv, BootInv
  <2> QED
    BY <2>1, <2>2, <2>3, <2>4, <2>5, <2>6, <2>7 DEF IInv
<1>9. ASSUME NEW o \in OverlayIds, DrawNewOverlay(o) PROVE IInv'
  <2>1. TypeOK'
    <3>1. FreedYuv \in [OverlayIds -> Overlays \cup {Freed}]
      BY DEF FreedYuv, IInv, TypeOK, ChhPcs, DecPcs, MainPcs
    <3>2. real_screen.id \in SurfaceIds
      BY DEF SurfaceIds, IInv, TypeOK, ChhPcs, DecPcs, MainPcs
    <3>3. [w |-> placed.w, h |-> placed.h, screen |-> real_screen.id, picture |-> 0]
             \in Overlays
      BY <3>2 DEF Overlays, Rect, IInv, TypeOK, ChhPcs, DecPcs, MainPcs
    <3>4. yuv' \in [OverlayIds -> Overlays \cup {Freed}]
      BY <1>9, <3>1, <3>3 DEF DrawNewOverlay, IInv, TypeOK, ChhPcs, DecPcs, MainPcs
    <3>5. /\ overlay' \in OverlayIds
          /\ last_screen' \in SurfaceIds
          /\ mainPc' = "convert"
      BY <1>9, <3>2 DEF DrawNewOverlay, IInv, TypeOK, ChhPcs, DecPcs, MainPcs
    <3>6. UNCHANGED <<mutex, context, real_screen, mode, shown, chh, dec,
                      locals, host>>
      BY <1>9, Zenon DEF DrawNewOverlay
    <3> QED
      BY <3>4, <3>5, <3>6 DEF IInv, TypeOK, ChhPcs, DecPcs, MainPcs
  <2>2. LockDiscipline'
    BY <1>9 DEF DrawNewOverlay, IInv, LockDiscipline
  <2>3. OverlayOwned'
    BY <1>9
    DEF DrawNewOverlay, OverlayFits, FreedYuv, Overlays, Freed, IInv,
        TypeOK, OverlayOwned, OverlayInv
  <2>4. OverlayInv'
    BY <1>9
    DEF DrawNewOverlay, OverlayFits, FreedYuv, Overlays, Freed, IInv,
        TypeOK, OverlayOwned, OverlayInv
  <2>5. HandoverInv'
    BY <1>9
    DEF DrawNewOverlay, OverlayFits, FreedYuv, IInv, TypeOK, OverlayOwned,
        OverlayInv, HandoverInv
  <2>6. ContextInv'
    BY <1>9 DEF DrawNewOverlay, IInv, TypeOK, ContextInv
  <2>7. BootInv'
    BY <1>9 DEF DrawNewOverlay, IInv, BootInv
  <2> QED
    BY <2>1, <2>2, <2>3, <2>4, <2>5, <2>6, <2>7 DEF IInv
<1>10. CASE DrawConvert
  <2>1. TypeOK'
    <3>1. overlay \in OverlayIds /\ yuv[overlay] \in Overlays
      BY <1>10
      DEF DrawConvert, OverlayFits, IInv, TypeOK, OverlayOwned, OverlayInv
    <3>2. [yuv[overlay] EXCEPT !.picture = frame] \in Overlays
      BY <3>1 DEF Overlays, IInv, TypeOK
    <3>3. yuv' \in [OverlayIds -> Overlays \cup {Freed}]
      BY <1>10, <3>1, <3>2 DEF DrawConvert, convert, IInv, TypeOK
    <3>4. success' \in BOOLEAN /\ needDraw' \in BOOLEAN
      BY <1>10, SwitchesAssumption, Zenon DEF DrawConvert
    <3>5. mutex' = "free" /\ mainPc' = "display"
      BY <1>10 DEF DrawConvert
    <3>6. UNCHANGED <<avctx, frame, frameSize, clientRect, playing, overlay,
                      last_screen, real_screen, mode, shown, chh, dec, windoww,
                      placed, host>>
      BY <1>10, Zenon DEF DrawConvert
    <3> QED
      BY <3>3, <3>4, <3>5, <3>6 DEF IInv, TypeOK, ChhPcs, DecPcs, MainPcs
  <2>2. LockDiscipline'
    BY <1>10 DEF DrawConvert, IInv, LockDiscipline
  <2>3. OverlayOwned'
    BY <1>10
    DEF DrawConvert, convert, OverlayFits, Overlays, Freed, IInv, TypeOK,
        OverlayOwned, OverlayInv
  <2>4. OverlayInv'
    BY <1>10
    DEF DrawConvert, convert, OverlayFits, Overlays, Freed, IInv, TypeOK,
        OverlayOwned, OverlayInv
  <2>5. HandoverInv'
    BY <1>10
    DEF DrawConvert, convert, OverlayFits, IInv, TypeOK, OverlayOwned, OverlayInv,
        HandoverInv
  <2>6. ContextInv'
    BY <1>10 DEF DrawConvert, convert, IInv, TypeOK, ContextInv
  <2>7. BootInv'
    BY <1>10 DEF DrawConvert, IInv, BootInv
  <2> QED
    BY <2>1, <2>2, <2>3, <2>4, <2>5, <2>6, <2>7 DEF IInv
<1>11. CASE DrawDisplay
  <2>1. TypeOK'
    <3>1. shown' \in Nat
      <4>1. yuv[overlay] \in Overlays
        BY <1>11, SMTT(20) DEF DrawDisplay, OverlayFits, IInv, TypeOK, OverlayOwned, OverlayInv
      <4> QED
        BY <1>11, <4>1 DEF DrawDisplay, Overlays, IInv, TypeOK
    <3> QED
      BY <1>11, <3>1 DEF DrawDisplay, IInv, TypeOK, MainPcs
  <2>2. LockDiscipline'
    BY <1>11 DEF DrawDisplay, IInv, LockDiscipline
  <2>3. OverlayOwned'
    BY <1>11
    DEF DrawDisplay, OverlayFits, Overlays, Freed, IInv, TypeOK, OverlayOwned,
        OverlayInv
  <2>4. OverlayInv'
    BY <1>11
    DEF DrawDisplay, OverlayFits, Overlays, Freed, IInv, TypeOK, OverlayOwned,
        OverlayInv
  <2>5. HandoverInv'
    BY <1>11
    DEF DrawDisplay, OverlayFits, IInv, TypeOK, OverlayOwned, OverlayInv,
        HandoverInv
  <2>6. ContextInv'
    BY <1>11 DEF DrawDisplay, IInv, TypeOK, ContextInv
  <2>7. BootInv'
    BY <1>11 DEF DrawDisplay, IInv, BootInv
  <2> QED
    BY <2>1, <2>2, <2>3, <2>4, <2>5, <2>6, <2>7 DEF IInv
<1>12. CASE DrawFree
  <2>1. TypeOK'
    BY <1>12
    DEF DrawFree, OverlayFits, FreedYuv, Rect, Overlays, Freed, IInv, TypeOK,
        ChhPcs, DecPcs, MainPcs
  <2>2. LockDiscipline'
    BY <1>12 DEF DrawFree, IInv, LockDiscipline
  <2>3. OverlayOwned'
    BY <1>12
    DEF DrawFree, OverlayFits, FreedYuv, Overlays, Freed, IInv, TypeOK,
        OverlayOwned, OverlayInv
  <2>4. OverlayInv'
    BY <1>12
    DEF DrawFree, OverlayFits, FreedYuv, Overlays, Freed, IInv, TypeOK,
        OverlayOwned, OverlayInv
  <2>5. HandoverInv'
    BY <1>12
    DEF DrawFree, OverlayFits, FreedYuv, IInv, TypeOK, OverlayOwned, OverlayInv,
        HandoverInv
  <2>6. ContextInv'
    BY <1>12 DEF DrawFree, IInv, TypeOK, ContextInv
  <2>7. BootInv'
    BY <1>12 DEF DrawFree, IInv, BootInv
  <2> QED
    BY <2>1, <2>2, <2>3, <2>4, <2>5, <2>6, <2>7 DEF IInv
<1> QED
  BY <1>1, <1>2, <1>3, <1>4, <1>5, <1>6, <1>7, <1>8, <1>9, <1>10, <1>11, <1>12 DEF DrawNext

(* Every step of the process, and a stuttering step, preserves IInv.       *)
LEMMA NextIInv == IInv /\ [Next]_vars => IInv'
<1> SUFFICES ASSUME IInv, [Next]_vars PROVE IInv'
  OBVIOUS
<1>1. CASE UNCHANGED vars
  BY <1>1 DEF IInv, TypeOK, LockDiscipline, OverlayOwned, OverlayInv, OverlayFits,
              HandoverInv, ContextInv, BootInv, vars, context, display, chh, dec,
              locals, main, host
<1>2. CASE Ended
  BY <1>1, <1>2 DEF Ended
<1> QED
  BY <1>1, <1>2, ChhIInv, DecIInv, MainIdleIInv, DrawIInv DEF Next

(* The inductive invariant holds in every state of every behaviour.        *)
THEOREM Invariance == Spec => []IInv
BY InitIInv, NextIInv, PTL DEF Spec

(* The values of all variables stay in their types.                        *)
THEOREM TypeCorrect == Spec => []TypeOK
<1>1. IInv => TypeOK
  BY DEF IInv
<1> QED
  BY <1>1, Invariance, PTL

(* Every path through the three threads gives the mutex back.              *)
THEOREM LockCorrect == Spec => []LockDiscipline
<1>1. IInv => LockDiscipline
  BY DEF IInv
<1> QED
  BY <1>1, Invariance, PTL

(* SDL's overlays are neither leaked nor used after they were freed.       *)
THEOREM OverlayCorrect == Spec => []OverlayOwned
<1>1. IInv => OverlayOwned
  BY DEF IInv
<1> QED
  BY <1>1, Invariance, PTL

(* What is displayed after the mutex was released fits the screen.         *)
THEOREM DisplayCorrect == Spec => []DisplayedFits
<1>1. IInv => DisplayedFits
  BY DEF IInv, OverlayInv, OverlayFits, DisplayedFits
<1> QED
  BY <1>1, Invariance, PTL

(* Pictures are displayed once and in the order they were decoded.         *)
THEOREM HandoverCorrect == Spec => []DisplayedIsNew
<1>1. IInv => DisplayedIsNew
  <2> SUFFICES ASSUME IInv, mainPc = "display", success
               PROVE  yuv[overlay].picture > shown
    BY DEF DisplayedIsNew
  <2>1. yuv[overlay].picture \in Int /\ shown \in Int
    BY DEF IInv, TypeOK, OverlayInv, OverlayFits, Overlays, Freed
  <2> QED
    BY <2>1 DEF IInv, HandoverInv
<1> QED
  BY <1>1, Invariance, PTL

-----------------------------------------------------------------------------
(* An overlay made from a picture of at least 20 by 20 pixels has an area. *)
LEMMA AreaStep ==
    ASSUME PicturesAtLeast20, IInv, OverlayHasArea, [Next]_vars
    PROVE  OverlayHasArea'
<1> USE DEF vars, context, display, chh, dec, locals, main, host, Die
<1>1. CASE ChhNext
  <2>1. UNCHANGED <<overlay, yuv>>
    BY <1>1, Zenon DEF ChhNext, ChhDefaultWidth, ChhDefaultHeight, ChhAccept, ChhFail,
                ChhLock, ChhStore, ChhRead
  <2> QED
    BY <2>1, Zenon DEF OverlayHasArea
<1>2. CASE DecNext
  <2>1. UNCHANGED <<overlay, yuv>>
    BY <1>2, Zenon DEF DecNext, DecAccept, DecReadPacket, DecReadInit, DecRead, DecFail,
                DecCatch, DecLock, codec_init, codec_init_fails, DecodeGot,
                DecodeNothing, DecodeNoContext
  <2> QED
    BY <2>1, Zenon DEF OverlayHasArea
<1>3. CASE MainIdleNext
  <2>1. UNCHANGED <<overlay, yuv>>
    BY <1>3, Zenon DEF MainIdleNext, va_init, Refresh, ResizeFails, Resize, ModeSet
  <2> QED
    BY <2>1, Zenon DEF OverlayHasArea
<1>4. CASE \/ DrawLock \/ DrawNotPlaying \/ DrawNothingNew \/ DrawReadWidth
           \/ DrawCalcScale \/ DrawDivideByZero \/ DrawKeepOverlay \/ DrawDisplay
           \/ UNCHANGED vars
  <2>1. UNCHANGED <<overlay, yuv>>
    BY <1>4, Zenon DEF DrawLock, DrawNotPlaying, DrawNothingNew, DrawReadWidth,
                DrawCalcScale, DrawDivideByZero, DrawKeepOverlay, DrawDisplay
  <2> QED
    BY <2>1, Zenon DEF OverlayHasArea
<1>5. CASE DrawNoOverlay \/ DrawFree
  <2>1. overlay' = NULL
    BY <1>5, Zenon DEF DrawNoOverlay, DrawFree
  <2> QED
    BY <2>1, Zenon DEF OverlayHasArea
<1>6. ASSUME NEW o \in OverlayIds, DrawNewOverlay(o) PROVE OverlayHasArea'
  <2>1. avctx \in VideoSizes
    BY <1>6 DEF IInv, ContextInv, DrawNewOverlay, MainAt
  <2>2. /\ avctx.w \in Nat /\ avctx.w >= 20
        /\ avctx.h \in Nat /\ avctx.h >= 20
    BY <2>1, SizesAssumption DEF PicturesAtLeast20, Size, Positive
  <2>3. /\ CDiv(avctx.w, 20) \in Int /\ CDiv(avctx.w, 20) >= 1
        /\ CDiv(avctx.h, 20) \in Int /\ CDiv(avctx.h, 20) >= 1
    BY <2>2 DEF CDiv
  <2>4. placed.w \in Int /\ placed.h \in Int
    BY DEF IInv, TypeOK, Rect
  <2>5. placed.w > 0 /\ placed.h > 0
    <3>1. ~TooSmall
      BY <1>6 DEF DrawNewOverlay
    <3> QED
      BY <2>3, <2>4, <3>1 DEF TooSmall
  <2>6. FreedYuv \in [OverlayIds -> Overlays \cup {Freed}]
    BY DEF IInv, TypeOK, FreedYuv
  <2>7. overlay' = o /\ yuv'[o].w = placed.w /\ yuv'[o].h = placed.h
    BY <1>6, <2>6 DEF DrawNewOverlay
  <2> QED
    BY <2>5, <2>7, Zenon DEF OverlayHasArea
<1>7. CASE DrawConvert
  <2>1. overlay \in OverlayIds /\ yuv[overlay] \in Overlays
    BY <1>7
    DEF IInv, TypeOK, OverlayOwned, OverlayInv, OverlayFits, DrawConvert, MainAt
  <2>2. /\ overlay' = overlay
        /\ yuv'[overlay].w = yuv[overlay].w
        /\ yuv'[overlay].h = yuv[overlay].h
    BY <1>7, <2>1 DEF IInv, TypeOK, DrawConvert, convert, Overlays
  <2> QED
    BY <2>1, <2>2, Zenon DEF OverlayHasArea
<1> QED
  BY <1>1, <1>2, <1>3, <1>4, <1>5, <1>6, <1>7, Zenon DEF Next, DrawNext, Ended

(* SDL is never asked for an overlay without pixels, whatever part of the  *)
(* client rectangle calcScale saw.                                         *)
THEOREM AreaCorrect ==
    ASSUME PicturesAtLeast20
    PROVE  Spec => []OverlayHasArea
<1>1. Init => OverlayHasArea
  BY DEF Init, OverlayHasArea
<1>2. IInv /\ OverlayHasArea /\ [Next]_vars => OverlayHasArea'
  BY AreaStep, Zenon
<1> QED
  BY <1>1, <1>2, Invariance, PTL DEF Spec

-----------------------------------------------------------------------------
(* A guest that keeps to the protocol.                                     *)
LEMMA DisciplinedStep ==
    ASSUME GuestDisciplined, SizeStable, IInv, DisciplinedInv, [Next]_vars
    PROVE  DisciplinedInv'
<1> USE ContextNotNull
    DEF DisciplinedInv, SessionInv, PictureReady, NoFault, vars, context, display,
        chh, dec, locals, main, host, ChhAt, DecAt, MainAt, ChhGoto, DecGoto,
        MainGoto, Drawing
<1>1. CASE ChhNext
  BY <1>1 DEF ChhNext, ChhDefaultWidth, ChhDefaultHeight, ChhAccept, ChhFail, ChhLock,
              ChhStore, ChhRead
<1>2. CASE DecAccept
  BY <1>2 DEF DecAccept
<1>3. CASE DecReadPacket
  BY <1>3 DEF DecReadPacket, DecRead
<1>4. ASSUME NEW c \in CodecIds, DecReadInit(c) PROVE DisciplinedInv'
  BY <1>4 DEF DecReadInit, DecRead
<1>5. CASE DecFail
  BY <1>5 DEF DecFail
<1>6. CASE DecCatch
  BY <1>6 DEF DecCatch
<1>7. CASE DecLock
  BY <1>7 DEF DecLock
<1>8. CASE codec_init
  BY <1>8 DEF codec_init, IInv, LockDiscipline, DecLocked, OpenedSizes
<1>9. CASE codec_init_fails
  BY <1>9 DEF codec_init_fails, Die
<1>10. CASE DecodeGot
  BY <1>10 DEF DecodeGot, IInv, LockDiscipline, DecLocked
<1>11. CASE DecodeNothing
  BY <1>11 DEF DecodeNothing, IInv, LockDiscipline, DecLocked
<1>12. CASE DecodeNoContext
  BY <1>12 DEF DecodeNoContext
<1>13. CASE MainIdleNext
  <2>1. CASE va_init
    BY <2>1 DEF va_init, IInv, BootInv
  <2>2. CASE ResizeFails
    BY <2>2 DEF ResizeFails, Die
  <2>3. CASE ~va_init /\ ~ResizeFails
    <3>1. /\ UNCHANGED <<avctx, frameSize, playing, dec, proc>>
          /\ mainPc' = "lock"
      BY <1>13, <2>3 DEF MainIdleNext, Refresh, Resize, ModeSet
    <3> QED
      BY <3>1
  <2> QED
    BY <2>1, <2>2, <2>3
<1>14. CASE DrawReadWidth
  BY <1>14 DEF DrawReadWidth
<1>15. CASE DrawDivideByZero
  <2>1. avctx \in Size
    BY <1>15, SizesAssumption DEF DrawDivideByZero
  <2>2. ~DivisorZero
    BY <2>1 DEF DivisorZero, FitDivisor, Size, Positive
  <2> QED
    BY <1>15, <2>2 DEF DrawDivideByZero
<1>16. CASE DrawLock \/ DrawNotPlaying \/ DrawNothingNew \/ DrawCalcScale \/ DrawKeepOverlay
  BY <1>16 DEF DrawLock, DrawNotPlaying, DrawNothingNew, DrawCalcScale, DrawKeepOverlay
<1>17. CASE DrawNoOverlay \/ DrawConvert \/ DrawDisplay \/ DrawFree
  <2>1. /\ UNCHANGED <<avctx, frameSize, playing, dec, proc>>
        /\ mainPc' \in {"idle", "display"}
    BY <1>17, Zenon DEF DrawNoOverlay, DrawConvert, DrawDisplay, DrawFree
  <2> QED
    BY <2>1
<1>18. ASSUME NEW o \in OverlayIds, DrawNewOverlay(o) PROVE DisciplinedInv'
  BY <1>18 DEF DrawNewOverlay
<1>19. CASE UNCHANGED vars
  BY <1>19
<1> QED
  BY <1>1, <1>2, <1>3, <1>4, <1>5, <1>6, <1>7, <1>8, <1>9, <1>10, <1>11, <1>12, <1>13,
     <1>14, <1>15, <1>16, <1>17, <1>18, <1>19, Zenon
  DEF Next, DecNext, DrawNext, Ended

(* With such a guest, both invariants hold throughout.                     *)
LEMMA DisciplinedInvariance ==
    ASSUME GuestDisciplined, SizeStable
    PROVE  Spec => []DisciplinedInv
<1>1. Init => DisciplinedInv
  BY DEF Init, DisciplinedInv, SessionInv, PictureReady, NoFault, Drawing
<1>2. IInv /\ DisciplinedInv /\ [Next]_vars => DisciplinedInv'
  BY DisciplinedStep
<1> QED
  BY <1>1, <1>2, Invariance, PTL DEF Spec

(* Drawing always finds a codec context whose size is the picture's.       *)
THEOREM PictureCorrect ==
    ASSUME GuestDisciplined, SizeStable
    PROVE  Spec => []PictureReady
<1>1. DisciplinedInv => PictureReady
  BY DEF DisciplinedInv
<1> QED
  BY <1>1, DisciplinedInvariance, PTL

(* Neither a missing codec context nor a zero size ends the process.       *)
THEOREM FaultFree ==
    ASSUME GuestDisciplined, SizeStable
    PROVE  Spec => []NoFault
<1>1. DisciplinedInv => NoFault
  BY DEF DisciplinedInv
<1> QED
  BY <1>1, DisciplinedInvariance, PTL

=============================================================================
