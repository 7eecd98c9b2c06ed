---------------------------- MODULE ScaledScreen ----------------------------
(***************************************************************************)
(* The end of vga_draw_graphic (hw/vga.c) while the screen is scaled:      *)
(* changed rows are flushed to the display, which is sdl_zoom_blit, then   *)
(* va_do_drawing places the picture with calcScale.  Two roundings of the  *)
(* same scale that have to agree.  Rows changed are those of the player's  *)
(* window, which it has painted, or all of them.                           *)
(***************************************************************************)
EXTENDS OverlayGeometry, SdlZoom

(* The client rectangle is on the guest's screen.                          *)
RowsShown ==
    clientRect.t >= 0 /\ clientRect.h > 0 /\ clientRect.t + clientRect.h <= mode.h

PlayerRows == [x |-> clientRect.t, w |-> clientRect.h]
ScreenRows == {[x |-> 0, w |-> mode.h], [x |-> 0, w |-> screen.h]}
Rows == [x |-> call.x, w |-> call.w]

ScaledInit ==
    /\ Init
    /\ ZoomInit
    /\ call.src = mode.h /\ call.dst = screen.h
    /\ Rows \in ScreenRows \cup {r \in {PlayerRows} : RowsShown}

(* dpy_update                                                              *)
Flush == ZoomNext /\ UNCHANGED vars

(* va_do_drawing, when the rows are drawn                                  *)
Overlay == pc = "done" /\ Call /\ UNCHANGED zoomVars

vga_draw_graphic == Flush \/ Overlay

ScaledSpec == ScaledInit /\ [][vga_draw_graphic]_<<vars, zoomVars>>

(* The picture lies over the player's window as it is shown: its rows are  *)
(* among those of the SDL window that are redrawn when the rows of the     *)
(* client rectangle change.  So the roundings of calcScale and of          *)
(* sdl_zoom_blit do not come apart, and what the player paints round the   *)
(* picture appears next to it.                                             *)
OverPlayer ==
    returned /\ RowsShown /\ Rows = PlayerRows =>
        zoom.x <= overlay.t /\ overlay.t + overlay.h <= zoom.x + zoom.w

=============================================================================
