----------------------------- MODULE SdlSurface -----------------------------
(***************************************************************************)
(* The pixels of QEMU's SDL display: who allocated the surface the guest   *)
(* or a text console is drawn into, and which memory it and SDL's          *)
(* guest_screen point to (sdl.c, console.c and console.h), as the guest    *)
(* changes modes (hw/vga.c), the user resizes the window, goes to full     *)
(* screen or to another console, and the monitor dumps the screen.         *)
(*                                                                         *)
(* A size stands for a width and a height.  The procedures of the code are *)
(* functions from display to display, composed as the code calls them;     *)
(* what drawing does wrong is collected in disp.fault.  A failure of       *)
(* SDL_SetVideoMode ends the process and is left to VaPlayback.            *)
(***************************************************************************)
EXTENDS Naturals

CONSTANTS Sizes,        \* resolutions and window sizes
          StartSize,    \* of the first surface and of the text console
          Depths,       \* what get_bpp may return in a graphic mode
          HostBpp,      \* host_format.BitsPerPixel
          None

ASSUME SurfaceAssumption ==
    /\ Sizes \subseteq Nat \ {0} /\ StartSize \in Sizes
    /\ Depths \subseteq {0, 8, 15, 16, 24, 32} /\ HostBpp \in {16, 24, 32}
    /\ None \notin Nat

Consoles == {"graphic", "text"}
Memory == {"pixels", "heap", "vram", "freed"}  \* what a pointer points to
Bpps == {0, 8, 15, 16, 24, 32}

VARIABLES
    disp,  \* real_screen, ds->surface, guest_screen and the flags of sdl.c
    con,   \* active_console, g_width and g_height of the consoles, and whether
           \* the screen was ever dumped while a text console was active
    vga    \* the mode the guest has set, and what was last drawn

vars == <<disp, con, vga>>

Screens == [data : Memory, size : Sizes, bpp : Bpps]

TypeOK ==
    /\ disp \in [real : [size : Sizes, bpp : Bpps],
                 surface : [kind : {"real", "allocated", "shared"},
                            data : Memory, size : Sizes, bpp : Bpps],
                 guest_screen : Screens \cup {None},
                 allocator : BOOLEAN, scaling : BOOLEAN, fullscreen : BOOLEAN,
                 fault : SUBSET {"dangling", "outside", "zoom", "vram"}]
    /\ con \in [active : Consoles, size : [Consoles -> Sizes], dumped : BOOLEAN]
    /\ vga \in [mode : {"text", "graph", "blank"}, depth : Depths, size : Sizes,
                graphic_mode : {"text", "graph", "blank", None},
                last : [size : Sizes \cup {0}, depth : Depths \cup {None}],
                last_scr : Sizes \cup {0}]

-----------------------------------------------------------------------------
(* sdl.c                                                                   *)

(* SDL_SetVideoMode keeps the pixels of the window when neither size nor   *)
(* depth change, else it frees them; a depth of 0 is the host's.           *)
SetVideoMode(d, size, bpp) ==
    LET new == [size |-> size, bpp |-> IF bpp = 0 THEN HostBpp ELSE bpp]
        Moved(s) == IF s.data = "pixels" /\ new # d.real
                    THEN [s EXCEPT !.data = "freed"] ELSE s
    IN  [d EXCEPT !.real = new,
                  !.surface = Moved(@),
                  !.guest_screen = IF @ = None THEN None ELSE Moved(@)]

sdl_setdata(d) ==
    [d EXCEPT !.guest_screen = [data |-> d.surface.data, size |-> d.surface.size,
                                bpp |-> d.surface.bpp]]

ResizeKeepsGuestScreen(d) ==
    IF d.allocator THEN d
    ELSE sdl_setdata(
           IF ~d.scaling THEN SetVideoMode(d, d.surface.size, 0)
           ELSE IF d.real.bpp # d.surface.bpp
           THEN SetVideoMode(d, d.real.size, d.surface.bpp) ELSE d)

ResizeKeepsDepth(d) ==
    IF d.allocator THEN [d EXCEPT !.guest_screen = None]
    ELSE sdl_setdata(IF ~d.scaling THEN SetVideoMode(d, d.surface.size, 0) ELSE d)

sdl_resize(d) ==
    IF d.allocator THEN [d EXCEPT !.guest_screen = None]
    ELSE sdl_setdata(
           IF ~d.scaling THEN SetVideoMode(d, d.surface.size, 0)
           ELSE IF d.real.bpp # d.surface.bpp
           THEN SetVideoMode(d, d.real.size, d.surface.bpp) ELSE d)

sdl_free_displaysurface(d) ==
    [d EXCEPT !.allocator = FALSE,
              !.guest_screen = IF @ # None /\ @.data = "heap"
                               THEN [@ EXCEPT !.data = "freed"] ELSE @]

HostDepth == IF HostBpp = 16 THEN 16 ELSE 32

sdl_create_displaysurface(d, size) ==
    IF d.scaling
    THEN [d EXCEPT !.surface = [kind |-> "allocated", data |-> "heap",
                                size |-> size, bpp |-> HostDepth]]
    ELSE LET e == SetVideoMode(d, size, HostDepth)
         IN  [e EXCEPT !.surface = [kind |-> "real", data |-> "pixels",
                                    size |-> size, bpp |-> e.real.bpp],
                       !.allocator = TRUE]

sdl_resize_displaysurface(d, size) ==
    sdl_create_displaysurface(sdl_free_displaysurface(d), size)

(* Blit guest_screen to the window.  Scaled, the two must have one depth,  *)
(* and that must be 16 or 32, or the program exits.                        *)
sdl_update(d) ==
    [d EXCEPT !.fault = @ \cup
        (IF d.guest_screen = None THEN {}
         ELSE (IF d.guest_screen.data = "freed" THEN {"dangling"} ELSE {})
              \cup (IF /\ d.scaling
                       /\ \/ d.guest_screen.bpp # d.real.bpp
                          \/ d.guest_screen.bpp \notin {16, 32}
                    THEN {"zoom"} ELSE {}))]

-----------------------------------------------------------------------------
(* console.c and hw/vga.c                                                  *)

(* Something of that size is drawn into the surface and shown.             *)
DrawInto(d, size) ==
    sdl_update([d EXCEPT !.fault = @ \cup
        (IF d.surface.data = "freed" THEN {"dangling"} ELSE {})
        \cup (IF size > d.surface.size THEN {"outside"} ELSE {})])

Shared(d) == d.surface.kind = "shared"

(* The text console draws all of itself, of the size it was made with.     *)
DrawText(d) ==
    DrawInto([d EXCEPT !.fault = @ \cup (IF Shared(d) THEN {"vram"} ELSE {})],
             StartSize)

(* What the vga functions work on; faults are those of one action.         *)
World == [disp |-> [disp EXCEPT !.fault = {}], con |-> con, vga |-> vga]

qemu_console_resize(w, size) ==
    LET known == [w EXCEPT !.con.size["graphic"] = size]
    IN  IF w.con.active = "graphic"
        THEN [known EXCEPT !.disp = sdl_resize(sdl_resize_displaysurface(@, size))]
        ELSE known

vga_draw_text(w) ==
    LET now == [size |-> w.vga.size, depth |-> None]
        r == IF w.vga.last = now THEN w
             ELSE [qemu_console_resize(w, w.vga.size)
                      EXCEPT !.vga.last = now, !.vga.last_scr = w.vga.size]
    IN  [r EXCEPT !.disp = DrawInto(@, w.vga.size)]

(* vram_ptr as the surface's data                                          *)
ShareVram(d, size, bpp) ==
    sdl_resize([sdl_free_displaysurface(d) EXCEPT
        !.surface = [kind |-> "shared", data |-> "vram", size |-> size, bpp |-> bpp]])

(* The surface follows the mode; a shared one is only blitted, and is set  *)
(* anew when the guest has moved the start of the screen.                  *)
vga_draw_graphic(w, full) ==
    LET v == w.vga
        now == [size |-> v.size, depth |-> v.depth]
        r == IF v.last # now
             THEN [(IF v.depth \in {16, 32}
                    THEN [w EXCEPT !.disp = ShareVram(@, v.size, v.depth)]
                    ELSE qemu_console_resize(w, v.size))
                   EXCEPT !.vga.last = now, !.vga.last_scr = v.size]
             ELSE IF Shared(w.disp) /\ full
             THEN [w EXCEPT !.disp = sdl_setdata(@)] ELSE w
    IN  [r EXCEPT !.disp = IF Shared(r.disp) THEN sdl_update(@)
                           ELSE DrawInto(@, v.size)]

vga_draw_blank(w, full) ==
    IF full /\ w.vga.last_scr > 0
    THEN [w EXCEPT !.disp = DrawInto(@, w.vga.last_scr)] ELSE w

(* moved: the guest has changed parameters that make the update a full one *)
vga_update_display(w, moved) ==
    LET full == moved \/ w.vga.mode # w.vga.graphic_mode
        r == [w EXCEPT !.vga.graphic_mode = w.vga.mode]
    IN  CASE w.vga.mode = "text"  -> vga_draw_text(r)
          [] w.vga.mode = "graph" -> vga_draw_graphic(r, full)
          [] w.vga.mode = "blank" -> vga_draw_blank(r, w.vga.mode # w.vga.graphic_mode)

vga_hw_update(w, moved) ==
    IF w.con.active = "graphic" THEN vga_update_display(w, moved) ELSE w

(* vga_invalidate_display, or text_console_invalidate, which draws         *)
vga_hw_invalidate(w) ==
    IF w.con.active = "graphic" THEN [w EXCEPT !.vga.last.size = 0]
    ELSE [w EXCEPT !.disp = DrawText(@)]

SelectForgetsSize(w, c) ==
    vga_hw_invalidate(
        [w EXCEPT !.con.active = c,
                  !.disp = sdl_resize(sdl_resize_displaysurface(@, w.con.size[c]))])

(* The size of the console left is remembered before the surface changes.  *)
console_select(w, c) ==
    LET size == [w.con.size EXCEPT ![w.con.active] = w.disp.surface.size]
    IN  vga_hw_invalidate(
            [w EXCEPT !.con.active = c, !.con.size = size,
                      !.disp = sdl_resize(sdl_resize_displaysurface(@, size[c]))])

-----------------------------------------------------------------------------
Init ==
    /\ disp = [real |-> [size |-> StartSize, bpp |-> HostDepth],
               surface |-> [kind |-> "real", data |-> "pixels",
                            size |-> StartSize, bpp |-> HostDepth],
               guest_screen |-> None, allocator |-> TRUE, scaling |-> FALSE,
               fullscreen |-> FALSE, fault |-> {}]
    /\ con = [active |-> "graphic", size |-> [c \in Consoles |-> StartSize],
              dumped |-> FALSE]
    /\ \E m \in {"text", "graph", "blank"}, b \in Depths, s \in Sizes :
          vga = [mode |-> m, depth |-> b, size |-> s, graphic_mode |-> None,
                 last |-> [size |-> 0, depth |-> None], last_scr |-> 0]

Becomes(w) == disp' = w.disp /\ con' = w.con /\ vga' = w.vga

Redraw(w, moved) == Becomes(vga_hw_update(vga_hw_invalidate(w), moved))

(* The guest programs the registers of the adapter.                        *)
GuestSetsMode(m, b, s) ==
    /\ vga' = [vga EXCEPT !.mode = m, !.depth = b, !.size = s]
    /\ UNCHANGED <<disp, con>>

(* Zeroed registers blank the display (ar_index).                          *)
vga_reset ==
    /\ vga' = [vga EXCEPT !.mode = "blank", !.graphic_mode = None, !.last.size = 0, !.last_scr = 0]
    /\ UNCHANGED <<disp, con>>

(* The timer of the display                                                *)
sdl_refresh(moved) == Becomes(vga_hw_update(World, moved))

Expose == Becomes([World EXCEPT !.disp = sdl_update(@)])

(* A character is written to the text console.                             *)
console_puts ==
    /\ con.active = "text"
    /\ Becomes([World EXCEPT !.disp = DrawText(@)])

toggle_full_screen(moved) ==
    LET d == [World.disp EXCEPT !.fullscreen = ~@, !.scaling = @ /\ disp.fullscreen]
    IN  Redraw([World EXCEPT !.disp = SetVideoMode(d, d.real.size, d.real.bpp)],
               moved)

(* Ctrl-Alt-u: unscaled                                                    *)
Unscale(moved) ==
    Redraw([World EXCEPT !.disp = sdl_resize([@ EXCEPT !.scaling = FALSE])], moved)

(* Ctrl-Alt-1 to 9                                                         *)
Select(c) == Becomes(console_select(World, c))

VideoResizeKeepsSurface(size, moved) ==
    LET d == [SetVideoMode(World.disp, size, IF disp.real.bpp \in {16, 32}
                                             THEN disp.real.bpp ELSE 32)
                 EXCEPT !.scaling = TRUE]
    IN  Redraw([World EXCEPT !.disp = d], moved)

(* SDL_VIDEORESIZE: from now on the guest screen is scaled.  If it was     *)
(* drawn in the pixels of the window it is given memory of its own.        *)
VideoResize(size, moved) ==
    LET d == [SetVideoMode(World.disp, size, IF disp.real.bpp \in {16, 32}
                                             THEN disp.real.bpp ELSE 32)
                 EXCEPT !.scaling = TRUE]
    IN  Redraw([World EXCEPT !.disp =
                   IF Shared(d) THEN d
                   ELSE sdl_resize(sdl_resize_displaysurface(d, d.surface.size))],
               moved)

(* vga_hw_screen_dump makes the first console active while it updates.     *)
vga_hw_screen_dump(moved) ==
    LET w == vga_update_display([World EXCEPT !.con.active = "graphic",
                                              !.vga.last.size = 0], moved)
    IN  Becomes([w EXCEPT !.con.active = con.active,
                          !.con.dumped = @ \/ con.active = "text"])

Next ==
    \/ \E m \in {"text", "graph", "blank"}, b \in Depths, s \in Sizes :
          GuestSetsMode(m, b, s)
    \/ vga_reset \/ Expose \/ console_puts
    \/ \E c \in Consoles : Select(c)
    \/ \E moved \in BOOLEAN :
          \/ sdl_refresh(moved) \/ toggle_full_screen(moved) \/ Unscale(moved)
          \/ vga_hw_screen_dump(moved)
          \/ \E size \in Sizes : VideoResize(size, moved)

Spec == Init /\ [][Next]_vars

-----------------------------------------------------------------------------
(* Who owns the pixels is known: the flag allocator, which tells           *)
(* sdl_resize whether the guest is drawn in the window's own, is right,    *)
(* and guest_screen exists exactly when it is not and wraps the memory,    *)
(* size and depth of the surface.                                          *)
OwnerKnown ==
    /\ disp.allocator <=> disp.surface.kind = "real"
    /\ disp.guest_screen =
          IF disp.allocator THEN None
          ELSE [data |-> disp.surface.data, size |-> disp.surface.size,
                bpp |-> disp.surface.bpp]

(* Nothing is drawn or blitted through a pointer to memory that was freed  *)
(* or to pixels of a window that SDL has replaced.                         *)
NoDangling == "dangling" \notin disp.fault

(* What is drawn fits the surface, and a text console does not draw into   *)
(* the memory of the guest, unless the screen was dumped behind a text     *)
(* console, which leaves the surface of the guest in its place.            *)
DrawInside == {"outside", "vram"} \cap disp.fault # {} => con.dumped

(* sdl_zoom_blit finds two surfaces of one depth, and one it can scale,    *)
(* while the guest's display is not blanked.  (Blanked, or reset while     *)
(* blanked, nothing is updated after a resize of the window that would     *)
(* bring the two depths together.)                                         *)
ZoomPossible ==
    "zoom" \in disp.fault => con.dumped \/ vga.graphic_mode \in {"blank", None}

=============================================================================
