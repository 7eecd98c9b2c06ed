-------------------------- MODULE SdlSurfaceProofs --------------------------
(***************************************************************************)
(* Theorems about SdlSurface for any sets of sizes and depths.  The        *)
(* invariant has two parts.  Safe holds always: the surface is backed by   *)
(* the memory its kind says, and guest_screen wraps it.  Good, about sizes *)
(* and depths, holds until the screen is dumped behind a text console.     *)
(* As the actions compose the procedures of the code, there is a lemma on  *)
(* what each procedure makes of a display or of a world, and the actions   *)
(* follow from these.                                                      *)
(***************************************************************************)
EXTENDS SdlSurface, TLAPS

Faults == {"dangling", "outside", "zoom", "vram"}
Reals == [size : Sizes, bpp : {16, 24, 32}]
Surfaces == [kind : {"real", "allocated", "shared"}, data : Memory,
             size : Sizes, bpp : {16, 32}]
Disps == [real : Reals, surface : Surfaces, guest_screen : Screens \cup {None},
          allocator : BOOLEAN, scaling : BOOLEAN, fullscreen : BOOLEAN,
          fault : SUBSET Faults]

(* What guest_screen is when it wraps a surface                            *)
Wrap(s) == [data |-> s.data, size |-> s.size, bpp |-> s.bpp]

(* The surface and the memory that belongs to its kind                     *)
Backed(d) ==
    /\ d.allocator <=> d.surface.kind = "real"
    /\ d.surface.kind = "real" => d.surface.data = "pixels"
    /\ d.surface.kind = "allocated" => d.surface.data = "heap"
    /\ d.surface.kind = "shared" => d.surface.data = "vram"

(* ... and guest_screen, which shows it                                    *)
Owned(d) ==
    /\ d \in Disps /\ Backed(d)
    /\ d.guest_screen = IF d.allocator THEN None ELSE Wrap(d.surface)

(* A scaled guest_screen has the depth of the window.                      *)
Matched(d) == d.scaling /\ ~d.allocator => d.real.bpp = d.surface.bpp

(* The flags and the faults of sdl.c that a new surface does not touch     *)
SameFlags(d, e) ==
    e.scaling = d.scaling /\ e.fullscreen = d.fullscreen /\ e.fault = d.fault

(* What SDL_SetVideoMode does: the window is as asked, the rest is kept,   *)
(* except pointers to pixels when the window changed.                      *)
ModeSet(d, size, bpp, e) ==
    /\ e \in Disps /\ SameFlags(d, e) /\ e.real.size = size
    /\ e.real.bpp = IF bpp = 0 THEN HostBpp ELSE bpp
    /\ e.surface.kind = d.surface.kind /\ e.surface.size = d.surface.size
    /\ e.surface.bpp = d.surface.bpp /\ e.allocator = d.allocator
    /\ d.surface.data # "pixels" \/ e.real = d.real => e.surface = d.surface
    /\ \/ d.guest_screen = None \/ e.real = d.real
       \/ d.guest_screen \in Screens /\ d.guest_screen.data # "pixels"
       => e.guest_screen = d.guest_screen

-----------------------------------------------------------------------------
(* SDL_SetVideoMode touches the window and pointers to its pixels.         *)
LEMMA SetModeFields ==
    ASSUME NEW d \in Disps, NEW size \in Sizes, NEW bpp \in {0, 16, 24, 32}
    PROVE  ModeSet(d, size, bpp, SetVideoMode(d, size, bpp))
<1> DEFINE new == [size |-> size, bpp |-> IF bpp = 0 THEN HostBpp ELSE bpp]
           Moved(x) == IF x.data = "pixels" /\ new # d.real
                       THEN [x EXCEPT !.data = "freed"] ELSE x
           s == Moved(d.surface)
           g == IF d.guest_screen = None THEN None ELSE Moved(d.guest_screen)
           e == SetVideoMode(d, size, bpp)
<1>1. e = [d EXCEPT !.real = new, !.surface = s, !.guest_screen = g]
  BY DEF SetVideoMode
<1>2. new \in Reals
  BY SurfaceAssumption DEF Reals
<1>n. new.size = size /\ new.bpp = IF bpp = 0 THEN HostBpp ELSE bpp
  OBVIOUS
<1> HIDE DEF new
<1>4. d.surface \in Surfaces /\ d.guest_screen \in Screens \cup {None}
  BY DEF Disps
<1>5. /\ s \in Surfaces /\ s.kind = d.surface.kind /\ s.size = d.surface.size
      /\ s.bpp = d.surface.bpp
      /\ d.surface.data # "pixels" \/ new = d.real => s = d.surface
  BY <1>4 DEF Surfaces, Memory
<1>6. /\ g \in Screens \cup {None}
      /\ \/ d.guest_screen = None \/ new = d.real
         \/ d.guest_screen \in Screens /\ d.guest_screen.data # "pixels"
         => g = d.guest_screen
  <2>1. CASE d.guest_screen = None
    BY <2>1
  <2>2. CASE d.guest_screen # None
    <3>1. d.guest_screen \in Screens
      BY <1>4, <2>2
    <3> QED
      BY <2>2, <3>1 DEF Screens, Memory
  <2> QED
    BY <2>1, <2>2
<1> HIDE DEF s, g
<1>7. /\ e \in Disps /\ e.real = new /\ e.surface = s /\ e.guest_screen = g
      /\ e.allocator = d.allocator /\ SameFlags(d, e)
  BY <1>1, <1>2, <1>5, <1>6, Zenon DEF Disps, SameFlags
<1> HIDE DEF e
<1> QED
  BY <1>5, <1>6, <1>7, <1>n DEF e, ModeSet

(* guest_screen wraps the surface anew.                                    *)
LEMMA SetDataOwned ==
    ASSUME NEW d \in Disps, Backed(d), ~d.allocator
    PROVE  LET e == sdl_setdata(d)
           IN  /\ Owned(e) /\ e.surface = d.surface /\ e.real = d.real
               /\ e.allocator = d.allocator /\ SameFlags(d, e)
<1> DEFINE g == Wrap(d.surface)
           e == sdl_setdata(d)
<1>1. g \in Screens
  BY DEF Disps, Surfaces, Screens, Wrap, Bpps
<1>2. e = [d EXCEPT !.guest_screen = g]
  BY DEF sdl_setdata, Wrap
<1>3. g = Wrap(d.surface)
  OBVIOUS
<1> HIDE DEF g
<1>4. e \in Disps /\ e.guest_screen = g /\ e.surface = d.surface /\ e.real = d.real
  BY <1>1, <1>2 DEF Disps
<1>5. e.allocator = d.allocator /\ SameFlags(d, e)
  BY <1>2 DEF Disps, SameFlags
<1> HIDE DEF e
<1>6. Owned(e)
  BY <1>3, <1>4, <1>5 DEF Owned, Backed
<1> QED
  BY <1>4, <1>5, <1>6 DEF e

(* sdl_resize gives a surface with memory of its own the guest_screen and  *)
(* the window it needs.                                                    *)
LEMMA ResizeOwned ==
    ASSUME NEW d \in Disps, Backed(d)
    PROVE  LET e == sdl_resize(d)
           IN  Owned(e) /\ Matched(e) /\ e.surface = d.surface /\ SameFlags(d, e)
<1> DEFINE e == sdl_resize(d)
<1>1. CASE d.allocator
  <2>1. e = [d EXCEPT !.guest_screen = None]
    BY <1>1 DEF sdl_resize
  <2>2. /\ e \in Disps /\ e.surface = d.surface /\ e.allocator = d.allocator
        /\ e.guest_screen = None
    BY <2>1 DEF Disps
  <2>3. SameFlags(d, e)
    BY <2>1 DEF Disps, SameFlags
  <2> QED
    BY <1>1, <2>2, <2>3 DEF Owned, Backed, Matched
<1>2. CASE ~d.allocator
  <2> DEFINE m == IF ~d.scaling THEN SetVideoMode(d, d.surface.size, 0)
                  ELSE IF d.real.bpp # d.surface.bpp
                  THEN SetVideoMode(d, d.real.size, d.surface.bpp) ELSE d
  <2>1. e = sdl_setdata(m)
    BY <1>2 DEF sdl_resize
  <2>2. d.surface.data # "pixels"
    BY <1>2 DEF Backed, Disps, Surfaces
  <2>3. /\ d.surface.size \in Sizes /\ d.real.size \in Sizes
        /\ d.surface.bpp \in {16, 32}
    BY DEF Disps, Surfaces, Reals
  <2>4. /\ m \in Disps /\ m.surface = d.surface /\ ~m.allocator /\ SameFlags(d, m)
        /\ d.scaling => m.real.bpp = d.surface.bpp
    <3>1. CASE ~d.scaling
      <4> DEFINE n == SetVideoMode(d, d.surface.size, 0)
      <4>1. n \in Disps /\ n.surface = d.surface /\ ~n.allocator /\ SameFlags(d, n)
        <5>1. ModeSet(d, d.surface.size, 0, n)
          BY <2>3, SetModeFields
        <5> HIDE DEF n
        <5> QED
          BY <1>2, <2>2, <5>1 DEF ModeSet
      <4> HIDE DEF n
      <4>2. m = n
        BY <3>1 DEF n
      <4> HIDE DEF m
      <4> QED
        BY <3>1, <4>1, <4>2
    <3>2. CASE d.scaling /\ d.real.bpp # d.surface.bpp
      <4> DEFINE n == SetVideoMode(d, d.real.size, d.surface.bpp)
      <4>1. /\ n \in Disps /\ n.surface = d.surface /\ ~n.allocator /\ SameFlags(d, n)
            /\ n.real.bpp = d.surface.bpp
        <5>1. ModeSet(d, d.real.size, d.surface.bpp, n)
          BY <2>3, SetModeFields
        <5> HIDE DEF n
        <5> QED
          BY <1>2, <2>2, <2>3, <5>1 DEF ModeSet
      <4> HIDE DEF n
      <4>2. m = n
        BY <3>2 DEF n
      <4> HIDE DEF m
      <4> QED
        BY <4>1, <4>2
    <3>3. CASE d.scaling /\ d.real.bpp = d.surface.bpp
      BY <1>2, <3>3, Zenon DEF SameFlags
    <3> QED
      BY <3>1, <3>2, <3>3
  <2> HIDE DEF m
  <2>5. Backed(m)
    BY <1>2, <2>4 DEF Backed
  <2>6. /\ Owned(e) /\ e.surface = m.surface /\ e.real = m.real
        /\ e.allocator = m.allocator /\ SameFlags(m, e)
    BY <2>1, <2>4, <2>5, SetDataOwned
  <2> HIDE DEF e
  <2>7. Matched(e)
    BY <2>4, <2>6 DEF Matched, SameFlags
  <2>8. SameFlags(d, e)
    BY <2>4, <2>6 DEF SameFlags
  <2> QED
    BY <2>4, <2>6, <2>7, <2>8 DEF e
<1> QED
  BY <1>1, <1>2

(* sdl_free_displaysurface touches guest_screen and the flag only.         *)
LEMMA FreeFields ==
    ASSUME NEW d \in Disps
    PROVE  LET e == sdl_free_displaysurface(d)
           IN  e \in Disps /\ ~e.allocator /\ SameFlags(d, e)
<1> DEFINE g == IF d.guest_screen # None /\ d.guest_screen.data = "heap"
                THEN [d.guest_screen EXCEPT !.data = "freed"] ELSE d.guest_screen
           e == sdl_free_displaysurface(d)
<1>1. g \in Screens \cup {None}
  BY DEF Disps, Screens, Memory
<1>2. e = [d EXCEPT !.allocator = FALSE, !.guest_screen = g]
  BY DEF sdl_free_displaysurface
<1> HIDE DEF g
<1>3. e \in Disps /\ ~e.allocator
  BY <1>1, <1>2, Zenon DEF Disps
<1>4. SameFlags(d, e)
  BY <1>2 DEF Disps, SameFlags
<1> QED
  BY <1>3, <1>4

(* The new surface of sdl_resize_displaysurface is backed by the memory    *)
(* its kind says, whatever the old one was.                                *)
LEMMA NewSurfaceBacked ==
    ASSUME NEW d \in Disps, NEW size \in Sizes
    PROVE  LET e == sdl_resize_displaysurface(d, size)
           IN  /\ e \in Disps /\ Backed(e) /\ e.surface.size = size
               /\ ~Shared(e) /\ SameFlags(d, e)
<1> DEFINE f == sdl_free_displaysurface(d)
           e == sdl_resize_displaysurface(d, size)
<1>1. f \in Disps /\ ~f.allocator /\ SameFlags(d, f)
  BY FreeFields
<1>2. e = sdl_create_displaysurface(f, size)
  BY DEF sdl_resize_displaysurface
<1> HIDE DEF f
<1>3. HostDepth \in {16, 32}
  BY DEF HostDepth
<1>4. CASE f.scaling
  <2> DEFINE s == [kind |-> "allocated", data |-> "heap",
                   size |-> size, bpp |-> HostDepth]
  <2>1. e = [f EXCEPT !.surface = s]
    BY <1>2, <1>4 DEF sdl_create_displaysurface
  <2>2. /\ s \in Surfaces /\ s.kind = "allocated" /\ s.data = "heap"
        /\ s.size = size
    BY <1>3 DEF Surfaces, Memory
  <2> HIDE DEF s
  <2>3. e \in Disps /\ e.surface = s /\ ~e.allocator
    BY <1>1, <2>1, <2>2 DEF Disps
  <2>4. SameFlags(f, e)
    BY <1>1, <2>1 DEF Disps, SameFlags
  <2> HIDE DEF e
  <2>5. SameFlags(d, e) /\ Backed(e) /\ ~Shared(e)
    BY <1>1, <2>2, <2>3, <2>4 DEF SameFlags, Backed, Shared
  <2> QED
    BY <2>2, <2>3, <2>5 DEF e
<1>5. CASE ~f.scaling
  <2> DEFINE m == SetVideoMode(f, size, HostDepth)
             s == [kind |-> "real", data |-> "pixels",
                   size |-> size, bpp |-> m.real.bpp]
  <2>1. e = [m EXCEPT !.surface = s, !.allocator = TRUE]
    BY <1>2, <1>5 DEF sdl_create_displaysurface
  <2>2. m \in Disps /\ SameFlags(f, m) /\ m.real.bpp = HostDepth
    <3>1. ModeSet(f, size, HostDepth, m)
      BY <1>1, <1>3, SetModeFields
    <3> HIDE DEF m
    <3> QED
      BY <1>3, <3>1 DEF ModeSet
  <2> HIDE DEF m
  <2>3. /\ s \in Surfaces /\ s.kind = "real" /\ s.data = "pixels"
        /\ s.size = size
    BY <1>3, <2>2 DEF Surfaces, Memory
  <2> HIDE DEF s
  <2>4. e \in Disps /\ e.surface = s /\ e.allocator
    BY <2>1, <2>2, <2>3, Zenon DEF Disps
  <2>5. SameFlags(m, e)
    BY <2>1, <2>2 DEF Disps, SameFlags
  <2> HIDE DEF e
  <2>6. SameFlags(d, e) /\ Backed(e) /\ ~Shared(e)
    BY <1>1, <2>2, <2>3, <2>4, <2>5 DEF SameFlags, Backed, Shared
  <2> QED
    BY <2>3, <2>4, <2>6 DEF e
<1> QED
  BY <1>4, <1>5

(* ... and with sdl_resize it is shown.                                    *)
LEMMA NewSurfaceOwned ==
    ASSUME NEW d \in Disps, NEW size \in Sizes
    PROVE  LET e == sdl_resize(sdl_resize_displaysurface(d, size))
           IN  /\ Owned(e) /\ Matched(e) /\ e.surface.size = size
               /\ ~Shared(e) /\ SameFlags(d, e)
<1> DEFINE s == sdl_resize_displaysurface(d, size)
           e == sdl_resize(s)
<1>1. s \in Disps /\ Backed(s) /\ s.surface.size = size /\ ~Shared(s) /\ SameFlags(d, s)
  BY NewSurfaceBacked
<1> HIDE DEF s
<1>2. Owned(e) /\ Matched(e) /\ e.surface = s.surface /\ SameFlags(s, e)
  BY <1>1, ResizeOwned
<1> HIDE DEF e
<1>3. SameFlags(d, e) /\ ~Shared(e) /\ e.surface.size = size
  BY <1>1, <1>2 DEF SameFlags, Shared
<1> QED
  BY <1>2, <1>3 DEF e, s

(* A surface over the guest's memory                                       *)
LEMMA ShareVramOwned ==
    ASSUME NEW d \in Disps, NEW size \in Sizes, NEW bpp \in {16, 32}
    PROVE  LET e == ShareVram(d, size, bpp)
           IN  /\ Owned(e) /\ Matched(e) /\ e.surface.size = size
               /\ Shared(e) /\ SameFlags(d, e)
<1> DEFINE f == sdl_free_displaysurface(d)
           s == [kind |-> "shared", data |-> "vram", size |-> size, bpp |-> bpp]
           v == [f EXCEPT !.surface = s]
           e == ShareVram(d, size, bpp)
<1>1. f \in Disps /\ ~f.allocator /\ SameFlags(d, f)
  BY FreeFields
<1>2. e = sdl_resize(v)
  BY DEF ShareVram
<1> HIDE DEF f
<1>3. /\ s \in Surfaces /\ s.kind = "shared" /\ s.data = "vram" /\ s.size = size
  BY DEF Surfaces, Memory
<1> HIDE DEF s
<1>4. v \in Disps /\ v.surface = s /\ ~v.allocator
  BY <1>1, <1>3 DEF Disps
<1>5. SameFlags(f, v)
  BY <1>1 DEF Disps, SameFlags
<1> HIDE DEF v, e
<1>6. Backed(v)
  BY <1>3, <1>4 DEF Backed
<1>7. Owned(e) /\ Matched(e) /\ e.surface = v.surface /\ SameFlags(v, e)
  BY <1>2, <1>4, <1>6, ResizeOwned
<1>8. SameFlags(d, e) /\ Shared(e) /\ e.surface.size = size
  BY <1>1, <1>3, <1>4, <1>5, <1>7 DEF SameFlags, Shared
<1> QED
  BY <1>7, <1>8 DEF e

-----------------------------------------------------------------------------
(* Drawing changes the faults only ...                                     *)
Drawn(d, e) ==
    /\ Owned(e) /\ e.surface = d.surface /\ e.scaling = d.scaling
    /\ e.allocator = d.allocator /\ e.real = d.real
    /\ Matched(e) <=> Matched(d)

(* Replacing the faults of an owned display leaves all else as it was.     *)
LEMMA FaultOnly ==
    ASSUME NEW d, Owned(d), NEW f \in SUBSET Faults
    PROVE  Drawn(d, [d EXCEPT !.fault = f]) /\ [d EXCEPT !.fault = f].fault = f
<1> DEFINE e == [d EXCEPT !.fault = f]
<1>1. /\ e \in Disps /\ e.surface = d.surface /\ e.real = d.real
      /\ e.guest_screen = d.guest_screen /\ e.fault = f
  BY DEF Disps, Owned
<1>2. e.scaling = d.scaling /\ e.allocator = d.allocator
  BY DEF Disps, Owned
<1> HIDE DEF e
<1>3. Owned(e)
  BY <1>1, <1>2 DEF Owned, Backed
<1>4. Matched(e) <=> Matched(d)
  BY <1>1, <1>2 DEF Matched
<1> QED
  BY <1>1, <1>2, <1>3, <1>4 DEF e, Drawn

(* ... sdl_update's only to the one about zooming, if the depths differ.   *)
LEMMA UpdateDrawn ==
    ASSUME NEW d, Owned(d)
    PROVE  LET e == sdl_update(d)
           IN  /\ Drawn(d, e) /\ e.fault \in SUBSET (d.fault \cup {"zoom"})
               /\ Matched(d) => e.fault = d.fault
<1> DEFINE g == d.guest_screen
           a == IF g = None THEN {}
                ELSE (IF g.data = "freed" THEN {"dangling"} ELSE {})
                     \cup (IF /\ d.scaling
                              /\ g.bpp # d.real.bpp \/ g.bpp \notin {16, 32}
                           THEN {"zoom"} ELSE {})
           f == d.fault \cup a
           e == sdl_update(d)
<1>1. e = [d EXCEPT !.fault = f]
  BY DEF sdl_update
<1>2. a \subseteq {"zoom"} /\ (Matched(d) => a = {})
  <2>1. CASE g = None
    BY <2>1
  <2>2. CASE g # None
    <3>1. g = Wrap(d.surface) /\ ~d.allocator
      BY <2>2 DEF Owned
    <3>2. d.surface.data # "freed" /\ d.surface.bpp \in {16, 32}
      BY <3>1 DEF Owned, Backed, Disps, Surfaces
    <3>3. g.data # "freed" /\ g.bpp \in {16, 32} /\ g.bpp = d.surface.bpp
      BY <3>1, <3>2 DEF Wrap
    <3> HIDE DEF g
    <3> QED
      BY <3>1, <3>3 DEF Matched
  <2> QED
    BY <2>1, <2>2
<1> HIDE DEF a
<1>3. d.fault \in SUBSET Faults
  BY DEF Owned, Disps
<1>4. f \in SUBSET Faults /\ f \in SUBSET (d.fault \cup {"zoom"}) /\ (Matched(d) => f = d.fault)
  BY <1>2, <1>3, Zenon DEF Faults
<1> HIDE DEF f
<1> QED
  BY <1>1, <1>4, FaultOnly

(* DrawInto adds that of a picture larger than the surface, but no more.   *)
LEMMA DrawIntoDrawn ==
    ASSUME NEW d, Owned(d), NEW size \in Sizes
    PROVE  LET e == DrawInto(d, size)
           IN  /\ Drawn(d, e) /\ e.fault \in SUBSET (d.fault \cup {"outside", "zoom"})
               /\ size = d.surface.size => /\ e.fault \in SUBSET (d.fault \cup {"zoom"})
                                           /\ Matched(d) => e.fault = d.fault
<1> DEFINE f == d.fault \cup (IF d.surface.data = "freed" THEN {"dangling"} ELSE {})
                \cup (IF size > d.surface.size THEN {"outside"} ELSE {})
           p == [d EXCEPT !.fault = f]
           e == DrawInto(d, size)
<1>1. e = sdl_update(p)
  BY DEF DrawInto
<1>2. d.surface.data # "freed"
  BY DEF Owned, Backed, Disps, Surfaces
<1>3. d.fault \in SUBSET Faults /\ size \in Nat
  BY SurfaceAssumption DEF Owned, Disps
<1>4. /\ f \in SUBSET Faults /\ f \in SUBSET (d.fault \cup {"outside"})
      /\ size = d.surface.size => f = d.fault
  BY <1>2, <1>3 DEF Faults
<1> HIDE DEF f
<1>5. Drawn(d, p) /\ p.fault = f
  BY <1>4, FaultOnly
<1> HIDE DEF p
<1>6. /\ Drawn(p, e) /\ e.fault \in SUBSET (p.fault \cup {"zoom"})
      /\ Matched(p) => e.fault = p.fault
  BY <1>1, <1>5, UpdateDrawn DEF Drawn
<1> HIDE DEF e
<1>7. Drawn(d, e)
  BY <1>5, <1>6 DEF Drawn
<1>8. Matched(d) <=> Matched(p)
  BY <1>5 DEF Drawn
<1> QED
  BY <1>4, <1>5, <1>6, <1>7, <1>8 DEF e

(* The text console finds a surface of its own size.                       *)
LEMMA DrawTextDrawn ==
    ASSUME NEW d, Owned(d)
    PROVE  LET e == DrawText(d)
           IN  /\ Drawn(d, e) /\ e.fault \in SUBSET (d.fault \cup {"outside", "zoom", "vram"})
               /\ StartSize = d.surface.size /\ ~Shared(d) /\ Matched(d)
                  => e.fault = d.fault
<1> DEFINE f == d.fault \cup (IF Shared(d) THEN {"vram"} ELSE {})
           p == [d EXCEPT !.fault = f]
           e == DrawText(d)
<1>1. e = DrawInto(p, StartSize)
  BY DEF DrawText
<1>3. d.fault \in SUBSET Faults /\ StartSize \in Sizes
  BY SurfaceAssumption DEF Owned, Disps
<1>4. /\ f \in SUBSET Faults /\ f \in SUBSET (d.fault \cup {"vram"})
      /\ ~Shared(d) => f = d.fault
  BY <1>3 DEF Faults
<1> HIDE DEF f
<1>5. Drawn(d, p) /\ p.fault = f
  BY <1>4, FaultOnly
<1> HIDE DEF p
<1>6. /\ Drawn(p, e) /\ e.fault \in SUBSET (p.fault \cup {"outside", "zoom"})
      /\ StartSize = p.surface.size => (Matched(p) => e.fault = p.fault)
  BY <1>1, <1>3, <1>5, DrawIntoDrawn DEF Drawn
<1> HIDE DEF e
<1>7. Drawn(d, e)
  BY <1>5, <1>6 DEF Drawn
<1>8. (Matched(d) <=> Matched(p)) /\ p.surface = d.surface
  BY <1>5 DEF Drawn
<1> QED
  BY <1>4, <1>5, <1>6, <1>7, <1>8 DEF e

-----------------------------------------------------------------------------
Cons == [active : Consoles, size : [Consoles -> Sizes], dumped : BOOLEAN]
Vgas == [mode : {"text", "graph", "blank"}, depth : Depths, size : Sizes,
         graphic_mode : {"text", "graph", "blank", None},
         last : [size : Sizes \cup {0}, depth : Depths \cup {None}],
         last_scr : Sizes \cup {0}]
Worlds == [disp : Disps, con : Cons, vga : Vgas]

(* What holds even after the screen was dumped behind a text console       *)
Safe(w) == w \in Worlds /\ Owned(w.disp) /\ "dangling" \notin w.disp.fault

(* The surface has the size of what a blank or a text console will draw.   *)
(* The size of the guest's display is remembered for when its console is   *)
(* selected again.                                                         *)
Remembered(w) ==
    /\ w.con.size["text"] = StartSize
    /\ w.con.active = "graphic" =>
          (w.vga.last_scr > 0 => w.disp.surface.size = w.vga.last_scr)
    /\ w.con.active = "text" =>
          /\ w.disp.surface.size = StartSize /\ ~Shared(w.disp)
          /\ w.vga.last_scr > 0 => w.con.size["graphic"] = w.vga.last_scr

(* ... and of what an update will draw, unless that will make a new one.   *)
Sized(w) ==
    /\ Remembered(w)
    /\ w.con.active = "graphic" =>
          (w.vga.last.size > 0 => w.disp.surface.size = w.vga.last.size)

(* The depths match, or the next update of the guest's display will make   *)
(* them match, ...                                                         *)
Loose(w) == Matched(w.disp) \/ (w.con.active = "graphic" /\ w.vga.last.size = 0)

(* ... which between two actions only a blank display still owes.          *)
Blanked(w) == w.vga.graphic_mode \in {"blank", None}
Zoomed(w) == Matched(w.disp) \/ (w.con.active = "graphic" /\ w.vga.last.size = 0 /\ Blanked(w))

Good(w) ==
    /\ Sized(w) /\ Zoomed(w) /\ w.disp.fault \subseteq {"zoom"}
    /\ "zoom" \in w.disp.fault => Blanked(w)

(* An update may resize the guest's console and keeps the rest of con.     *)
KeepsCon(w, e) ==
    /\ e.con.active = w.con.active /\ e.con.dumped = w.con.dumped
    /\ e.con.size["text"] = w.con.size["text"]

(* The surface is a new one, of a given size.                              *)
Fitted(w, e, size) ==
    /\ e \in Worlds /\ e.vga = w.vga /\ KeepsCon(w, e)
    /\ Owned(e.disp) /\ Matched(e.disp) /\ e.disp.surface.size = size
    /\ e.disp.fault = w.disp.fault

(* What an update of the display makes of w                                *)
Updated(w, e) ==
    /\ Safe(e) /\ KeepsCon(w, e)
    /\ Sized(w) /\ Loose(w) /\ w.disp.fault = {} => Good(e)

(* A world given another display                                           *)
LEMMA WithDisp ==
    ASSUME NEW w \in Worlds, NEW d \in Disps
    PROVE  LET e == [w EXCEPT !.disp = d]
           IN  e \in Worlds /\ e.disp = d /\ e.con = w.con /\ e.vga = w.vga
BY DEF Worlds

(* A world in which the size and depth just drawn are remembered           *)
LEMMA WithMemory ==
    ASSUME NEW w \in Worlds, NEW size \in Sizes, NEW depth \in Depths \cup {None}
    PROVE  LET now == [size |-> size, depth |-> depth]
               e == [w EXCEPT !.vga.last = now, !.vga.last_scr = size]
           IN  /\ e \in Worlds /\ e.disp = w.disp /\ e.con = w.con
               /\ e.vga.last.size = size /\ e.vga.last_scr = size
               /\ e.vga.graphic_mode = w.vga.graphic_mode
<1> DEFINE now == [size |-> size, depth |-> depth]
           v == [w.vga EXCEPT !.last = now, !.last_scr = size]
           e == [w EXCEPT !.vga.last = now, !.vga.last_scr = size]
<1>1. now \in [size : Sizes \cup {0}, depth : Depths \cup {None}] /\ now.size = size
  OBVIOUS
<1>2. e = [w EXCEPT !.vga = v]
  BY Zenon DEF Worlds, Vgas
<1> HIDE DEF now
<1>3. /\ v \in Vgas /\ v.last = now /\ v.last_scr = size
      /\ v.graphic_mode = w.vga.graphic_mode
  BY <1>1, Zenon DEF Worlds, Vgas
<1> HIDE DEF v
<1>4. e \in Worlds /\ e.disp = w.disp /\ e.con = w.con /\ e.vga = v
  BY <1>2, <1>3, Zenon DEF Worlds
<1> HIDE DEF e
<1> QED
  BY <1>1, <1>3, <1>4 DEF e, now

(* qemu_console_resize with the guest's console active                     *)
LEMMA ConsoleResizeFits ==
    ASSUME NEW w, Safe(w), w.con.active = "graphic", NEW size \in Sizes
    PROVE  Fitted(w, qemu_console_resize(w, size), size)
<1> DEFINE s == [w.con.size EXCEPT !["graphic"] = size]
           c == [w.con EXCEPT !.size = s]
           d == sdl_resize(sdl_resize_displaysurface(w.disp, size))
           e == qemu_console_resize(w, size)
<1>w. w \in Worlds
  BY DEF Safe
<1>1. /\ s \in [Consoles -> Sizes] /\ s["text"] = w.con.size["text"]
  BY <1>w DEF Worlds, Cons, Consoles
<1>2. e = [w EXCEPT !.con = c, !.disp = d]
  BY <1>w DEF qemu_console_resize, Worlds, Cons
<1> HIDE DEF s
<1>3. c \in Cons /\ c.size = s /\ c.active = w.con.active /\ c.dumped = w.con.dumped
  BY <1>w, <1>1 DEF Worlds, Cons
<1> HIDE DEF c
<1>4. Owned(d) /\ Matched(d) /\ d.surface.size = size /\ d.fault = w.disp.fault
  <2>1. w.disp \in Disps
    BY <1>w DEF Worlds
  <2>2. /\ Owned(d) /\ Matched(d) /\ d.surface.size = size /\ SameFlags(w.disp, d)
    BY <2>1, NewSurfaceOwned
  <2> QED
    BY <2>2 DEF SameFlags
<1> HIDE DEF d
<1>5. e \in Worlds /\ e.con = c /\ e.disp = d /\ e.vga = w.vga
  BY <1>w, <1>2, <1>3, <1>4, Zenon DEF Worlds, Owned
<1> HIDE DEF e
<1>6. KeepsCon(w, e)
  BY <1>1, <1>3, <1>5 DEF KeepsCon
<1> QED
  BY <1>4, <1>5, <1>6 DEF e, Fitted

(* A surface over the guest's memory                                       *)
LEMMA ShareVramFits ==
    ASSUME NEW w, Safe(w), NEW size \in Sizes, NEW bpp \in {16, 32}
    PROVE  Fitted(w, [w EXCEPT !.disp = ShareVram(@, size, bpp)], size)
<1> DEFINE d == ShareVram(w.disp, size, bpp)
           e == [w EXCEPT !.disp = d]
<1>w. w \in Worlds /\ w.disp \in Disps
  BY DEF Safe, Worlds
<1>1. Owned(d) /\ Matched(d) /\ d.surface.size = size /\ SameFlags(w.disp, d)
  BY <1>w, ShareVramOwned
<1> HIDE DEF d
<1>2. e \in Worlds /\ e.disp = d /\ e.con = w.con /\ e.vga = w.vga
  BY <1>w, <1>1, WithDisp DEF Owned
<1> HIDE DEF e
<1>3. Fitted(w, e, size)
  BY <1>1, <1>2 DEF Fitted, KeepsCon, SameFlags
<1> QED
  BY <1>3 DEF e, d

(* The surface is ready for a picture of a given size.                     *)
Ready(w, r, size) ==
    /\ r \in Worlds /\ KeepsCon(w, r) /\ Owned(r.disp) /\ r.disp.fault = w.disp.fault
    /\ r.vga.graphic_mode = w.vga.graphic_mode
    /\ Sized(w) /\ Loose(w)
       => Sized(r) /\ Matched(r.disp) /\ r.disp.surface.size = size

(* ... because it was just made for it and that is remembered              *)
LEMMA FittedReady ==
    ASSUME NEW w, Safe(w), w.con.active = "graphic", NEW size \in Sizes,
           NEW depth \in Depths \cup {None}, NEW f, Fitted(w, f, size)
    PROVE  Ready(w, [f EXCEPT !.vga.last = [size |-> size, depth |-> depth],
                              !.vga.last_scr = size], size)
<1> DEFINE r == [f EXCEPT !.vga.last = [size |-> size, depth |-> depth],
                          !.vga.last_scr = size]
<1>1. /\ r \in Worlds /\ r.disp = f.disp /\ r.con = f.con
      /\ r.vga.last.size = size /\ r.vga.last_scr = size
      /\ r.vga.graphic_mode = f.vga.graphic_mode
  BY WithMemory, ZenonT(30) DEF Fitted
<1> HIDE DEF r
<1>2. KeepsCon(w, r)
  BY <1>1 DEF Fitted, KeepsCon
<1>3. Sized(w) => Sized(r)
  BY <1>1, <1>2 DEF Sized, Remembered, KeepsCon, Fitted
<1>4. Ready(w, r, size)
  BY <1>1, <1>2, <1>3 DEF Ready, Fitted
<1> QED
  BY <1>4 DEF r

(* ... or because it was made for it earlier.                              *)
LEMMA SameReady ==
    ASSUME NEW w, Safe(w), w.con.active = "graphic", NEW size \in Sizes,
           w.vga.last.size = size
    PROVE  Ready(w, w, size)
<1>1. size > 0
  BY SurfaceAssumption
<1>2. KeepsCon(w, w) /\ w \in Worlds /\ Owned(w.disp)
  BY DEF KeepsCon, Safe
<1>3. Loose(w) => Matched(w.disp)
  BY <1>1 DEF Loose
<1>4. Sized(w) => w.disp.surface.size = size
  BY <1>1 DEF Sized, Remembered
<1> QED
  BY <1>2, <1>3, <1>4 DEF Ready

(* The picture is drawn.                                                   *)
LEMMA ReadyUpdated ==
    ASSUME NEW w, Safe(w), NEW size \in Sizes,
           NEW r, Ready(w, r, size),
           NEW d, Drawn(r.disp, d),
           d.fault \in SUBSET (r.disp.fault \cup {"outside", "zoom"}),
           size = r.disp.surface.size => (Matched(r.disp) => d.fault = r.disp.fault)
    PROVE  Updated(w, [r EXCEPT !.disp = d])
<1> DEFINE e == [r EXCEPT !.disp = d]
<1>1. e \in Worlds /\ e.disp = d /\ e.con = r.con /\ e.vga = r.vga
  BY WithDisp DEF Ready, Drawn, Owned
<1> HIDE DEF e
<1>2. Safe(e)
  BY <1>1 DEF Safe, Ready, Drawn
<1>3. KeepsCon(w, e)
  BY <1>1 DEF KeepsCon, Ready
<1>4. ASSUME Sized(w), Loose(w), w.disp.fault = {}
      PROVE  Good(e)
  <2>1. Sized(r) /\ Matched(r.disp) /\ d.fault = {}
    BY <1>4 DEF Ready
  <2>2. Sized(e)
    BY <1>1, <2>1 DEF Sized, Remembered, Drawn, Shared
  <2>3. Matched(e.disp)
    BY <1>1, <2>1 DEF Drawn
  <2> QED
    BY <1>1, <2>1, <2>2, <2>3 DEF Good, Zoomed
<1> QED
  BY <1>2, <1>3, <1>4 DEF Updated, e

(* Drawing a text mode                                                     *)
LEMMA DrawTextModeUpdated ==
    ASSUME NEW w, Safe(w), w.con.active = "graphic"
    PROVE  Updated(w, vga_draw_text(w))
<1> DEFINE size == w.vga.size
           now == [size |-> size, depth |-> None]
           f == qemu_console_resize(w, size)
           n == [f EXCEPT !.vga.last = now, !.vga.last_scr = size]
           r == IF w.vga.last = now THEN w ELSE n
           d == DrawInto(r.disp, size)
<1>1. vga_draw_text(w) = [r EXCEPT !.disp = d]
  BY DEF vga_draw_text
<1>2. size \in Sizes
  BY DEF Safe, Worlds, Vgas
<1>3. Ready(w, n, size)
  <2>1. Fitted(w, f, size)
    BY <1>2, ConsoleResizeFits
  <2> HIDE DEF f, size
  <2> QED
    BY <1>2, <2>1, FittedReady, Zenon
<1>4. w.vga.last = now => Ready(w, w, size)
  <2>1. now.size = size
    OBVIOUS
  <2> HIDE DEF now, size
  <2> QED
    BY <1>2, <2>1, SameReady
<1>5. Ready(w, r, size)
  BY <1>3, <1>4
<1> HIDE DEF r, size
<1>6. Owned(r.disp)
  BY <1>5 DEF Ready
<1>7. /\ Drawn(r.disp, d) /\ d.fault \in SUBSET (r.disp.fault \cup {"outside", "zoom"})
      /\ size = r.disp.surface.size => (Matched(r.disp) => d.fault = r.disp.fault)
  BY <1>2, <1>6, DrawIntoDrawn
<1> HIDE DEF d
<1> QED
  BY <1>1, <1>2, <1>5, <1>7, ReadyUpdated

(* Drawing a graphic mode                                                  *)
LEMMA DrawGraphicUpdated ==
    ASSUME NEW w, Safe(w), w.con.active = "graphic", NEW full \in BOOLEAN
    PROVE  Updated(w, vga_draw_graphic(w, full))
<1> DEFINE size == w.vga.size
           depth == w.vga.depth
           now == [size |-> size, depth |-> depth]
           f == IF depth \in {16, 32}
                THEN [w EXCEPT !.disp = ShareVram(@, size, depth)]
                ELSE qemu_console_resize(w, size)
           n == [f EXCEPT !.vga.last = now, !.vga.last_scr = size]
           x == [w EXCEPT !.disp = sdl_setdata(@)]
           r == IF w.vga.last # now THEN n
                ELSE IF Shared(w.disp) /\ full THEN x ELSE w
           d == IF Shared(r.disp) THEN sdl_update(r.disp) ELSE DrawInto(r.disp, size)
<1>1. vga_draw_graphic(w, full) = [r EXCEPT !.disp = d]
  BY DEF vga_draw_graphic
<1>2. size \in Sizes /\ depth \in Depths \cup {None}
  BY SMTT(20) DEF Safe, Worlds, Vgas
<1>3. Ready(w, n, size)
  <2>1. Fitted(w, f, size)
    <3>1. CASE depth \in {16, 32}
      <4>1. Fitted(w, [w EXCEPT !.disp = ShareVram(@, size, depth)], size)
        BY <1>2, <3>1, ShareVramFits, Zenon
      <4> QED
        BY <3>1, <4>1
    <3>2. CASE depth \notin {16, 32}
      <4>1. Fitted(w, qemu_console_resize(w, size), size)
        BY <1>2, ConsoleResizeFits
      <4> QED
        BY <3>2, <4>1
    <3> QED
      BY <3>1, <3>2
  <2> HIDE DEF f, size, depth
  <2> QED
    BY <1>2, <2>1, FittedReady, Zenon
<1>4. w.vga.last = now => Ready(w, w, size)
  <2>1. now.size = size
    OBVIOUS
  <2> HIDE DEF now, size
  <2> QED
    BY <1>2, <2>1, SameReady
<1>5. w.vga.last = now /\ Shared(w.disp) => Ready(w, x, size)
  <2> SUFFICES ASSUME w.vga.last = now, Shared(w.disp) PROVE Ready(w, x, size)
    OBVIOUS
  <2> HIDE DEF size
  <2> DEFINE e == sdl_setdata(w.disp)
  <2>1. w.disp \in Disps /\ Backed(w.disp) /\ ~w.disp.allocator /\ w \in Worlds
    BY DEF Safe, Owned, Backed, Shared
  <2>2. /\ Owned(e) /\ e.surface = w.disp.surface /\ e.real = w.disp.real
        /\ e.allocator = w.disp.allocator /\ SameFlags(w.disp, e)
    BY <2>1, SetDataOwned
  <2> HIDE DEF e
  <2>3. x \in Worlds /\ x.disp = e /\ x.con = w.con /\ x.vga = w.vga
    BY <2>1, <2>2, WithDisp DEF Owned, e
  <2> HIDE DEF x
  <2>4. Matched(w.disp) <=> Matched(e)
    BY <2>2 DEF Matched, SameFlags
  <2>5. Sized(w) => Sized(x)
    BY <2>2, <2>3 DEF Sized, Remembered, Shared
  <2>6. Ready(w, w, size)
    BY <1>4
  <2> QED
    BY <2>2, <2>3, <2>4, <2>5, <2>6 DEF Ready, KeepsCon, SameFlags
<1>6. Ready(w, r, size)
  BY <1>3, <1>4, <1>5
<1> HIDE DEF r, size
<1>7. Owned(r.disp)
  BY <1>6 DEF Ready
<1>8. /\ Drawn(r.disp, d) /\ d.fault \in SUBSET (r.disp.fault \cup {"outside", "zoom"})
      /\ size = r.disp.surface.size => (Matched(r.disp) => d.fault = r.disp.fault)
  <2> DEFINE a == sdl_update(r.disp)
             b == DrawInto(r.disp, size)
  <2>1. /\ Drawn(r.disp, a) /\ a.fault \in SUBSET (r.disp.fault \cup {"zoom"})
        /\ Matched(r.disp) => a.fault = r.disp.fault
    BY <1>7, UpdateDrawn
  <2>2. /\ Drawn(r.disp, b) /\ b.fault \in SUBSET (r.disp.fault \cup {"outside", "zoom"})
        /\ size = r.disp.surface.size => (Matched(r.disp) => b.fault = r.disp.fault)
    BY <1>2, <1>7, DrawIntoDrawn
  <2>3. d = a \/ d = b
    OBVIOUS
  <2> HIDE DEF a, b, d
  <2> QED
    BY <2>1, <2>2, <2>3
<1> HIDE DEF d
<1> QED
  BY <1>1, <1>2, <1>6, <1>8, ReadyUpdated

(* A blank display is cleared, whether the depths match or not.            *)
LEMMA DrawBlankUpdated ==
    ASSUME NEW w, Safe(w), w.con.active = "graphic", NEW full \in BOOLEAN,
           w.vga.graphic_mode = "blank"
    PROVE  Updated(w, vga_draw_blank(w, full))
<1> DEFINE size == w.vga.last_scr
           d == DrawInto(w.disp, size)
           e == [w EXCEPT !.disp = d]
<1>k. KeepsCon(w, w)
  BY DEF KeepsCon
<1>1. CASE ~(full /\ w.vga.last_scr > 0)
  <2>1. vga_draw_blank(w, full) = w
    BY <1>1 DEF vga_draw_blank
  <2>2. Sized(w) /\ Loose(w) /\ w.disp.fault = {} => Good(w)
    BY DEF Good, Loose, Zoomed, Blanked
  <2> QED
    BY <1>k, <2>1, <2>2 DEF Updated
<1>2. CASE full /\ w.vga.last_scr > 0
  <2>1. vga_draw_blank(w, full) = e
    BY <1>2 DEF vga_draw_blank
  <2>2. size \in Sizes
    BY <1>2 DEF Safe, Worlds, Vgas
  <2>3. Sized(w) => w.disp.surface.size = size
    BY <1>2 DEF Sized, Remembered
  <2> HIDE DEF size
  <2>4. /\ Drawn(w.disp, d) /\ d.fault \in SUBSET (w.disp.fault \cup {"outside", "zoom"})
        /\ size = w.disp.surface.size => d.fault \in SUBSET (w.disp.fault \cup {"zoom"})
    BY <2>2, DrawIntoDrawn DEF Safe
  <2> HIDE DEF d
  <2>5. e \in Worlds /\ e.disp = d /\ e.con = w.con /\ e.vga = w.vga
    BY <2>4, WithDisp DEF Safe, Drawn, Owned
  <2> HIDE DEF e
  <2>6. Safe(e)
    BY <2>4, <2>5 DEF Safe, Drawn
  <2>7. ASSUME Sized(w), Loose(w), w.disp.fault = {}
        PROVE  Good(e)
    <3>1. Sized(e)
      BY <2>4, <2>5, <2>7 DEF Sized, Remembered, Drawn, Shared
    <3>2. Zoomed(e) /\ Blanked(e)
      BY <2>4, <2>5, <2>7 DEF Loose, Zoomed, Blanked, Drawn
    <3>3. e.disp.fault \subseteq {"zoom"}
      BY <2>3, <2>4, <2>5, <2>7
    <3> QED
      BY <3>1, <3>2, <3>3 DEF Good
  <2>8. KeepsCon(w, e)
    BY <2>5 DEF KeepsCon
  <2> QED
    BY <2>1, <2>6, <2>7, <2>8 DEF Updated
<1> QED
  BY <1>1, <1>2

(* Any update                                                              *)
LEMMA DisplayUpdated ==
    ASSUME NEW w, Safe(w), w.con.active = "graphic", NEW moved \in BOOLEAN
    PROVE  Updated(w, vga_update_display(w, moved))
<1> DEFINE v == [w.vga EXCEPT !.graphic_mode = w.vga.mode]
           r == [w EXCEPT !.vga.graphic_mode = w.vga.mode]
           changed == w.vga.mode # w.vga.graphic_mode
           full == moved \/ changed
           e == vga_update_display(w, moved)
<1>w. w \in Worlds /\ w.vga.mode \in {"text", "graph", "blank"}
  BY DEF Safe, Worlds, Vgas
<1>1. r = [w EXCEPT !.vga = v]
  OBVIOUS
<1>2. /\ v \in Vgas /\ v.last = w.vga.last /\ v.last_scr = w.vga.last_scr
      /\ v.graphic_mode = w.vga.mode
  BY <1>w DEF Worlds, Vgas
<1> HIDE DEF v
<1>3. r \in Worlds /\ r.disp = w.disp /\ r.con = w.con /\ r.vga = v
  BY <1>w, <1>1, <1>2 DEF Worlds
<1>4. /\ w.vga.mode = "text" => e = vga_draw_text(r)
      /\ w.vga.mode = "graph" => e = vga_draw_graphic(r, full)
      /\ w.vga.mode = "blank" => e = vga_draw_blank(r, changed)
  BY DEF vga_update_display
<1>5. full \in BOOLEAN /\ changed \in BOOLEAN
  OBVIOUS
<1> HIDE DEF r, full, changed, e
<1>6. Safe(r) /\ r.con.active = "graphic"
  BY <1>3 DEF Safe
<1>7. Updated(r, e)
  <2>1. CASE w.vga.mode = "text"
    BY <1>4, <1>6, <2>1, DrawTextModeUpdated
  <2>2. CASE w.vga.mode = "graph"
    BY <1>4, <1>5, <1>6, <2>2, DrawGraphicUpdated
  <2>3. CASE w.vga.mode = "blank"
    <3>1. r.vga.graphic_mode = "blank"
      BY <1>2, <1>3, <2>3
    <3> QED
      BY <1>4, <1>5, <1>6, <2>3, <3>1, DrawBlankUpdated
  <2> QED
    BY <1>w, <2>1, <2>2, <2>3
<1>8. (Sized(w) => Sized(r)) /\ (Loose(w) => Loose(r))
  BY <1>2, <1>3 DEF Sized, Remembered, Loose
<1>9. KeepsCon(w, e)
  BY <1>3, <1>7 DEF Updated, KeepsCon
<1> QED
  BY <1>3, <1>7, <1>8, <1>9 DEF Updated, e

(* Making the next update a full one                                       *)
LEMMA Invalidated ==
    ASSUME NEW w, Safe(w), w.disp.fault = {}
    PROVE  LET i == vga_hw_invalidate(w)
           IN  /\ Safe(i) /\ KeepsCon(w, i)
               /\ Remembered(w) /\ Matched(w.disp) => Good(i)
               /\ w.con.active = "graphic" => /\ i.disp.fault = {}
                                              /\ Remembered(w) => Sized(i) /\ Loose(i)
<1> DEFINE i == vga_hw_invalidate(w)
<1>w. w \in Worlds /\ Owned(w.disp)
  BY DEF Safe
<1>1. CASE w.con.active = "graphic"
  <2> DEFINE l == [w.vga.last EXCEPT !.size = 0]
             v == [w.vga EXCEPT !.last = l]
  <2>1. i = [w EXCEPT !.vga = v]
    BY <1>1 DEF vga_hw_invalidate
  <2>2. l \in [size : Sizes \cup {0}, depth : Depths \cup {None}] /\ l.size = 0
    BY <1>w DEF Worlds, Vgas
  <2> HIDE DEF l
  <2>3. v \in Vgas /\ v.last = l /\ v.last_scr = w.vga.last_scr
    BY <1>w, <2>2 DEF Worlds, Vgas
  <2> HIDE DEF v
  <2>4. i \in Worlds /\ i.vga = v /\ i.disp = w.disp /\ i.con = w.con
    BY <1>w, <2>1, <2>3 DEF Worlds
  <2> HIDE DEF i
  <2>5. Safe(i) /\ KeepsCon(w, i) /\ Loose(i)
    BY <1>1, <2>2, <2>3, <2>4 DEF Safe, KeepsCon, Loose
  <2>6. Remembered(w) => Sized(i)
    BY <1>1, <2>2, <2>3, <2>4 DEF Sized, Remembered
  <2>7. Remembered(w) /\ Matched(w.disp) => Good(i)
    BY <2>4, <2>6 DEF Good, Zoomed
  <2> QED
    BY <2>4, <2>5, <2>6, <2>7 DEF i
<1>2. CASE w.con.active = "text"
  <2> DEFINE d == DrawText(w.disp)
  <2>1. i = [w EXCEPT !.disp = d]
    BY <1>2 DEF vga_hw_invalidate
  <2>2. /\ Drawn(w.disp, d) /\ d.fault \in SUBSET (w.disp.fault \cup {"outside", "zoom", "vram"})
        /\ StartSize = w.disp.surface.size /\ ~Shared(w.disp) /\ Matched(w.disp)
           => d.fault = w.disp.fault
    BY <1>w, DrawTextDrawn
  <2> HIDE DEF d
  <2>3. i \in Worlds /\ i.disp = d /\ i.con = w.con /\ i.vga = w.vga
    BY <1>w, <2>1, <2>2, WithDisp DEF Drawn, Owned
  <2> HIDE DEF i
  <2>4. Safe(i) /\ KeepsCon(w, i)
    BY <2>2, <2>3 DEF Safe, KeepsCon, Drawn
  <2>5. ASSUME Remembered(w), Matched(w.disp)
        PROVE  Good(i)
    <3>1. Sized(i)
      BY <1>2, <2>2, <2>3, <2>5 DEF Sized, Remembered, Drawn, Shared
    <3>2. Zoomed(i)
      BY <2>2, <2>3, <2>5 DEF Zoomed, Drawn
    <3>3. i.disp.fault = {}
      BY <1>2, <2>2, <2>3, <2>5 DEF Sized, Remembered
    <3> QED
      BY <3>1, <3>2, <3>3 DEF Good
  <2> QED
    BY <1>2, <2>4, <2>5 DEF i
<1> QED
  BY <1>w, <1>1, <1>2 DEF Worlds, Cons, Consoles

(* A display of which all is drawn again is left in good order if its      *)
(* surface has the right size, and the right depth if nothing will give it *)
(* one.                                                                    *)
LEMMA Redrawn ==
    ASSUME NEW w, Safe(w), w.disp.fault = {}, NEW moved \in BOOLEAN
    PROVE  LET e == vga_hw_update(vga_hw_invalidate(w), moved)
           IN  /\ Safe(e) /\ KeepsCon(w, e)
               /\ Sized(w) /\ (w.con.active = "graphic" \/ Matched(w.disp)) => Good(e)
<1> DEFINE i == vga_hw_invalidate(w)
           e == vga_hw_update(i, moved)
<1>1. /\ Safe(i) /\ KeepsCon(w, i)
      /\ Remembered(w) /\ Matched(w.disp) => Good(i)
      /\ w.con.active = "graphic" => /\ i.disp.fault = {}
                                     /\ Remembered(w) => Sized(i) /\ Loose(i)
  BY Invalidated
<1> HIDE DEF i
<1>2. CASE w.con.active = "graphic"
  <2>1. i.con.active = "graphic"
    BY <1>1, <1>2 DEF KeepsCon
  <2>2. e = vga_update_display(i, moved)
    BY <2>1 DEF vga_hw_update
  <2>3. Updated(i, e)
    BY <1>1, <2>1, <2>2, DisplayUpdated
  <2> HIDE DEF e
  <2>4. KeepsCon(w, e)
    BY <1>1, <2>3 DEF KeepsCon, Updated
  <2> QED
    BY <1>1, <1>2, <2>3, <2>4 DEF Updated, Sized, e, i
<1>3. CASE w.con.active # "graphic"
  <2>1. e = i
    BY <1>1, <1>3 DEF vga_hw_update, KeepsCon
  <2> QED
    BY <1>1, <1>3, <2>1 DEF Sized, i
<1> QED
  BY <1>2, <1>3

-----------------------------------------------------------------------------
(* The inductive invariant                                                 *)
Here == [disp |-> disp, con |-> con, vga |-> vga]
SurfaceInv == Safe(Here) /\ (~con.dumped => Good(Here))

(* The world an action starts from                                         *)
LEMMA WorldStarts ==
    ASSUME SurfaceInv
    PROVE  /\ Safe(World) /\ World.disp.fault = {} /\ World.con = con /\ World.vga = vga
           /\ World.disp.real = disp.real /\ World.disp.fullscreen = disp.fullscreen
           /\ ~con.dumped => Sized(World) /\ Zoomed(World)
<1> DEFINE d == [disp EXCEPT !.fault = {}]
<1>1. disp \in Disps /\ con \in Cons /\ vga \in Vgas /\ Owned(disp)
  BY DEF SurfaceInv, Safe, Here, Worlds
<1>2. Drawn(disp, d) /\ d.fault = {}
  BY <1>1, FaultOnly
<1>3. World = [disp |-> d, con |-> con, vga |-> vga]
  BY DEF World
<1>f. d.fullscreen = disp.fullscreen
  BY <1>1 DEF Disps
<1> HIDE DEF d
<1>4. World \in Worlds /\ World.disp = d /\ World.con = con /\ World.vga = vga
  BY <1>1, <1>2, <1>3 DEF Worlds, Drawn, Owned
<1>5. Safe(World)
  BY <1>2, <1>4 DEF Safe, Drawn
<1>6. Sized(Here) => Sized(World)
  BY <1>2, <1>4 DEF Sized, Remembered, Here, Drawn, Shared
<1>7. Zoomed(Here) => Zoomed(World)
  BY <1>2, <1>4 DEF Zoomed, Here, Drawn, Blanked
<1> QED
  BY <1>2, <1>4, <1>5, <1>6, <1>7, <1>f DEF SurfaceInv, Good, Drawn

(* ... and the one it ends in                                              *)
LEMMA WorldEnds ==
    ASSUME NEW e, Becomes(e), Safe(e), ~e.con.dumped => Good(e)
    PROVE  SurfaceInv'
<1>1. disp' = e.disp /\ con' = e.con /\ vga' = e.vga
  BY DEF Becomes
<1>2. e.disp \in Disps /\ e.con \in Cons /\ e.vga \in Vgas
  BY DEF Safe, Worlds
<1>3. Safe(Here)'
  BY <1>1, <1>2 DEF Safe, Here, Worlds
<1>4. Good(e) => Good(Here)'
  BY <1>1 DEF Good, Sized, Remembered, Zoomed, Blanked, Here
<1> QED
  BY <1>1, <1>3, <1>4 DEF SurfaceInv

(* The first surface is the window, and nothing was drawn yet.             *)
LEMMA SurfaceInit == Init => SurfaceInv
<1> SUFFICES ASSUME Init PROVE SurfaceInv
  OBVIOUS
<1>1. HostDepth \in {16, 32} /\ StartSize \in Sizes /\ 0 \notin Sizes
  BY SurfaceAssumption DEF HostDepth
<1> DEFINE s == [kind |-> "real", data |-> "pixels", size |-> StartSize, bpp |-> HostDepth]
           r == [size |-> StartSize, bpp |-> HostDepth]
<1>2. /\ s \in Surfaces /\ s.kind = "real" /\ s.data = "pixels" /\ r \in Reals
  BY <1>1 DEF Surfaces, Memory, Reals
<1>3. disp = [real |-> r, surface |-> s, guest_screen |-> None, allocator |-> TRUE,
              scaling |-> FALSE, fullscreen |-> FALSE, fault |-> {}]
  BY DEF Init
<1> HIDE DEF s, r
<1>4. /\ disp \in Disps /\ disp.surface = s /\ disp.allocator /\ disp.guest_screen = None
      /\ disp.fault = {} /\ ~disp.scaling
  BY <1>2, <1>3 DEF Disps
<1>5. Owned(disp) /\ Matched(disp)
  BY <1>2, <1>4 DEF Owned, Backed, Matched
<1>6. con \in Cons /\ con.active = "graphic" /\ con.size["text"] = StartSize
  BY <1>1 DEF Init, Cons, Consoles
<1>7. vga \in Vgas /\ vga.last.size = 0 /\ vga.last_scr = 0
  <2> PICK m \in {"text", "graph", "blank"}, b \in Depths, z \in Sizes :
          vga = [mode |-> m, depth |-> b, size |-> z, graphic_mode |-> None,
                 last |-> [size |-> 0, depth |-> None], last_scr |-> 0]
    BY DEF Init
  <2> DEFINE l == [size |-> 0, depth |-> None]
  <2>1. l \in [size : Sizes \cup {0}, depth : Depths \cup {None}] /\ l.size = 0
    OBVIOUS
  <2>2. vga = [mode |-> m, depth |-> b, size |-> z, graphic_mode |-> None,
               last |-> l, last_scr |-> 0]
    OBVIOUS
  <2> HIDE DEF l
  <2> QED
    BY <2>1, <2>2 DEF Vgas
<1>8. Safe(Here)
  BY <1>4, <1>5, <1>6, <1>7 DEF Safe, Here, Worlds
<1>9. Good(Here)
  BY <1>4, <1>5, <1>6, <1>7 DEF Good, Sized, Remembered, Zoomed, Here
<1> QED
  BY <1>8, <1>9 DEF SurfaceInv

-----------------------------------------------------------------------------
(* Every action preserves it.  One lemma per action follows.               *)

(* The guest sets a mode: what was last drawn is kept.                     *)
LEMMA SetsModeStep ==
    ASSUME SurfaceInv, NEW m \in {"text", "graph", "blank"}, NEW b \in Depths,
           NEW s \in Sizes, GuestSetsMode(m, b, s)
    PROVE  SurfaceInv'
<1>1. disp \in Disps /\ con \in Cons /\ vga \in Vgas
  BY DEF SurfaceInv, Safe, Here, Worlds
<1>2. disp' = disp /\ con' = con
  BY DEF GuestSetsMode
<1>3. /\ vga' \in Vgas /\ vga'.last = vga.last /\ vga'.last_scr = vga.last_scr
      /\ vga'.graphic_mode = vga.graphic_mode
  BY <1>1, Zenon DEF GuestSetsMode, Vgas
<1>4. Safe(Here)'
  BY <1>1, <1>2, <1>3 DEF SurfaceInv, Safe, Here, Worlds
<1>5. Good(Here) => Good(Here)'
  BY <1>2, <1>3 DEF Good, Sized, Remembered, Zoomed, Blanked, Here
<1> QED
  BY <1>2, <1>4, <1>5 DEF SurfaceInv

(* After a reset nothing is remembered as drawn, so any surface will do.   *)
LEMMA ResetStep ==
    ASSUME SurfaceInv, vga_reset
    PROVE  SurfaceInv'
<1>1. disp \in Disps /\ con \in Cons /\ vga \in Vgas
  BY DEF SurfaceInv, Safe, Here, Worlds
<1>2. disp' = disp /\ con' = con
  BY DEF vga_reset
<1> DEFINE l == [vga.last EXCEPT !.size = 0]
<1>3. l \in [size : Sizes \cup {0}, depth : Depths \cup {None}] /\ l.size = 0
  BY <1>1 DEF Vgas
<1>4. vga' = [vga EXCEPT !.mode = "blank", !.graphic_mode = None, !.last = l, !.last_scr = 0]
  BY <1>1 DEF vga_reset, Vgas
<1> HIDE DEF l
<1>5. /\ vga' \in Vgas /\ vga'.last.size = 0 /\ vga'.last_scr = 0
      /\ vga'.graphic_mode = None
  BY <1>1, <1>3, <1>4, Zenon DEF Vgas
<1>6. Safe(Here)'
  BY <1>1, <1>2, <1>5 DEF SurfaceInv, Safe, Here, Worlds
<1>7. Good(Here) => Good(Here)'
  BY <1>2, <1>5 DEF Good, Sized, Remembered, Zoomed, Blanked, Here
<1> QED
  BY <1>2, <1>6, <1>7 DEF SurfaceInv

(* The timer updates the guest's display, or nothing.                      *)
LEMMA RefreshStep ==
    ASSUME SurfaceInv, NEW moved \in BOOLEAN, sdl_refresh(moved)
    PROVE  SurfaceInv'
<1> DEFINE w == World
           e == vga_hw_update(w, moved)
<1>1. /\ Safe(w) /\ w.disp.fault = {} /\ w.con = con /\ w.vga = vga
      /\ ~con.dumped => Sized(w) /\ Zoomed(w)
  BY WorldStarts
<1>2. Becomes(e)
  BY DEF sdl_refresh
<1> HIDE DEF w
<1>3. Safe(e) /\ e.con.dumped = con.dumped /\ (~con.dumped => Good(e))
  <2>1. CASE w.con.active = "graphic"
    <3>1. e = vga_update_display(w, moved)
      BY <2>1 DEF vga_hw_update
    <3>2. Updated(w, e)
      BY <1>1, <2>1, <3>1, DisplayUpdated
    <3> HIDE DEF e
    <3>3. Zoomed(w) => Loose(w)
      BY DEF Zoomed, Loose
    <3> QED
      BY <1>1, <3>2, <3>3 DEF Updated, KeepsCon
  <2>2. CASE w.con.active # "graphic"
    <3>1. e = w
      BY <2>2 DEF vga_hw_update
    <3> HIDE DEF e
    <3> QED
      BY <1>1, <3>1 DEF Good
  <2> QED
    BY <2>1, <2>2
<1> HIDE DEF e
<1> QED
  BY <1>2, <1>3, WorldEnds

(* An exposed window is blitted as it is.                                  *)
LEMMA ExposeStep ==
    ASSUME SurfaceInv, Expose
    PROVE  SurfaceInv'
<1> DEFINE w == World
           d == sdl_update(w.disp)
           e == [w EXCEPT !.disp = d]
<1>1. /\ Safe(w) /\ w.disp.fault = {} /\ w.con = con /\ w.vga = vga
      /\ ~con.dumped => Sized(w) /\ Zoomed(w)
  BY WorldStarts
<1>2. Becomes(e)
  BY DEF Expose
<1> HIDE DEF w
<1>3. /\ Drawn(w.disp, d) /\ d.fault \in SUBSET (w.disp.fault \cup {"zoom"})
      /\ Matched(w.disp) => d.fault = w.disp.fault
  BY <1>1, UpdateDrawn DEF Safe
<1> HIDE DEF d
<1>4. e \in Worlds /\ e.disp = d /\ e.con = w.con /\ e.vga = w.vga
  BY <1>1, <1>3, WithDisp DEF Safe, Drawn, Owned
<1> HIDE DEF e
<1>5. Safe(e)
  BY <1>1, <1>3, <1>4 DEF Safe, Drawn
<1>6. Sized(w) => Sized(e)
  BY <1>3, <1>4 DEF Sized, Remembered, Drawn, Shared
<1>7. Zoomed(w) => Zoomed(e) /\ ("zoom" \in e.disp.fault => Blanked(e))
  BY <1>1, <1>3, <1>4 DEF Zoomed, Drawn, Blanked
<1>8. ~e.con.dumped => Good(e)
  BY <1>1, <1>3, <1>4, <1>6, <1>7 DEF Good
<1> QED
  BY <1>2, <1>5, <1>8, WorldEnds

(* The text console finds its own surface, of the right size and depth.    *)
LEMMA PutsStep ==
    ASSUME SurfaceInv, console_puts
    PROVE  SurfaceInv'
<1> DEFINE w == World
           e == vga_hw_invalidate(w)
<1>1. /\ Safe(w) /\ w.disp.fault = {} /\ w.con = con
      /\ ~con.dumped => Sized(w) /\ Zoomed(w)
  BY WorldStarts
<1>2. Becomes([w EXCEPT !.disp = DrawText(@)]) /\ con.active = "text"
  BY DEF console_puts
<1> HIDE DEF w
<1>3. e = [w EXCEPT !.disp = DrawText(@)]
  BY <1>1, <1>2 DEF vga_hw_invalidate
<1>4. Safe(e) /\ KeepsCon(w, e) /\ (Remembered(w) /\ Matched(w.disp) => Good(e))
  BY <1>1, Invalidated
<1>5. Zoomed(w) => Matched(w.disp)
  BY <1>1, <1>2 DEF Zoomed
<1> HIDE DEF e
<1>6. Becomes(e) /\ (~e.con.dumped => Good(e))
  BY <1>1, <1>2, <1>3, <1>4, <1>5 DEF KeepsCon, Sized
<1> QED
  BY <1>4, <1>6, WorldEnds

(* The display is drawn again with another one of the same size.           *)
LEMMA RedrawStep ==
    ASSUME SurfaceInv, NEW moved \in BOOLEAN, NEW d, Owned(d), d.fault = {},
           Redraw([World EXCEPT !.disp = d], moved),
           d.surface.size = World.disp.surface.size,
           Shared(d) => Shared(World.disp),
           con.active = "text" /\ ~con.dumped => Matched(d)
    PROVE  SurfaceInv'
<1> DEFINE w == World
           r == [w EXCEPT !.disp = d]
           e == vga_hw_update(vga_hw_invalidate(r), moved)
<1>1. /\ Safe(w) /\ w.con = con
      /\ ~con.dumped => Sized(w)
  BY WorldStarts
<1>2. Becomes(e)
  BY DEF Redraw
<1>3. r \in Worlds /\ r.disp = d /\ r.con = w.con /\ r.vga = w.vga
  BY <1>1, WithDisp DEF Safe, Owned
<1>4. Safe(r) /\ r.disp.fault = {}
  BY <1>3 DEF Safe
<1>5. Sized(w) => Sized(r)
  BY <1>3 DEF Sized, Remembered
<1>6. ~con.dumped => r.con.active = "graphic" \/ Matched(r.disp)
  BY <1>1, <1>3 DEF Safe, Worlds, Cons, Consoles
<1> HIDE DEF r
<1>7. /\ Safe(e) /\ KeepsCon(r, e)
      /\ Sized(r) /\ (r.con.active = "graphic" \/ Matched(r.disp)) => Good(e)
  BY <1>4, Redrawn
<1> HIDE DEF e
<1>8. ~e.con.dumped => Good(e)
  BY <1>1, <1>3, <1>5, <1>6, <1>7 DEF KeepsCon
<1> QED
  BY <1>2, <1>7, <1>8, WorldEnds

(* Full screen keeps size and depth of the window, hence its pixels.       *)
LEMMA FullScreenStep ==
    ASSUME SurfaceInv, NEW moved \in BOOLEAN, toggle_full_screen(moved)
    PROVE  SurfaceInv'
<1> DEFINE w == World.disp
           d == [w EXCEPT !.fullscreen = ~@, !.scaling = @ /\ disp.fullscreen]
           e == SetVideoMode(d, d.real.size, d.real.bpp)
<1>1. /\ Owned(w) /\ w.fault = {}
      /\ ~con.dumped => Zoomed(World)
      /\ World.con = con /\ w.fullscreen = disp.fullscreen
  BY WorldStarts DEF Safe
<1>2. Redraw([World EXCEPT !.disp = e], moved)
  BY DEF toggle_full_screen
<1>3. con.active = "text" /\ ~con.dumped => Matched(w)
  BY <1>1 DEF Zoomed
<1> HIDE DEF w
<1>4. /\ d \in Disps /\ d.real = w.real /\ d.surface = w.surface /\ d.fault = w.fault
      /\ d.guest_screen = w.guest_screen
  BY <1>1, Zenon DEF Owned, Disps
<1>5. d.allocator = w.allocator /\ (d.scaling => w.scaling)
  BY <1>1 DEF Owned, Disps
<1> HIDE DEF d
<1>6. d.real.size \in Sizes /\ d.real.bpp \in {16, 24, 32} /\ d.real \in Reals
  BY <1>4 DEF Disps, Reals
<1>7. ModeSet(d, d.real.size, d.real.bpp, e)
  BY <1>4, <1>6, SetModeFields
<1> HIDE DEF e
<1>8. e.real = d.real
  <2>1. e.real \in Reals
    BY <1>7 DEF ModeSet, Disps
  <2>2. e.real.size = d.real.size /\ e.real.bpp = d.real.bpp
    BY <1>6, <1>7 DEF ModeSet
  <2> QED
    BY <1>6, <2>1, <2>2 DEF Reals
<1>9. /\ e \in Disps /\ e.surface = w.surface /\ e.guest_screen = w.guest_screen
      /\ e.allocator = w.allocator /\ (e.scaling => w.scaling) /\ e.fault = {}
  BY <1>1, <1>4, <1>5, <1>7, <1>8 DEF ModeSet, SameFlags
<1>10. Owned(e)
  BY <1>1, <1>9 DEF Owned, Backed
<1>11. con.active = "text" /\ ~con.dumped => Matched(e)
  BY <1>3, <1>4, <1>8, <1>9 DEF Matched
<1> QED
  BY <1>2, <1>9, <1>10, <1>11, RedrawStep DEF w, Shared

(* Unscaling resizes the window to the surface.                            *)
LEMMA UnscaleStep ==
    ASSUME SurfaceInv, NEW moved \in BOOLEAN, Unscale(moved)
    PROVE  SurfaceInv'
<1> DEFINE w == World.disp
           d == [w EXCEPT !.scaling = FALSE]
           e == sdl_resize(d)
<1>1. Owned(w) /\ w.fault = {}
  BY WorldStarts DEF Safe
<1>2. Redraw([World EXCEPT !.disp = e], moved)
  BY DEF Unscale
<1> HIDE DEF w
<1>3. /\ d \in Disps /\ d.surface = w.surface /\ d.fault = w.fault
      /\ d.allocator = w.allocator
  BY <1>1, Zenon DEF Owned, Disps
<1> HIDE DEF d
<1>4. Backed(d)
  BY <1>1, <1>3 DEF Owned, Backed
<1>5. Owned(e) /\ Matched(e) /\ e.surface = d.surface /\ SameFlags(d, e)
  BY <1>3, <1>4, ResizeOwned
<1> HIDE DEF e
<1> QED
  BY <1>1, <1>2, <1>3, <1>5, RedrawStep DEF w, Shared, SameFlags

(* A resize of the window replaces a surface drawn in its pixels.          *)
LEMMA VideoResizeStep ==
    ASSUME SurfaceInv, NEW size \in Sizes, NEW moved \in BOOLEAN,
           VideoResize(size, moved)
    PROVE  SurfaceInv'
<1> DEFINE w == World.disp
           bpp == IF disp.real.bpp \in {16, 32} THEN disp.real.bpp ELSE 32
           m == SetVideoMode(w, size, bpp)
           d == [m EXCEPT !.scaling = TRUE]
           n == sdl_resize(sdl_resize_displaysurface(d, d.surface.size))
           e == IF Shared(d) THEN d ELSE n
<1>1. /\ Owned(w) /\ w \in Disps /\ w.fault = {} /\ World.con = con
      /\ ~con.dumped => Sized(World)
  BY WorldStarts DEF Safe, Owned
<1>2. Redraw([World EXCEPT !.disp = e], moved)
  BY DEF VideoResize
<1>3. con.active = "text" /\ ~con.dumped => ~Shared(w)
  BY <1>1 DEF Sized, Remembered
<1>4. bpp \in {16, 32}
  OBVIOUS
<1> HIDE DEF w, bpp
<1>5. ModeSet(w, size, bpp, m)
  BY <1>1, <1>4, SetModeFields
<1> HIDE DEF m
<1>6. /\ d \in Disps /\ d.surface = m.surface /\ d.fault = m.fault
      /\ d.guest_screen = m.guest_screen
  BY <1>5, Zenon DEF ModeSet, Disps
<1>7. d.allocator = m.allocator
  BY <1>5 DEF ModeSet, Disps
<1> HIDE DEF d
<1>8. d.surface.size = w.surface.size /\ (Shared(d) <=> Shared(w)) /\ d.fault = {}
  BY <1>1, <1>5, <1>6 DEF ModeSet, SameFlags, Shared
<1>9. Shared(d) => Owned(d)
  <2> SUFFICES ASSUME Shared(d) PROVE Owned(d)
    OBVIOUS
  <2>1. w.surface.kind = "shared" /\ w.surface.data = "vram" /\ ~w.allocator
    BY <1>1, <1>8 DEF Owned, Backed, Shared
  <2>2. w.guest_screen = Wrap(w.surface) /\ Wrap(w.surface).data = "vram"
    BY <1>1, <2>1 DEF Owned, Wrap
  <2>3. \/ w.guest_screen = None
        \/ w.guest_screen \in Screens /\ w.guest_screen.data # "pixels"
    BY <1>1, <2>2 DEF Disps
  <2>4. d.surface = w.surface /\ d.guest_screen = w.guest_screen /\ ~d.allocator
    BY <1>5, <1>6, <1>7, <2>1, <2>3 DEF ModeSet
  <2> QED
    BY <1>6, <2>1, <2>2, <2>4 DEF Owned, Backed
<1>10. /\ Owned(n) /\ Matched(n) /\ n.surface.size = d.surface.size
       /\ ~Shared(n) /\ SameFlags(d, n)
  <2>1. d.surface.size \in Sizes
    BY <1>6 DEF Disps, Surfaces
  <2> QED
    BY <1>6, <2>1, NewSurfaceOwned
<1> HIDE DEF n
<1>11. /\ Owned(e) /\ e.fault = {} /\ e.surface.size = w.surface.size
       /\ Shared(e) => Shared(w)
       /\ con.active = "text" /\ ~con.dumped => Matched(e)
  BY <1>3, <1>8, <1>9, <1>10 DEF SameFlags
<1> HIDE DEF e
<1> QED
  BY <1>2, <1>11, RedrawStep DEF w

(* The console selected gets a surface of the size remembered for it.      *)
LEMMA SelectStep ==
    ASSUME SurfaceInv, NEW c \in Consoles, Select(c)
    PROVE  SurfaceInv'
<1> DEFINE w == World
           size == [w.con.size EXCEPT ![w.con.active] = w.disp.surface.size]
           k == [w.con EXCEPT !.active = c, !.size = size]
           d == sdl_resize(sdl_resize_displaysurface(w.disp, size[c]))
           r == [w EXCEPT !.con = k, !.disp = d]
           e == vga_hw_invalidate(r)
<1>1. /\ Safe(w) /\ w.disp.fault = {} /\ w.con = con /\ w.vga = vga
      /\ ~con.dumped => Sized(w)
  BY WorldStarts
<1> HIDE DEF w
<1>w. w \in Worlds /\ w.disp \in Disps /\ w.con \in Cons /\ w.disp.surface.size \in Sizes
  BY <1>1 DEF Safe, Worlds, Disps, Surfaces
<1>2. Becomes(e)
  <2>1. Becomes(console_select(w, c))
    BY DEF Select, w
  <2>2. [w EXCEPT !.con.active = c, !.con.size = size, !.disp = d] = r
    BY <1>w, Zenon DEF Worlds, Cons
  <2> QED
    BY <2>1, <2>2 DEF console_select
<1>3. /\ size \in [Consoles -> Sizes] /\ size[c] \in Sizes
      /\ size[w.con.active] = w.disp.surface.size
      /\ \A x \in Consoles : x # w.con.active => size[x] = w.con.size[x]
  BY <1>w DEF Cons
<1> HIDE DEF size
<1>4. k \in Cons /\ k.active = c /\ k.size = size /\ k.dumped = con.dumped
  BY <1>1, <1>w, <1>3, Zenon DEF Cons
<1> HIDE DEF k
<1>5. /\ Owned(d) /\ Matched(d) /\ d.surface.size = size[c]
      /\ ~Shared(d) /\ SameFlags(w.disp, d)
  BY <1>w, <1>3, NewSurfaceOwned
<1> HIDE DEF d
<1>6. r \in Worlds /\ r.con = k /\ r.disp = d /\ r.vga = w.vga
  BY <1>w, <1>4, <1>5, Zenon DEF Worlds, Owned
<1> HIDE DEF r
<1>7. Safe(r) /\ r.disp.fault = {}
  BY <1>1, <1>5, <1>6 DEF Safe, SameFlags
<1>8. Sized(w) => Remembered(r)
  <2> SUFFICES ASSUME Sized(w) PROVE Remembered(r)
    OBVIOUS
  <2>1. "text" \in Consoles /\ "graphic" \in Consoles /\ (c = "text" \/ c = "graphic")
    BY DEF Consoles
  <2>2. size["text"] = StartSize
    BY <1>3, <2>1 DEF Sized, Remembered
  <2>3. w.vga.last_scr > 0 => size["graphic"] = w.vga.last_scr
    BY <1>w, <1>3, <2>1 DEF Sized, Remembered, Cons, Consoles
  <2> QED
    BY <1>4, <1>5, <1>6, <2>1, <2>2, <2>3 DEF Sized, Remembered
<1>9. Safe(e) /\ KeepsCon(r, e) /\ (Remembered(r) /\ Matched(r.disp) => Good(e))
  BY <1>7, Invalidated
<1> HIDE DEF e
<1>10. ~e.con.dumped => Good(e)
  BY <1>1, <1>4, <1>5, <1>6, <1>8, <1>9 DEF KeepsCon
<1> QED
  BY <1>2, <1>9, <1>10, WorldEnds

(* A dump updates the guest's display, whichever console is active.        *)
LEMMA DumpStep ==
    ASSUME SurfaceInv, NEW moved \in BOOLEAN, vga_hw_screen_dump(moved)
    PROVE  SurfaceInv'
<1> DEFINE w == World
           l == [w.vga.last EXCEPT !.size = 0]
           v == [w.vga EXCEPT !.last = l]
           g == [w.con EXCEPT !.active = "graphic"]
           r == [w EXCEPT !.con = g, !.vga = v]
           u == vga_update_display(r, moved)
           k == [u.con EXCEPT !.active = con.active,
                              !.dumped = u.con.dumped \/ con.active = "text"]
           e == [u EXCEPT !.con = k]
<1>1. /\ Safe(w) /\ w.disp.fault = {} /\ w.con = con /\ w.vga = vga
      /\ ~con.dumped => Sized(w) /\ Zoomed(w)
  BY WorldStarts
<1> HIDE DEF w
<1>w. w \in Worlds /\ Owned(w.disp) /\ con \in Cons /\ w.vga \in Vgas
  BY <1>1 DEF Safe, Worlds
<1>2. Becomes([u EXCEPT !.con.active = con.active,
                        !.con.dumped = @ \/ con.active = "text"])
  <2>1. r = [w EXCEPT !.con.active = "graphic", !.vga.last.size = 0]
    BY <1>w DEF Worlds, Vgas
  <2> QED
    BY <2>1 DEF vga_hw_screen_dump, w
<1>3. l \in [size : Sizes \cup {0}, depth : Depths \cup {None}] /\ l.size = 0
  BY <1>w DEF Vgas
<1> HIDE DEF l
<1>4. v \in Vgas /\ v.last = l /\ v.last_scr = w.vga.last_scr
  BY <1>w, <1>3 DEF Vgas
<1> HIDE DEF v
<1>5. g \in Cons /\ g.active = "graphic" /\ g.size = con.size /\ g.dumped = con.dumped
  BY <1>1, <1>w DEF Cons, Consoles
<1> HIDE DEF g
<1>6. r \in Worlds /\ r.disp = w.disp /\ r.con = g /\ r.vga = v
  BY <1>w, <1>4, <1>5, Zenon DEF Worlds
<1> HIDE DEF r
<1>7. Safe(r) /\ r.con.active = "graphic"
  BY <1>1, <1>5, <1>6 DEF Safe
<1>8. Updated(r, u)
  BY <1>7, DisplayUpdated
<1> HIDE DEF u
<1>9. u \in Worlds /\ u.con \in Cons /\ Owned(u.disp) /\ u.con.active = "graphic"
  BY <1>7, <1>8 DEF Updated, Safe, Worlds, KeepsCon
<1>10. Becomes(e)
  <2>1. e = [u EXCEPT !.con.active = con.active,
                      !.con.dumped = @ \/ con.active = "text"]
    BY <1>9, Zenon DEF Worlds, Cons
  <2> QED
    BY <1>2, <2>1
<1>11. k \in Cons /\ k.active = con.active /\ k.size = u.con.size
  BY <1>w, <1>9, Zenon DEF Cons
<1>12. k.dumped = (con.dumped \/ con.active = "text")
  BY <1>5, <1>6, <1>8, <1>9 DEF Cons, Updated, KeepsCon
<1> HIDE DEF k
<1>13. e \in Worlds /\ e.disp = u.disp /\ e.con = k /\ e.vga = u.vga
  BY <1>9, <1>11 DEF Worlds
<1> HIDE DEF e
<1>14. Safe(e)
  BY <1>8, <1>13 DEF Safe, Updated
<1>15. ASSUME ~e.con.dumped PROVE Good(e)
  <2>1. ~con.dumped /\ con.active = "graphic"
    BY <1>w, <1>12, <1>13, <1>15, Zenon DEF Cons, Consoles
  <2>2. Sized(r) /\ Loose(r)
    BY <1>1, <1>3, <1>4, <1>5, <1>6, <2>1 DEF Sized, Remembered, Loose
  <2>3. Good(u)
    BY <1>1, <1>6, <1>8, <2>2 DEF Updated
  <2> QED
    BY <1>9, <1>11, <1>13, <2>1, <2>3 DEF Good, Sized, Remembered, Zoomed, Blanked
<1> QED
  BY <1>10, <1>14, <1>15, WorldEnds

(* Hence every step does.                                                  *)
LEMMA SurfaceNext == SurfaceInv /\ [Next]_vars => SurfaceInv'
<1> SUFFICES ASSUME SurfaceInv, [Next]_vars PROVE SurfaceInv'
  OBVIOUS
<1>1. CASE \E m \in {"text", "graph", "blank"}, b \in Depths, s \in Sizes :
              GuestSetsMode(m, b, s)
  BY <1>1, SetsModeStep
<1>2. CASE vga_reset
  BY <1>2, ResetStep
<1>3. CASE Expose
  BY <1>3, ExposeStep
<1>4. CASE console_puts
  BY <1>4, PutsStep
<1>5. CASE \E c \in Consoles : Select(c)
  BY <1>5, SelectStep
<1>6. ASSUME NEW moved \in BOOLEAN,
             \/ sdl_refresh(moved) \/ toggle_full_screen(moved) \/ Unscale(moved)
             \/ vga_hw_screen_dump(moved)
             \/ \E size \in Sizes : VideoResize(size, moved)
      PROVE  SurfaceInv'
  BY <1>6, RefreshStep, FullScreenStep, UnscaleStep, DumpStep, VideoResizeStep
<1>7. CASE UNCHANGED vars
  <2>1. disp' = disp /\ con' = con /\ vga' = vga
    BY <1>7 DEF vars
  <2>2. (Safe(Here) => Safe(Here)') /\ (Good(Here) => Good(Here)')
    BY <2>1 DEF Here, Safe, Good, Sized, Remembered, Zoomed, Blanked
  <2> QED
    BY <2>1, <2>2 DEF SurfaceInv
<1> QED
  BY <1>1, <1>2, <1>3, <1>4, <1>5, <1>6, <1>7 DEF Next

-----------------------------------------------------------------------------
(* The invariant holds in every reachable state, for any set of sizes, any *)
(* depths the adapter may have and any depth of the host.                  *)
THEOREM SurfaceInvariant == Spec => []SurfaceInv
<1>1. Init => SurfaceInv
  BY SurfaceInit
<1>2. SurfaceInv /\ [Next]_vars => SurfaceInv'
  BY SurfaceNext
<1> QED
  BY <1>1, <1>2, PTL DEF Spec

(* The variables keep their types.                                         *)
THEOREM SurfaceTypeOK == Spec => []TypeOK
<1>1. SurfaceInv => TypeOK
  <2> SUFFICES ASSUME SurfaceInv PROVE TypeOK
    OBVIOUS
  <2>1. disp \in Disps /\ con \in Cons /\ vga \in Vgas
    BY DEF SurfaceInv, Safe, Here, Worlds
  <2>2. Reals \subseteq [size : Sizes, bpp : Bpps]
    BY DEF Reals, Bpps
  <2>3. Surfaces \subseteq [kind : {"real", "allocated", "shared"},
                            data : Memory, size : Sizes, bpp : Bpps]
    BY DEF Surfaces, Bpps
  <2>4. disp \in [real : [size : Sizes, bpp : Bpps],
                  surface : [kind : {"real", "allocated", "shared"},
                             data : Memory, size : Sizes, bpp : Bpps],
                  guest_screen : Screens \cup {None},
                  allocator : BOOLEAN, scaling : BOOLEAN, fullscreen : BOOLEAN,
                  fault : SUBSET Faults]
    BY <2>1, <2>2, <2>3 DEF Disps
  <2> QED
    BY <2>1, <2>4 DEF TypeOK, Faults, Cons, Vgas
<1> QED
  BY <1>1, SurfaceInvariant, PTL

(* sdl_resize, told by the flag allocator, never confuses a surface drawn  *)
(* in the window's pixels with one that has memory of its own, and         *)
(* guest_screen always wraps the surface that is current.                  *)
THEOREM SurfaceOwnerKnown == Spec => []OwnerKnown
<1>1. SurfaceInv => OwnerKnown
  BY DEF SurfaceInv, Safe, Owned, Backed, Wrap, Here, OwnerKnown
<1> QED
  BY <1>1, SurfaceInvariant, PTL

(* No update, redraw or blit of sdl.c, console.c or vga.c goes through a   *)
(* pointer to pixels or memory that was freed.                             *)
THEOREM SurfaceNoDangling == Spec => []NoDangling
<1>1. SurfaceInv => NoDangling
  BY DEF SurfaceInv, Safe, Here, NoDangling
<1> QED
  BY <1>1, SurfaceInvariant, PTL

(* Until the screen is dumped behind a text console, what is drawn fits    *)
(* the surface and the text console does not draw in the guest's memory.   *)
THEOREM SurfaceDrawInside == Spec => []DrawInside
<1>1. SurfaceInv => DrawInside
  BY DEF SurfaceInv, Good, Here, DrawInside
<1> QED
  BY <1>1, SurfaceInvariant, PTL

(* Until then, sdl_zoom_blit finds two surfaces of one depth whenever the  *)
(* display is not blanked.                                                 *)
THEOREM SurfaceZoomPossible == Spec => []ZoomPossible
<1>1. SurfaceInv => ZoomPossible
  BY DEF SurfaceInv, Good, Blanked, Here, ZoomPossible
<1> QED
  BY <1>1, SurfaceInvariant, PTL

=============================================================================
