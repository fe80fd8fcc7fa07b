--------------------------------- MODULE Ui ----------------------------------
(***************************************************************************)
(* The framebuffer screen, src/arch/x86_64/ui.c: which framebuffer of the  *)
(* Multiboot2 information is accepted, and which pixels its panels and its *)
(* texts touch.  Coordinates and offsets are 32-bit: modulo WORD.          *)
(***************************************************************************)
EXTENDS Integers, Sequences, SequencesExt

CONSTANTS
    WORD,          \* 2^32
    MapLimit,      \* end of the identity map
    MAX_UI_WIDTH, MAX_UI_HEIGHT,
    LongestText,   \* characters of a line (127)
    NoFrame

ASSUME ScreenAssumption ==
    /\ {WORD, MapLimit, MAX_UI_WIDTH, MAX_UI_HEIGHT, LongestText} \subseteq Nat
    /\ WORD > 0 /\ MapLimit <= WORD

\* What a boot loader can hand over.
FrameType == [address : Nat, pitch : Nat, width : Nat, height : Nat, bpp : Nat]
TagType   == [type : STRING, size : Nat, rgb : BOOLEAN, frame : FrameType]
InformationType == [total : Nat, tags : Seq(TagType)]

ASSUME NoFrameAssumption == NoFrame \notin FrameType

VARIABLES
    information, \* [total, tags]: the stated size and the tags of Multiboot2
    framebuffer  \* NoFrame: not available

uiVars == <<information, framebuffer>>

UiInit == framebuffer = NoFrame

-----------------------------------------------------------------------------
pitch_holds_pixels(f) == f.pitch >= f.width \* mutant: a byte for each pixel
pitch_holds(f) == f.pitch >= f.width * (f.bpp \div 8)

usable(f) == /\ f.address # 0
             /\ f.width \in 1..MAX_UI_WIDTH /\ f.height \in 1..MAX_UI_HEIGHT
             /\ f.bpp \in 24..32
             /\ pitch_holds(f)
             /\ f.pitch * f.height > 0 /\ f.address + f.pitch * f.height <= MapLimit

\* Bytes left for the tag at an index; a tag takes its size rounded up to 8.
left(i) == information.total - 8
           - FoldSeq(LAMBDA tag, n : n + ((tag.size + 7) \div 8) * 8, 0,
                     SubSeq(information.tags, 1, i - 1))

accepts(tag) == tag.type = "framebuffer" /\ tag.size >= 36 /\ tag.rgb /\ usable(tag.frame)
ends(i) == LET tag == information.tags[i]
           IN  left(i) < 8 \/ tag.size < 8 \/ tag.size > left(i) \/ tag.type = "end"

\* The first tag that is accepted or ends the walk decides.
ui_init ==
    LET stops == { i \in 1..Len(information.tags) : ends(i) \/ accepts(information.tags[i]) }
        stop == CHOOSE i \in stops : \A j \in stops : i <= j
    IN  /\ framebuffer' = IF information.total < 16 \/ stops = {} \/ ends(stop) THEN NoFrame
                          ELSE information.tags[stop].frame
        /\ UNCHANGED information

UiSpec == UiInit /\ information \in InformationType /\ [][ui_init]_uiVars

-----------------------------------------------------------------------------
sum(a, b) == (a + b) % WORD
W == framebuffer.width
H == framebuffer.height
third == ((W - 210) % WORD) \div 3

\* The rectangles of ui_init, ui_runtime_overlay and ui_ai_conversation.
panel_width == IF W > 420 THEN 360 ELSE IF W > 150 THEN W - 150 ELSE W
panel_x == IF W > panel_width + 48 THEN W - panel_width - 48 ELSE 0
Rect(x, y, width, height) == [x |-> x % WORD, y |-> y % WORD,
                              width |-> width % WORD, height |-> height % WORD]
panels ==
    { Rect(0, 0, W, H), Rect(0, 0, W, 46), Rect(18, 11, 24, 24), Rect(22, 72, 80, H - 96),
      Rect(126, 72, W - 160, H - 110), Rect(146, 88, W - 210, 120),
      Rect(146, 238, W - 210, 170), Rect(W - 300, 72, 230, 220), Rect(146, 438, W - 210, 82),
      Rect(0, H - 34, W, 34) }
    \cup { Rect(30, y, 64, 60) : y \in {86, 156, 226, 296} }
    \cup { Rect(sum(146, k * third), 540, third - 16, 86) : k \in 0..2 }
    \cup { Rect(panel_x, 316, width, 104) : width \in {panel_width, 5} }
    \cup (IF H < 700 THEN {} ELSE { Rect(panel_x, 432, width, 86) : width \in {panel_width, 5} })

\* Where they and ui_status write, and how large.
At(x, y, scale) == [x |-> x, y |-> y, scale |-> scale]
texts ==
    { At(56, 12, 3), At(46, 102, 2), At(168, 108, 3), At(168, 156, 2), At(170, 462, 2),
      At(172, 560, 2), At(sum(146, third) + 26, 560, 2), At(sum(146, 2 * third) + 24, 560, 2),
      At(18, H - 26, 2), At(64, 170, 2), At(64, 196, 2), At(panel_x + 18, 328, 2) }
    \cup { At(42, y, 2) : y \in {172, 242, 312} }
    \cup { At(170, y, 2) : y \in {260, 296, 330, 364} }
    \cup { At(W - 270, y, 2) : y \in {96, 132, 164, 196, 228} }
    \cup { At(panel_x + dx, 316 + dy, 1) : dx \in {18, 72}, dy \in {38, 58, 78} }
    \cup (IF H < 700 THEN {}
          ELSE { At(panel_x + 18, 442, 2), At(panel_x + 18, 468, 1), At(panel_x + 18, 490, 1) })

\* draw_text: the corners of the first glyph and of the last there can be.
draw_text(t) ==
    { Rect(t.x + (6 * character + column) * t.scale, t.y + row * t.scale, t.scale, t.scale) :
          character \in {0, LongestText - 1}, column \in {0, 4}, row \in {0, 6} }

rectangles == panels \cup UNION { draw_text(t) : t \in texts }

\* fill_rect: the pixels, as bounds [left, right) and [top, bottom).
fill_rect(r) ==
    IF r.x >= W \/ r.y >= H THEN [left |-> 0, right |-> 0, top |-> 0, bottom |-> 0]
    ELSE [left |-> r.x, right |-> IF sum(r.x, r.width) < W THEN sum(r.x, r.width) ELSE W,
          top |-> r.y, bottom |-> IF sum(r.y, r.height) < H THEN sum(r.y, r.height) ELSE H]

\* put_pixel: the offset of a pixel's first byte.
put_pixel(x, y) == sum((y * framebuffer.pitch) % WORD, x * (framebuffer.bpp \div 8))

-----------------------------------------------------------------------------
\* No pixel drawn on an accepted framebuffer leaves it or the identity map,
\* and no two pixels overlap: offsets do not wrap, and a line ends before the
\* next one begins.  (Offsets grow with x and y, so the corners suffice.)
PixelsInFrame ==
    framebuffer # NoFrame => \A r \in rectangles :
        LET area == fill_rect(r)
            Bpp == framebuffer.bpp \div 8
        IN  area.left < area.right /\ area.top < area.bottom =>
                /\ area.right <= W /\ area.bottom <= H
                /\ put_pixel(area.right - 1, area.top) + Bpp <= (area.top + 1) * framebuffer.pitch
                /\ put_pixel(area.right - 1, area.bottom - 1) + Bpp <= framebuffer.pitch * H
                /\ framebuffer.address + put_pixel(area.right - 1, area.bottom - 1) + Bpp <= MapLimit
==============================================================================
