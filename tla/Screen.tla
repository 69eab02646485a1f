---- MODULE Screen ----
(***************************************************************************)
(* The screen (screen.c) with the conversions of string.c and math.c.      *)
(*                                                                         *)
(* kmain and thread1 print through one cursor with no lock: each load and  *)
(* each store of it is a step between which the timer may switch, and what *)
(* is loaded may be kept in a register or loaded again, as the compiler    *)
(* likes. A panic may come at any step, and prints on to the video memory  *)
(* with interrupts disabled.                                               *)
(*                                                                         *)
(* A glyph is a row of pixels that bear its character, in the cell's upper *)
(* row or, if it descends, in the lower.                                   *)
(***************************************************************************)
EXTENDS Integers, SequencesExt

CONSTANTS
  Width, Height, Stride,   \* fb->width, fb->height, fb->pitch / 4
  MarginX, MarginY,        \* DEFAULT_CURSOR_X, DEFAULT_CURSOR_Y
  CellWidth, CellHeight, GlyphWidth, Advance,    \* of the font, scaled
  TabSize, EndPixels,      \* 4; the pixels memmove stores first (2)
  Descending,              \* characters whose glyph descends
  SegmentSize,             \* the buffers of a segment (1024)
  PanicTexts,              \* what panics say of their causes
  Unit, Thickness,         \* of the sad face: 10 * scale, scale
  IntRange, LongRange,     \* 2^32, 2^64
  BLACK, RED, Scenarios

Columns == (Width - MarginX) \div CellWidth
Lines == (Height - MarginY) \div CellHeight

\* Were the height to leave no slack below the last line, blit32 would drop it.
\* The margin above is not zero: what is left of the screen is on the row before.
ASSUME ScreenAssumption ==
  /\ {Width, Height, Stride, MarginX, MarginY, CellWidth, CellHeight, GlyphWidth, Advance} \subseteq Nat
  /\ Columns >= 1 /\ Lines >= 2 /\ Stride >= Width
  /\ (Height - MarginY) % CellHeight # 0 /\ MarginY < CellHeight
  /\ MarginY >= 1 /\ GlyphWidth >= 1 /\ CellHeight >= 1
  /\ GlyphWidth + EndPixels <= CellWidth /\ GlyphWidth < Advance /\ Advance <= CellWidth
  /\ (Stride * Height) % 2 = 0 /\ (Stride * CellHeight) % 2 = 0
  /\ EndPixels \in Nat /\ Unit \in Nat /\ Unit >= 1 /\ Thickness \in Nat

\* What a context calls, in order, and whether there may be a panic.
ASSUME ScenarioAssumption ==
  \A s \in Scenarios : \A calls \in {s.kmain, s.thread1} :
    /\ calls \in Seq(Range(calls))
    /\ \A call \in Range(calls) : call.f = "set_auto_flush" => call.enable \in BOOLEAN

T == INSTANCE Terminal WITH Rows <- Lines, Cols <- Columns, Tab <- TabSize, Limit <- SegmentSize - 1

Contexts == {"kmain", "thread1"}
Buffers == {"vram", "back"}
Places == 0 .. Stride * Height - 1

VARIABLES
  fb,                      \* the framebuffer is known
  stride,                  \* screen_pitch_div_4
  pixels,                  \* video memory and back buffer: pixel by index
  cursor_x, cursor_y, auto_flush_enabled, current_background_color,
  frames,                  \* what each context is doing in screen.c
  panicked,                \* the context that has, "nobody", or "never" (a bound: nobody will)
  stray,                   \* history: a store has missed its buffer
  mixed,                   \* history: two calls have overlapped
  term, shown              \* histories: the terminal, and <<it>> at the last flush

cursorVars == <<cursor_x, cursor_y>>
stateVars == <<fb, stride, auto_flush_enabled, current_background_color, panicked>>
histories == <<mixed, term, shown>>
vars == <<stateVars, pixels, cursorVars, frames, stray, histories>>

Zero == <<"", 0>>
Color(c) == <<"", c>>
Picture == <<"*", 0>>       \* what the bootloader left

Idle(calls, direct) ==
  [pc |-> "idle", calls |-> calls, fmt |-> <<>>, args |-> <<>>, color |-> 0, text |-> <<>>,
   direct |-> direct, x |-> 0, y |-> 0, tabs |-> 0, then |-> "idle"]

Init ==
  /\ fb = FALSE /\ stride = 0
  /\ pixels = [b \in Buffers |-> [i \in Places |-> Picture]]
  /\ cursor_x = MarginX /\ cursor_y = MarginY
  /\ auto_flush_enabled = TRUE /\ current_background_color = BLACK
  /\ \E s \in Scenarios :
       /\ frames = [c \in Contexts |-> Idle(IF c = "kmain" THEN s.kmain ELSE s.thread1, FALSE)]
       /\ panicked = IF s.panics THEN "nobody" ELSE "never"
  /\ stray = FALSE
  /\ term = T!Cleared /\ shown = <<>>
  /\ mixed = FALSE

\* thread1 is created when the screen has been set up; a panic stops everyone
\* else.
Running(c) == panicked \in {"nobody", "never", c} /\ (c = "thread1" => stride # 0)
At(c, pc) == Running(c) /\ frames[c].pc = pc
Calls(c, f) == At(c, "idle") /\ frames[c].calls # <<>> /\ Head(frames[c].calls).f = f
Argument(c) == Head(frames[c].calls)
Return(c) == frames' = [frames EXCEPT ![c] = [frames[c] EXCEPT !.pc = "idle", !.calls = Tail(@)]]
Goto(c, pc) == frames' = [frames EXCEPT ![c].pc = pc]
Buffer(c) == IF frames[c].direct THEN "vram" ELSE "back"

(***************************************************************************)
(* Pixels                                                                  *)
(***************************************************************************)
Index(x, y) == y * stride + x

Store(b, at, pixel) ==
  /\ pixels' = [pixels EXCEPT ![b] = [i \in Places |-> IF i \in at THEN pixel ELSE @[i]]]
  /\ stray' = (stray \/ ~(at \subseteq Places))

\* Whether screen_put_pixel stores at all. Mutant: the row is not looked at.
screen_put_pixel_x(x, y) == x \in 0 .. Width - 1
screen_put_pixel(x, y) == x \in 0 .. Width - 1 /\ y \in 0 .. Height - 1

\* One cell in the background colour.
fill_rect(c, x, y) ==
  LET cell_area == (x .. x + CellWidth - 1) \X (y .. y + CellHeight - 1)
  IN  Store(Buffer(c), {Index(p[1], p[2]) : p \in {q \in cell_area : screen_put_pixel(q[1], q[2])}},
            Color(current_background_color))

\* Two pixels at a time, but for colour 0.
fill_buffer_with_color(buffer, first, n, color) ==
  LET count == IF color = 0 THEN n ELSE 2 * (n \div 2) IN
  [i \in Places |-> IF i \in first .. first + count - 1 THEN Color(color) ELSE buffer[i]]

\* A glyph that would leave the buffer is not drawn, one left of it is blank.
blit32_TextNExplicit(c, ch, x, y) ==
  IF y + CellHeight >= Height \/ y < 0 \/ x + GlyphWidth > stride
  THEN UNCHANGED <<pixels, stray>>
  ELSE IF x < 0
  THEN Store(Buffer(c), {Index(x + dx, y + dy) : dx \in 0 .. Advance - 1, dy \in 0 .. CellHeight - 1}, Zero)
  ELSE LET ink == IF ch \in Descending THEN y + 1 ELSE y
       IN  Store(Buffer(c), {Index(x + dx, ink) : dx \in 0 .. GlyphWidth - 1}, <<ch, frames[c].color>>)

\* The rows of the back buffer that are on the screen; the rest of each row is not copied.
Flushed(p) ==
  [p EXCEPT !["vram"] = [i \in Places |-> IF stride # 0 /\ i % stride < Width THEN p["back"][i] ELSE @[i]]]

\* All but the first line move up. In the back buffer memmove stores the last
\* pixels first, where they are read again one line below.
Scrolled(buffer, b) ==
  LET line == CellHeight * stride
      n == (Height - CellHeight) * stride
  IN  [i \in Places |->
         IF i >= n THEN buffer[i]
         ELSE IF b = "back" /\ i + line \in n - EndPixels .. n - 1 THEN buffer[i + 2 * line]
         ELSE buffer[i + line]]

(***************************************************************************)
(* Formats                                                                 *)
(***************************************************************************)

\* The digits of a magnitude, lowest first: one at least.
LowFirst(m, base) ==
  LET digits[n \in 0 .. m] ==
        <<T!HexDigits[1 + (n % base)]>> \o (IF n < base THEN <<>> ELSE digits[n \div base])
  IN  digits[m]

\* C's remainder has the sign of n, and int_to_string drops it.
int_to_string(n) ==
  Reverse(LowFirst(IF n < 0 THEN -n ELSE n, 10) \o (IF n < 0 THEN <<"-">> ELSE <<>>))
int_to_hex_string(value) == Reverse(LowFirst(value, 16))

\* A slot of the arguments, of 64 bits, read as a signed number of fewer.
Signed(number, range) ==
  LET low == number % range IN IF low >= range \div 2 THEN low - range ELSE low

Consuming == {"%d", "%ld", "%x", "%s", "%c"}

Formatted(f, args) ==
  CASE f = "%d" -> int_to_string(Signed(Head(args).number, IntRange))
    [] f = "%ld" -> int_to_string(Signed(Head(args).number, LongRange))
    [] f = "%x" -> int_to_hex_string(Head(args).number % LongRange)
    [] f = "%s" -> IF Head(args).number = 0 THEN <<"(", "n", "u", "l", "l", ")">> ELSE Head(args).text
    [] f = "%c" -> Head(args).text
    [] f = "%%" -> <<"%">>
    [] OTHER -> <<f>>

\* What fits; the format is read no further once the buffer is full.
kvsnprintf(fmt, args) ==
  LET Add(s, f) ==
        IF Len(s.buf) >= SegmentSize - 1 THEN s
        ELSE LET all == s.buf \o Formatted(f, s.args)
             IN  [buf |-> SubSeq(all, 1, Min({Len(all), SegmentSize - 1})),
                  args |-> IF f \in Consuming THEN Tail(s.args) ELSE s.args]
  IN  FoldLeft(Add, [buf |-> <<>>, args |-> args], fmt).buf

\* The arguments left once a segment has been printed. Mutant: a character
\* takes none.
consume_format_args_but_c(fmt, args) ==
  SubSeq(args, 1 + Len(SelectSeq(fmt, LAMBDA f : f \in Consuming \ {"%c"})), Len(args))
consume_format_args(fmt, args) ==
  SubSeq(args, 1 + Len(SelectSeq(fmt, LAMBDA f : f \in Consuming)), Len(args))

\* The format up to the next %C, and whether there is one.
SegmentLength(fmt) ==
  CHOOSE n \in 0 .. Len(fmt) :
    /\ n = Len(fmt) \/ fmt[n + 1] = "%C"
    /\ \A i \in 1 .. n : fmt[i] # "%C"
Segment(fmt) == SubSeq(fmt, 1, SegmentLength(fmt))

(***************************************************************************)
(* kprintf: segments, and the arguments of each                            *)
(***************************************************************************)
kprintf(c) ==
  /\ Calls(c, "kprintf")
  /\ frames' = [frames EXCEPT ![c] = [frames[c] EXCEPT !.pc = "segment", !.fmt = Argument(c).fmt,
                                        !.args = Argument(c).args, !.color = Argument(c).color]]
  /\ mixed' = (mixed \/ \E other \in Contexts \ {c} : frames[other].pc # "idle")
  /\ UNCHANGED <<stateVars, pixels, cursorVars, stray, term, shown>>

\* kprint prints nothing without a framebuffer.
flush_formatted_segment(c) ==
  LET f == frames[c]
      text == IF fb THEN kvsnprintf(Segment(f.fmt), f.args) ELSE <<>>
  IN
  /\ At(c, "segment")
  /\ frames' = [frames EXCEPT ![c] = [f EXCEPT !.pc = "char", !.text = text]]
  /\ UNCHANGED <<stateVars, pixels, cursorVars, stray, histories>>

\* A histories' step: the terminal after this call, and what a flush shows.
Notes(c, written, flushes) ==
  /\ term' = IF frames[c].direct THEN term ELSE written
  /\ shown' = IF flushes THEN <<term'>> ELSE shown

segment_done(c) ==
  LET f == frames[c]
      n == SegmentLength(f.fmt)
      args == consume_format_args(Segment(f.fmt), f.args)
  IN
  /\ At(c, "char") /\ f.text = <<>>
  /\ IF n < Len(f.fmt)
     THEN /\ frames' = [frames EXCEPT ![c] =
                          [f EXCEPT !.pc = "segment", !.color = Head(args).number,
                                    !.args = Tail(args), !.fmt = SubSeq(f.fmt, n + 2, Len(f.fmt))]]
          /\ UNCHANGED <<pixels, term, shown>>
     ELSE LET flushes == ~f.direct /\ auto_flush_enabled IN
          /\ Return(c)
          /\ pixels' = IF flushes THEN Flushed(pixels) ELSE pixels
          /\ Notes(c, T!Written(term, Argument(c).fmt, Argument(c).args, Argument(c).color), flushes)
  /\ UNCHANGED <<stateVars, cursorVars, stray, mixed>>

(***************************************************************************)
(* kprint: one character after another                                     *)
(***************************************************************************)
Character(c) == LET ch == Head(frames[c].text) IN IF ch = "HIGH" THEN "?" ELSE ch
OnCharacter(c, chars) ==
  At(c, "char") /\ frames[c].text # <<>> /\ Character(c) \in chars

Special == {"\n", "\r", "BS", "\t", "BEL"}

\* A register holds what was loaded; or the compiler loads it again.
Loads(register, variable) == {register, variable}

\* To a step of this character, with the registers loaded; to the next character.
Continue(c, pc, x, y) ==
  frames' = [frames EXCEPT ![c] = [frames[c] EXCEPT !.pc = pc, !.x = x, !.y = y]]
NextCharacter(c) ==
  frames' = [frames EXCEPT ![c] = [frames[c] EXCEPT !.pc = "char", !.text = Tail(@)]]
\* A new line, and where to go on after it.
CallNewLine(c, then) ==
  frames' = [frames EXCEPT ![c] = [frames[c] EXCEPT !.pc = "newline", !.then = then]]
ReturnNewLine(c) ==
  IF frames[c].then = "next" THEN NextCharacter(c) ELSE Goto(c, frames[c].then)

Drawing == UNCHANGED <<cursorVars, stateVars, histories>>
Moving == UNCHANGED <<pixels, stray, stateVars, histories>>

other_character(c) ==
  /\ \/ OnCharacter(c, {"\n"}) /\ CallNewLine(c, "next") /\ UNCHANGED cursor_x
     \/ OnCharacter(c, {"\r"}) /\ cursor_x' = MarginX /\ NextCharacter(c)
     \/ OnCharacter(c, {"BEL"}) /\ NextCharacter(c) /\ UNCHANGED cursor_x
  /\ UNCHANGED cursor_y /\ Moving

\* A space or a glyph, on the next line if this one is full.
cell_begins(c) ==
  /\ At(c, "char") /\ frames[c].text # <<>> /\ Character(c) \notin Special
  /\ IF cursor_x + CellWidth > Width THEN CallNewLine(c, "cell")
                                     ELSE Continue(c, "cell", cursor_x, frames[c].y)
  /\ UNCHANGED cursorVars /\ Moving

cell(c) ==
  /\ At(c, "cell")
  /\ \E x \in Loads(frames[c].x, cursor_x) :
       /\ IF Character(c) = " " THEN fill_rect(c, x, cursor_y)
          ELSE blit32_TextNExplicit(c, Character(c), x, cursor_y)
       /\ Continue(c, "cell_ends", x, frames[c].y)
  /\ Drawing

cell_ends(c) ==
  /\ At(c, "cell_ends")
  /\ \E x \in Loads(frames[c].x, cursor_x) : cursor_x' = x + CellWidth
  /\ NextCharacter(c)
  /\ UNCHANGED cursor_y /\ Moving

tab_begins(c) ==
  /\ OnCharacter(c, {"\t"})
  /\ IF cursor_x + CellWidth * TabSize > Width THEN CallNewLine(c, "next")
     ELSE frames' = [frames EXCEPT ![c] = [frames[c] EXCEPT !.pc = "tab", !.x = cursor_x, !.tabs = TabSize]]
  /\ UNCHANGED cursorVars /\ Moving

tab_cell(c) ==
  /\ At(c, "tab") /\ frames[c].tabs > 0
  /\ \E x \in Loads(frames[c].x, cursor_x) :
       \/ x + CellWidth <= Width /\ fill_rect(c, x, cursor_y) /\ Continue(c, "tab_ends", x, frames[c].y)
       \/ x + CellWidth > Width /\ UNCHANGED <<pixels, stray>>
            /\ frames' = [frames EXCEPT ![c].tabs = @ - 1]
  /\ Drawing

tab_ends(c) ==
  /\ \/ At(c, "tab_ends")
       /\ \E x \in Loads(frames[c].x, cursor_x) :
            /\ cursor_x' = x + CellWidth
            /\ frames' = [frames EXCEPT ![c] = [frames[c] EXCEPT !.pc = "tab", !.x = cursor_x', !.tabs = @ - 1]]
     \/ At(c, "tab") /\ frames[c].tabs = 0 /\ NextCharacter(c) /\ UNCHANGED cursor_x
  /\ UNCHANGED cursor_y /\ Moving

\* Back one cell, or to the end of the line above.
back_begins(c) ==
  /\ OnCharacter(c, {"BS"})
  /\ IF cursor_x >= MarginX + CellWidth THEN Continue(c, "back", cursor_x, cursor_y)
     ELSE IF cursor_y >= MarginY + CellHeight THEN Continue(c, "back_line", cursor_x, cursor_y)
     ELSE NextCharacter(c)
  /\ UNCHANGED cursorVars /\ Moving

\* max_chars_per_line - 1 cells from the margin.
LastColumn == MarginX + (Columns - 1) * CellWidth

back(c) ==
  /\ \/ At(c, "back")
       /\ \E x \in Loads(frames[c].x, cursor_x) : cursor_x' = x - CellWidth
       /\ Continue(c, "erase", cursor_x', cursor_y) /\ UNCHANGED cursor_y
     \/ At(c, "back_line")
       /\ cursor_x' = LastColumn
       /\ \E y \in Loads(frames[c].y, cursor_y) : Continue(c, "back_up", LastColumn, y)
       /\ UNCHANGED cursor_y
     \/ At(c, "back_up")
       /\ \E y \in Loads(frames[c].y, cursor_y) : cursor_y' = y - CellHeight
       /\ Continue(c, "erase", frames[c].x, cursor_y') /\ UNCHANGED cursor_x
  /\ Moving

erase(c) ==
  /\ At(c, "erase")
  /\ \E x \in Loads(frames[c].x, cursor_x), y \in Loads(frames[c].y, cursor_y) : fill_rect(c, x, y)
  /\ NextCharacter(c)
  /\ Drawing

(***************************************************************************)
(* check_newline_and_scroll                                                *)
(***************************************************************************)
check_newline_and_scroll(c) ==
  \/ /\ At(c, "newline")
     /\ cursor_x' = MarginX /\ Continue(c, "newline_y", MarginX, cursor_y)
     /\ UNCHANGED cursor_y /\ Moving
  \/ /\ At(c, "newline_y")
     /\ \E y \in Loads(frames[c].y, cursor_y) : cursor_y' = y + CellHeight
     /\ Continue(c, "newline_check", MarginX, cursor_y')
     /\ UNCHANGED cursor_x /\ Moving
  \/ /\ At(c, "newline_check")
     /\ \E y \in Loads(frames[c].y, cursor_y) :
          IF y + CellHeight > Height THEN Goto(c, "scroll") ELSE ReturnNewLine(c)
     /\ UNCHANGED cursorVars /\ Moving
  \/ /\ At(c, "scroll") /\ Goto(c, "scroll_fill")
     /\ pixels' = [pixels EXCEPT ![Buffer(c)] = Scrolled(@, Buffer(c))]
     /\ UNCHANGED stray /\ Drawing
  \/ /\ At(c, "scroll_fill") /\ Continue(c, "scrolled", MarginX, cursor_y)
     /\ pixels' = [pixels EXCEPT ![Buffer(c)] =
          fill_buffer_with_color(@, (Height - CellHeight) * stride, CellHeight * stride,
                                 current_background_color)]
     /\ UNCHANGED stray /\ Drawing
  \/ /\ At(c, "scrolled")
     /\ \E y \in Loads(frames[c].y, cursor_y) : cursor_y' = y - CellHeight
     /\ ReturnNewLine(c)
     /\ UNCHANGED cursor_x /\ Moving

(***************************************************************************)
(* The other calls. They are made before there is a second thread, so each *)
(* is one step; a panic may come before or after it.                       *)
(***************************************************************************)
\* Mutant: the column only.
reset_cursor_x == cursor_x' = MarginX /\ UNCHANGED cursor_y
reset_cursor == cursor_x' = MarginX /\ cursor_y' = MarginY

screen_clear(c) ==
  /\ Calls(c, "screen_clear")
  /\ Return(c)
  /\ IF ~fb THEN UNCHANGED <<pixels, cursorVars, current_background_color, term, shown>>
     ELSE LET cleared == [pixels EXCEPT ![Buffer(c)] =
                            fill_buffer_with_color(@, 0, Stride * Height, Argument(c).color)]
              flushes == Buffer(c) = "back" /\ auto_flush_enabled
          IN  /\ pixels' = IF flushes THEN Flushed(cleared) ELSE cleared
              /\ current_background_color' = Argument(c).color
              /\ reset_cursor
              /\ Notes(c, T!Cleared, flushes)
  /\ UNCHANGED <<fb, stride, auto_flush_enabled, panicked, stray, mixed>>

screen_flush(c) ==
  /\ Calls(c, "screen_flush") /\ Return(c)
  /\ pixels' = IF fb THEN Flushed(pixels) ELSE pixels
  /\ Notes(c, term, fb)
  /\ UNCHANGED <<stateVars, cursorVars, stray, mixed>>

set_auto_flush(c) ==
  /\ Calls(c, "set_auto_flush") /\ Return(c)
  /\ auto_flush_enabled' = Argument(c).enable
  /\ UNCHANGED <<fb, stride, current_background_color, panicked, pixels, cursorVars, stray, histories>>

(***************************************************************************)
(* Panics                                                                  *)
(***************************************************************************)

\* What kernel_panic prints: its own words are shortened.
Message(text) ==
  [f |-> "kprintf", color |-> 2, fmt |-> <<"\n", "%C", "!", "%C", "%s", "%C", "H">>,
   args |-> <<[text |-> <<>>, number |-> RED], [text |-> <<>>, number |-> 2],
              [text |-> text, number |-> 1], [text |-> <<>>, number |-> RED]>>]

Panics(c) ==
  /\ panicked' = c
  /\ \E text \in PanicTexts :
       frames' = [frames EXCEPT ![c] =
         Idle(<<[f |-> "screen_clear", color |-> BLACK], Message(text), [f |-> "draw_sad_face"]>>, TRUE)]

kernel_panic(c) ==
  /\ panicked = "nobody" /\ Running(c)
  /\ Panics(c)
  /\ UNCHANGED <<fb, stride, auto_flush_enabled, current_background_color, pixels, cursorVars,
                 stray, histories>>

\* Two eyes and a mouth, halfway between the line of the cursor and the foot of
\* the screen: what of them is on it.
Face(top) ==
  LET face_x == Width \div 2
      face_y == top + ((Height - top) \div 2) - 5 * Unit
      eyes == (-4 * Unit .. -2 * Unit - 1 \cup 2 * Unit .. 4 * Unit - 1) \X (-2 * Unit .. -1)
      mouth == UNION {{<<x, (x * x) \div (3 * Unit) + 5 * Unit + thick>> : thick \in 0 .. Thickness - 1} :
                        x \in -3 * Unit .. 3 * Unit}
  IN  {p \in {<<face_x + q[1], face_y + q[2]>> : q \in eyes \cup mouth} : screen_put_pixel(p[1], p[2])}

draw_sad_face(c) ==
  /\ Calls(c, "draw_sad_face") /\ Return(c)
  /\ IF fb THEN Store("vram", {Index(p[1], p[2]) : p \in Face(cursor_y)}, Color(RED))
     ELSE UNCHANGED <<pixels, stray>>
  /\ UNCHANGED <<stateVars, cursorVars, histories>>

\* Without a response, with pixels it cannot use, without memory, or well.
screen_init(c) ==
  /\ Calls(c, "screen_init")
  /\ \/ Panics(c) /\ UNCHANGED <<fb, stride, pixels>>
     \/ fb' = TRUE /\ Panics(c) /\ UNCHANGED <<stride, pixels>>
     \/ fb' = TRUE /\ stride' = Stride /\ Panics(c) /\ UNCHANGED pixels
     \/ /\ fb' = TRUE /\ stride' = Stride
        /\ pixels' = [pixels EXCEPT !["back"] = [i \in Places |-> Zero]]
        /\ Return(c) /\ UNCHANGED panicked
  /\ UNCHANGED <<auto_flush_enabled, current_background_color, cursorVars, stray, histories>>

Step(c) ==
  \/ screen_init(c) \/ screen_clear(c) \/ screen_flush(c) \/ set_auto_flush(c)
  \/ draw_sad_face(c)
  \/ kprintf(c) \/ flush_formatted_segment(c) \/ segment_done(c)
  \/ other_character(c) \/ cell_begins(c) \/ cell(c) \/ cell_ends(c)
  \/ tab_begins(c) \/ tab_cell(c) \/ tab_ends(c)
  \/ back_begins(c) \/ back(c) \/ erase(c) \/ check_newline_and_scroll(c)
Next == \E c \in Contexts : Step(c) \/ kernel_panic(c)
Spec == Init /\ [][Next]_vars

(***************************************************************************)
(* Properties                                                              *)
(***************************************************************************)

\* What shows at a place of the screen when the terminal is t: the last ink there.
Shows(t, x, y) ==
  LET col == (x - MarginX) \div CellWidth + 1
      row == (y - MarginY) \div CellHeight + 1
      Here(what) == (y - MarginY) % CellHeight = IF what[1] \in Descending THEN 1 ELSE 0
      ink == IF x >= MarginX /\ col <= Columns /\ row <= Lines /\ (x - MarginX) % CellWidth < GlyphWidth
             THEN SelectSeq(t.cells[row][col], Here) ELSE T!Blank
  IN  IF ink = <<>> THEN Zero ELSE Last(ink)

\* Colour 0 and black look the same. (Above the first line a scroll leaves the
\* foot of the line that has gone.)
LooksAt(b, t, x, y) ==
  LET pixel == pixels[b][Index(x, y)]
  IN  Shows(t, x, y) = IF pixel[1] = "" THEN Zero ELSE pixel
Looks(b, t) == \A x \in 0 .. Width - 1, y \in MarginY .. Height - 1 : LooksAt(b, t, x, y)

\* Type invariant, and whatever two printers make of the cursor between them
\* nothing is stored outside a buffer: no pixel is more than a cell left of the
\* margin, where blit32 does not look.
InBounds ==
  /\ ~stray
  /\ fb \in BOOLEAN /\ stride \in {0, Stride} /\ auto_flush_enabled \in BOOLEAN
  /\ cursor_x >= MarginX - CellWidth

\* While calls do not overlap, what they print is what a terminal would show:
\* each character of a format read once, with the argument and the colour that
\* are its own, wrapped, scrolled and taken back; at once in the back buffer,
\* and on the screen from the next flush.
TerminalShown ==
  (stride # 0 /\ ~mixed /\ panicked \notin Contexts /\ \A c \in Contexts : frames[c].pc = "idle") =>
    /\ Looks("back", term)
    /\ \A i \in DOMAIN shown : Looks("vram", shown[i])

\* Whatever a panic interrupts, when the kernel halts the screen, if it has been
\* set up, shows the message as a terminal would, wrapped and scrolled, and the
\* face where the cursor leaves it room, over the message where it leaves too
\* little; and nothing else.
PanicReadable ==
  \A c \in Contexts :
    (panicked = c /\ frames[c].calls = <<>> /\ stride # 0) =>
      \E text \in PanicTexts :
        LET t == T!Written(T!Cleared, Message(text).fmt, Message(text).args, Message(text).color)
            face == Face(MarginY + (t.row - 1) * CellHeight)
        IN  \A x \in 0 .. Width - 1, y \in 0 .. Height - 1 :
              IF <<x, y>> \in face THEN pixels["vram"][Index(x, y)] = Color(RED)
              ELSE y >= MarginY => LooksAt("vram", t, x, y)
====
