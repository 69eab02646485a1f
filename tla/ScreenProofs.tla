---- MODULE ScreenProofs ----
(***************************************************************************)
(* Proof about Screen that no store leaves a buffer, for every size of the *)
(* screen and of the font, whatever kmain and thread1 print, wherever the  *)
(* timer switches between them, whether the compiler loads the cursor      *)
(* again or keeps it, and wherever a panic comes.                          *)
(***************************************************************************)
EXTENDS Screen, SequenceTheorems, TLAPS

(***************************************************************************)
(* Arithmetic of rows                                                      *)
(***************************************************************************)

LEMMA Product ==
  ASSUME NEW a \in Nat, NEW b \in Nat, NEW c \in Nat, a <= b
  PROVE  a * c \in Nat /\ b * c \in Nat /\ a * c <= b * c
OBVIOUS

\* A pixel of a row of the buffer is a pixel of the buffer, and so are those up
\* to a row before the row, but for the first.
LEMMA InRow ==
  ASSUME NEW x \in Int, NEW y \in Nat, x < Stride, y < Height,
         x >= 0 \/ (y >= 1 /\ x >= -Stride)
  PROVE  y * Stride + x \in Places
<1>1. Stride \in Nat /\ Height \in Nat
  BY ScreenAssumption
<1>2. (y + 1) * Stride <= Height * Stride /\ (y + 1) * Stride \in Nat /\ Height * Stride \in Nat
  BY <1>1, Product
<1>3. (y + 1) * Stride = y * Stride + Stride /\ Height * Stride = Stride * Height /\ y * Stride \in Nat
  BY <1>1
<1>4. y >= 1 => y * Stride >= Stride
  <2>1. y >= 1 => 1 * Stride <= y * Stride
    BY <1>1, Product
  <2> QED BY <1>1, <2>1
<1>5. y * Stride + x \in Int /\ y * Stride + x <= Stride * Height - 1
  BY <1>1, <1>2, <1>3
<1>6. y * Stride + x >= 0
  BY <1>1, <1>3, <1>4
<1> QED BY <1>5, <1>6, <1>1 DEF Places

LEMMA QuotientAtLeast ==
  ASSUME NEW x \in Int, NEW d \in Nat, d >= 1, x \div d >= 1
  PROVE  x >= d /\ ((x \div d) - 1) * d >= 0 /\ ((x \div d) - 1) * d \in Int
<1>1. x \div d \in Int /\ x % d \in 0 .. d - 1 /\ x = d * (x \div d) + (x % d)
  OBVIOUS
<1> DEFINE q == x \div d
<1>2. q \in Nat /\ q >= 1
  BY <1>1
<1>3. x = d * q + (x % d)
  BY <1>1
<1> HIDE DEF q
<1>4. d * q >= d /\ (q - 1) * d >= 0 /\ (q - 1) * d \in Int /\ d * q \in Nat
  <2>1. 1 * d <= q * d /\ q * d \in Nat
    BY <1>2, Product
  <2>2. q * d = d * q /\ (q - 1) * d = q * d - d
    BY <1>2
  <2> QED BY <2>1, <2>2
<1>5. x >= d
  BY <1>1, <1>3, <1>4
<1> QED BY <1>4, <1>5 DEF q

LEMMA Sizes ==
  /\ Width \in Nat /\ Height \in Nat /\ Stride \in Nat /\ MarginX \in Nat /\ MarginY \in Nat
  /\ CellWidth \in Nat /\ CellHeight \in Nat /\ GlyphWidth \in Nat /\ Advance \in Nat
  /\ CellWidth >= 1 /\ CellHeight >= 1 /\ GlyphWidth >= 1 /\ Advance <= CellWidth
  /\ MarginY >= 1 /\ MarginY < CellHeight /\ Stride >= Width /\ Width >= CellWidth /\ Height >= 1
  /\ LastColumn \in Int /\ LastColumn >= MarginX
<1>1. /\ Width \in Nat /\ Height \in Nat /\ Stride \in Nat /\ MarginX \in Nat /\ MarginY \in Nat
      /\ CellWidth \in Nat /\ CellHeight \in Nat /\ GlyphWidth \in Nat /\ Advance \in Nat
      /\ CellHeight >= 1 /\ GlyphWidth >= 1 /\ Advance <= CellWidth /\ EndPixels \in Nat
      /\ MarginY >= 1 /\ MarginY < CellHeight /\ Stride >= Width
      /\ GlyphWidth + EndPixels <= CellWidth /\ Columns >= 1 /\ Lines >= 2
  BY ScreenAssumption
<1>2. CellWidth >= 1
  BY <1>1
<1>3. /\ Width - MarginX >= CellWidth
      /\ (Columns - 1) * CellWidth >= 0 /\ (Columns - 1) * CellWidth \in Int
  BY <1>1, <1>2, QuotientAtLeast DEF Columns
<1>4. Height - MarginY >= CellHeight
  <2>1. (Height - MarginY) \div CellHeight >= 1
    BY <1>1 DEF Lines
  <2> QED BY <1>1, <2>1, QuotientAtLeast
<1>5. LastColumn \in Int /\ LastColumn >= MarginX
  BY <1>1, <1>3 DEF LastColumn
<1> QED BY <1>1, <1>2, <1>3, <1>4, <1>5

\* The heights a line may have, on the screen or off it.
LineTops == {MarginY + k * CellHeight : k \in Int}

LEMMA LineFacts ==
  ASSUME NEW y \in LineTops
  PROVE  /\ y \in Int /\ y + CellHeight \in LineTops /\ y - CellHeight \in LineTops
         /\ y >= 0 => y >= MarginY
<1>1. PICK k \in Int : y = MarginY + k * CellHeight
  BY DEF LineTops
<1>2. y \in Int
  BY <1>1, Sizes
<1>3. y + CellHeight = MarginY + (k + 1) * CellHeight /\ y - CellHeight = MarginY + (k - 1) * CellHeight
  BY <1>1, Sizes
<1>4. ASSUME y >= 0 PROVE y >= MarginY
  <2>1. CASE k >= 0
    <3>1. k * CellHeight >= 0
      BY <2>1, Sizes, Product
    <3> QED BY <1>1, <3>1, Sizes
  <2>2. CASE k < 0
    <3>1. -k \in Nat /\ 1 <= -k
      BY <2>2
    <3>2. 1 * CellHeight <= (-k) * CellHeight
      BY <3>1, Sizes, Product
    <3>3. (-k) * CellHeight = -(k * CellHeight) /\ k * CellHeight \in Int
      BY Sizes
    <3>4. k * CellHeight <= -CellHeight
      BY <3>2, <3>3, Sizes
    <3> QED BY <1>1, <1>4, <3>3, <3>4, Sizes
  <2> QED BY <2>1, <2>2
<1> QED BY <1>2, <1>3, <1>4 DEF LineTops

(***************************************************************************)
(* Stores                                                                  *)
(***************************************************************************)

\* The cursor gets no further left: a cell, once there can be two printers.
Floor == IF stride = 0 THEN MarginX ELSE MarginX - CellWidth

LEMMA FloorFacts ==
  ASSUME stride \in {0, Stride}
  PROVE  /\ Floor \in Int /\ Floor <= MarginX /\ Floor + CellWidth >= MarginX
         /\ Floor >= MarginX - CellWidth
         /\ stride # 0 => Floor + CellWidth = MarginX
         /\ stride = 0 => Floor = MarginX
BY Sizes DEF Floor

LEMMA IndexInBounds ==
  ASSUME NEW x \in Int, NEW y \in Nat, x < Stride, y < Height, stride = Stride,
         x >= 0 \/ (y >= 1 /\ x >= -Stride)
  PROVE  Index(x, y) \in Places
BY InRow DEF Index

LEMMA PixelInBounds ==
  ASSUME NEW px \in 0 .. Width - 1, NEW py \in 0 .. Height - 1, stride \in {0, Stride}
  PROVE  Index(px, py) \in Places
<1>1. px \in Int /\ py \in Nat /\ px < Stride /\ py < Height /\ px >= 0
  BY Sizes
<1>2. CASE stride = Stride
  BY <1>1, <1>2, IndexInBounds
<1>3. CASE stride = 0
  <2>1. 1 * Stride <= Height * Stride /\ Height * Stride = Stride * Height
    BY Sizes, Product
  <2>2. px \in Places
    BY <1>1, <2>1, Sizes DEF Places
  <2>3. Index(px, py) = px
    BY <1>1, <1>3, Sizes DEF Index
  <2> QED BY <2>2, <2>3
<1> QED BY <1>2, <1>3

LEMMA RectInBounds ==
  ASSUME NEW c, NEW x, NEW y, stride \in {0, Stride}, ~stray, fill_rect(c, x, y)
  PROVE  ~stray'
<1> DEFINE at == {Index(p[1], p[2]) :
                    p \in {q \in (x .. x + CellWidth - 1) \X (y .. y + CellHeight - 1) :
                              screen_put_pixel(q[1], q[2])}}
<1>1. at \subseteq Places
  BY PixelInBounds DEF screen_put_pixel
<1> HIDE DEF at
<1>2. stray' = (stray \/ ~(at \subseteq Places))
  BY DEF fill_rect, Store, at
<1> QED BY <1>1, <1>2

LEMMA GlyphInBounds ==
  ASSUME NEW c, NEW ch, NEW x \in Int, NEW y \in LineTops, stride \in {0, Stride}, x >= Floor, ~stray,
         blit32_TextNExplicit(c, ch, x, y)
  PROVE  ~stray'
<1>1. y \in Int /\ (y >= 0 => y >= MarginY)
  BY LineFacts
<1>2. CASE y + CellHeight >= Height \/ y < 0 \/ x + GlyphWidth > stride
  BY <1>2 DEF blit32_TextNExplicit
<1>3. CASE ~(y + CellHeight >= Height \/ y < 0 \/ x + GlyphWidth > stride)
  <2>1. y \in Nat /\ y >= 1 /\ y + CellHeight < Height /\ x + GlyphWidth <= stride
    BY <1>1, <1>3, Sizes
  <2>2. stride = Stride
    <3>1. CASE stride = 0
      BY <2>1, <3>1, Sizes, FloorFacts
    <3> QED BY <3>1
  <2>3. CASE x < 0
    <3> DEFINE at == {Index(x + dx, y + dy) : dx \in 0 .. Advance - 1, dy \in 0 .. CellHeight - 1}
    <3>1. ASSUME NEW dx \in 0 .. Advance - 1, NEW dy \in 0 .. CellHeight - 1
          PROVE  Index(x + dx, y + dy) \in Places
      <4>1. x + dx \in Int /\ y + dy \in Nat /\ y + dy < Height /\ y + dy >= 1
        BY <2>1, Sizes
      <4>2. x + dx < Stride /\ x + dx >= -Stride
        BY <2>3, Sizes, FloorFacts
      <4> QED BY <2>2, <4>1, <4>2, IndexInBounds
    <3>2. at \subseteq Places
      BY <3>1
    <3> HIDE DEF at
    <3>3. stray' = (stray \/ ~(at \subseteq Places))
      BY <1>3, <2>3 DEF blit32_TextNExplicit, Store, at
    <3> QED BY <3>2, <3>3
  <2>4. CASE ~(x < 0)
    <3> DEFINE ink == IF ch \in Descending THEN y + 1 ELSE y
               at == {Index(x + dx, ink) : dx \in 0 .. GlyphWidth - 1}
    <3>1. ink \in Nat /\ ink < Height
      BY <2>1, Sizes
    <3> HIDE DEF ink
    <3>2. ASSUME NEW dx \in 0 .. GlyphWidth - 1 PROVE Index(x + dx, ink) \in Places
      <4>1. x + dx \in Int /\ x + dx < Stride /\ x + dx >= 0
        BY <2>1, <2>2, <2>4, Sizes
      <4> QED BY <2>2, <3>1, <4>1, IndexInBounds
    <3>3. at \subseteq Places
      BY <3>2
    <3> HIDE DEF at
    <3>4. stray' = (stray \/ ~(at \subseteq Places))
      BY <1>3, <2>4 DEF blit32_TextNExplicit, Store, at, ink
    <3> QED BY <3>3, <3>4
  <2> QED BY <2>3, <2>4
<1> QED BY <1>2, <1>3

(***************************************************************************)
(* The invariant                                                           *)
(***************************************************************************)

\* Where in screen.c a register holds the cursor's column, and its line.
LoadedX == {"cell", "cell_ends", "tab", "tab_ends", "back", "back_up", "erase", "newline_y",
            "newline_check", "scroll", "scroll_fill", "scrolled"}
LoadedY == {"back_line", "back_up", "newline_y", "newline_check", "scrolled"}

Clearing == [f |-> "screen_clear", color |-> BLACK]
ScenarioCalls == UNION {Range(s.kmain) \cup Range(s.thread1) : s \in Scenarios}
FaceCall == [f |-> "draw_sad_face"]
AllCalls == ScenarioCalls \cup {Message(text) : text \in PanicTexts} \cup {Clearing, FaceCall}

Fields == {"pc", "calls", "fmt", "args", "color", "text", "direct", "x", "y", "tabs", "then"}
IsFrame(f) == f = [k \in Fields |-> f[k]]

\* One context: what it has loaded is nowhere the cursor may not be. Who goes
\* back a cell has seen that there is one.
FrameOK(f, floor) ==
  /\ IsFrame(f)
  /\ f.calls \in Seq(AllCalls) /\ f.then \in {"idle", "next", "cell"}
  /\ f.pc # "idle" => f.calls # <<>>
  /\ f.pc \in LoadedX => f.x \in Int /\ f.x >= floor
  /\ f.pc \in LoadedY => f.y \in LineTops
  /\ f.pc = "back" => f.x >= MarginX + CellWidth

\* Both contexts, and the cursor: as many cells from the floor as there are
\* contexts about to take it back one.
Pending(c) == frames[c].pc = "back"
CursorInv ==
  /\ cursor_x \in Int /\ cursor_x >= Floor /\ cursor_y \in LineTops
  /\ \A c \in Contexts : Pending(c) => cursor_x >= Floor + CellWidth
  /\ (\A c \in Contexts : Pending(c)) => cursor_x >= Floor + 2 * CellWidth
FramesInv ==
  /\ frames = [c \in Contexts |-> frames[c]]
  /\ \A c \in Contexts : FrameOK(frames[c], Floor)
  /\ stride = 0 => frames["thread1"].pc = "idle"
ScreenInv ==
  /\ ~stray
  /\ fb \in BOOLEAN /\ stride \in {0, Stride} /\ auto_flush_enabled \in BOOLEAN
  /\ CursorInv /\ FramesInv

LEMMA InvInBounds == ScreenInv => InBounds
<1> SUFFICES ASSUME ScreenInv PROVE InBounds
  OBVIOUS
<1>1. cursor_x \in Int /\ cursor_x >= Floor /\ stride \in {0, Stride}
  BY DEF ScreenInv, CursorInv
<1>2. cursor_x >= MarginX - CellWidth
  BY <1>1, FloorFacts, Sizes
<1> QED BY <1>2 DEF InBounds, ScreenInv

LEMMA Triple ==
  ASSUME NEW S, NEW a \in S, NEW b \in S, NEW c \in S
  PROVE  <<a, b, c>> \in Seq(S)
OBVIOUS

LEMMA CallFacts ==
  /\ \A text \in PanicTexts : <<Clearing, Message(text), FaceCall>> \in Seq(AllCalls)
  /\ \A call \in AllCalls : call.f = "set_auto_flush" => call.enable \in BOOLEAN
  /\ \A s \in Scenarios : s.kmain \in Seq(AllCalls) /\ s.thread1 \in Seq(AllCalls)
<1>1. ASSUME NEW text \in PanicTexts PROVE <<Clearing, Message(text), FaceCall>> \in Seq(AllCalls)
  <2>1. Clearing \in AllCalls /\ Message(text) \in AllCalls /\ FaceCall \in AllCalls
    BY DEF AllCalls
  <2> QED BY <2>1, Triple
<1>2. ASSUME NEW call \in AllCalls, call.f = "set_auto_flush" PROVE call.enable \in BOOLEAN
  <2>1. /\ Clearing.f = "screen_clear" /\ FaceCall.f = "draw_sad_face"
        /\ \A text : Message(text).f = "kprintf"
    BY DEF Clearing, Message, FaceCall
  <2>2. call \in ScenarioCalls
    BY <1>2, <2>1 DEF AllCalls
  <2>3. PICK s \in Scenarios : call \in Range(s.kmain) \/ call \in Range(s.thread1)
    BY <2>2 DEF ScenarioCalls
  <2>4. PICK calls \in {s.kmain, s.thread1} : call \in Range(calls)
    BY <2>3
  <2> QED BY <1>2, <2>4, ScenarioAssumption
<1>3. ASSUME NEW s \in Scenarios, NEW calls \in {s.kmain, s.thread1} PROVE calls \in Seq(AllCalls)
  <2>1. calls \in Seq(Range(calls))
    BY ScenarioAssumption
  <2>2. Range(calls) \subseteq Range(s.kmain) \cup Range(s.thread1)
    OBVIOUS
  <2>3. Range(s.kmain) \cup Range(s.thread1) \subseteq AllCalls
    BY DEF AllCalls, ScenarioCalls
  <2> QED BY <2>1, <2>2, <2>3, SeqMonotonic
<1> QED BY <1>1, <1>2, <1>3
(***************************************************************************)
(* A context's step                                                        *)
(***************************************************************************)

\* Where a context holds neither.
Unloaded == {"idle", "segment", "char", "newline"}

LEMMA UnloadedFacts ==
  ASSUME NEW pc \in Unloaded
  PROVE  pc \notin LoadedX /\ pc \notin LoadedY /\ pc # "back"
BY DEF Unloaded, LoadedX, LoadedY

\* The floor moves down when the screen has been set up.
LEMMA FrameLower ==
  ASSUME NEW f, NEW floor \in Int, NEW lower \in Int, lower <= floor, FrameOK(f, floor)
  PROVE  FrameOK(f, lower)
BY DEF FrameOK

LEMMA IdleOK ==
  ASSUME NEW calls \in Seq(AllCalls), NEW direct, NEW floor
  PROVE  FrameOK(Idle(calls, direct), floor) /\ Idle(calls, direct).pc = "idle"
<1>1. "idle" \notin LoadedX /\ "idle" \notin LoadedY
  BY UnloadedFacts DEF Unloaded
<1>2. IsFrame(Idle(calls, direct))
  BY DEF IsFrame, Idle, Fields
<1>3. Idle(calls, direct).pc = "idle" /\ Idle(calls, direct).calls = calls /\ Idle(calls, direct).then = "idle"
  BY DEF Idle
<1> QED BY <1>1, <1>2, <1>3 DEF FrameOK

LEMMA ReturnOK ==
  ASSUME NEW f, NEW floor, FrameOK(f, floor), f.calls # <<>>
  PROVE  LET g == [f EXCEPT !.pc = "idle", !.calls = Tail(@)] IN FrameOK(g, floor) /\ g.pc = "idle"
<1> DEFINE g == [f EXCEPT !.pc = "idle", !.calls = Tail(@)]
<1>1. IsFrame(g) /\ g.pc = "idle" /\ g.calls = Tail(f.calls) /\ g.then = f.then
  BY DEF FrameOK, IsFrame, Fields
<1>2. Tail(f.calls) \in Seq(AllCalls)
  BY HeadTailProperties DEF FrameOK
<1>3. "idle" \notin LoadedX /\ "idle" \notin LoadedY
  BY UnloadedFacts DEF Unloaded
<1> HIDE DEF g
<1>4. FrameOK(g, floor)
  BY <1>1, <1>2, <1>3 DEF FrameOK
<1> QED BY <1>1, <1>4 DEF g

(***************************************************************************)
(* What a step of one context keeps                                        *)
(***************************************************************************)

LEMMA Move ==
  ASSUME ScreenInv, NEW c \in Contexts, Running(c), NEW g, frames' = [frames EXCEPT ![c] = g],
         FrameOK(g, Floor), UNCHANGED stride, fb' \in BOOLEAN, auto_flush_enabled' \in BOOLEAN, ~stray',
         cursor_x' \in Int, cursor_x' >= Floor, cursor_y' \in LineTops,
         \A d \in Contexts \ {c} : Pending(d) => cursor_x' >= Floor + CellWidth,
         g.pc = "back" => cursor_x' >= MarginX + CellWidth
  PROVE  ScreenInv'
<1>1. /\ stride \in {0, Stride} /\ frames = [d \in Contexts |-> frames[d]]
      /\ \A d \in Contexts : FrameOK(frames[d], Floor)
      /\ stride = 0 => frames["thread1"].pc = "idle"
  BY DEF ScreenInv, FramesInv
<1>2. frames'[c] = g /\ \A d \in Contexts \ {c} : frames'[d] = frames[d]
  BY <1>1
<1>3. Floor' = Floor /\ Floor \in Int /\ CellWidth \in Nat /\ MarginX \in Nat
  BY <1>1, FloorFacts, Sizes DEF Floor
<1>4. FramesInv'
  <2>1. frames' = [d \in Contexts |-> frames'[d]]
    BY <1>1
  <2>2. \A d \in Contexts : FrameOK(frames'[d], Floor)
    BY <1>1, <1>2
  <2>3. (stride = 0 => frames["thread1"].pc = "idle")'
    BY <1>1, <1>2 DEF Contexts, Running
  <2> QED BY <1>3, <2>1, <2>2, <2>3 DEF FramesInv
<1>5. ASSUME NEW d \in Contexts, Pending(d)' PROVE cursor_x' >= Floor + CellWidth
  <2>1. CASE d = c
    BY <1>1, <1>2, <1>3, <1>5, <2>1, FloorFacts DEF Pending
  <2>2. CASE d # c
    BY <1>2, <1>5, <2>2 DEF Pending
  <2> QED BY <2>1, <2>2
<1>6. ASSUME \A d \in Contexts : Pending(d)' PROVE cursor_x' >= Floor + 2 * CellWidth
  <2>1. g.pc = "back" /\ stride # 0
    <3>1. frames'[c].pc = "back" /\ frames'["thread1"].pc = "back"
      BY <1>6 DEF Pending, Contexts
    <3>2. (stride = 0 => frames["thread1"].pc = "idle")'
      BY <1>4 DEF FramesInv
    <3> QED BY <1>2, <3>1, <3>2
  <2> QED BY <1>1, <1>3, <2>1, FloorFacts
<1>7. CursorInv'
  BY <1>3, <1>5, <1>6 DEF CursorInv
<1> QED BY <1>4, <1>7 DEF ScreenInv

\* The cursor stays in its column.
LEMMA Stay ==
  ASSUME ScreenInv, NEW c \in Contexts, Running(c), NEW g, frames' = [frames EXCEPT ![c] = g],
         FrameOK(g, Floor), UNCHANGED <<stride, cursor_x>>, fb' \in BOOLEAN, auto_flush_enabled' \in BOOLEAN,
         ~stray', cursor_y' \in LineTops, g.pc = "back" => cursor_x >= MarginX + CellWidth
  PROVE  ScreenInv'
<1>1. cursor_x' \in Int /\ cursor_x' >= Floor /\ \A d \in Contexts : Pending(d) => cursor_x' >= Floor + CellWidth
  BY DEF ScreenInv, CursorInv
<1>2. g.pc = "back" => cursor_x' >= MarginX + CellWidth
  OBVIOUS
<1> QED BY <1>1, <1>2, Move

\* The cursor moves to a column that is not left of the margin.
LEMMA Right ==
  ASSUME ScreenInv, NEW c \in Contexts, Running(c), NEW g, frames' = [frames EXCEPT ![c] = g],
         FrameOK(g, Floor), UNCHANGED stride, fb' \in BOOLEAN, auto_flush_enabled' \in BOOLEAN, ~stray',
         cursor_x' \in Int, cursor_x' >= MarginX, cursor_y' \in LineTops, g.pc # "back"
  PROVE  ScreenInv'
<1>1. stride \in {0, Stride} /\ Floor \in Int /\ Floor <= MarginX /\ CellWidth \in Nat /\ MarginX \in Nat
  BY FloorFacts, Sizes DEF ScreenInv
<1>2. cursor_x' >= Floor
  BY <1>1
<1>3. ASSUME NEW d \in Contexts \ {c}, Pending(d) PROVE cursor_x' >= Floor + CellWidth
  <2>1. stride # 0
    BY <1>3 DEF ScreenInv, FramesInv, Pending, Running, Contexts
  <2> QED BY <1>1, <2>1, FloorFacts
<1> QED BY <1>2, <1>3, Move

LEMMA Facts ==
  ASSUME ScreenInv, NEW c \in Contexts
  PROVE  /\ FrameOK(frames[c], Floor) /\ Floor \in Int /\ Floor <= MarginX /\ Floor + CellWidth >= MarginX
         /\ cursor_x \in Int /\ cursor_x >= Floor /\ cursor_y \in LineTops
         /\ ~stray /\ fb \in BOOLEAN /\ auto_flush_enabled \in BOOLEAN /\ stride \in {0, Stride}
BY FloorFacts DEF ScreenInv, CursorInv, FramesInv

LEMMA LoadsFacts ==
  ASSUME ScreenInv, NEW c \in Contexts
  PROVE  /\ frames[c].pc \in LoadedX => \A x \in Loads(frames[c].x, cursor_x) : x \in Int /\ x >= Floor
         /\ frames[c].pc \in LoadedY => \A y \in Loads(frames[c].y, cursor_y) : y \in LineTops
         /\ frames[c].pc = "back" =>
              \A x \in Loads(frames[c].x, cursor_x) : x \in Int /\ x >= Floor + CellWidth
         /\ frames[c].pc # "idle" => frames[c].calls # <<>>
<1>1. FrameOK(frames[c], Floor) /\ cursor_x \in Int /\ cursor_x >= Floor /\ cursor_y \in LineTops
  BY Facts
<1>2. Pending(c) => cursor_x >= Floor + CellWidth
  BY DEF ScreenInv, CursorInv
<1>3. frames[c].pc = "back" => frames[c].x \in Int /\ frames[c].x >= Floor + CellWidth
  BY <1>1, Facts, Sizes DEF FrameOK, LoadedX
<1> QED BY <1>1, <1>2, <1>3 DEF FrameOK, Loads, Pending

(***************************************************************************)
(* The calls that are one step, and panics                                 *)
(***************************************************************************)

\* A context that is idle afterwards; its step may be the one that sets up the screen.
LEMMA ToIdle ==
  ASSUME ScreenInv, NEW c \in Contexts, Running(c), NEW g, frames' = [frames EXCEPT ![c] = g],
         FrameOK(g, Floor), g.pc = "idle", stride' \in {stride, Stride}, fb' \in BOOLEAN,
         auto_flush_enabled' \in BOOLEAN, ~stray', UNCHANGED cursorVars
  PROVE  ScreenInv'
<1>1. /\ stride \in {0, Stride} /\ frames = [d \in Contexts |-> frames[d]]
      /\ \A d \in Contexts : FrameOK(frames[d], Floor)
      /\ stride = 0 => frames["thread1"].pc = "idle"
      /\ cursor_x \in Int /\ cursor_x >= Floor /\ cursor_y \in LineTops
  BY DEF ScreenInv, FramesInv, CursorInv
<1>2. CASE stride' = stride
  BY <1>1, <1>2, Stay DEF ScreenInv, cursorVars
<1>3. CASE stride' # stride
  <2>1. stride = 0 /\ stride' = Stride /\ Stride # 0 /\ c = "kmain"
    BY <1>1, <1>3 DEF Running, Contexts
  <2>2. Floor = MarginX /\ Floor' = MarginX - CellWidth /\ MarginX \in Nat /\ CellWidth \in Nat
    BY <2>1, Sizes DEF Floor
  <2>3. FramesInv'
    <3>1. \A d \in Contexts : FrameOK(frames'[d], Floor)
      BY <1>1
    <3>2. \A d \in Contexts : FrameOK(frames'[d], Floor')
      BY <2>2, <3>1, FrameLower
    <3> QED BY <1>1, <2>1, <3>2 DEF FramesInv
  <2>4. \A d \in Contexts : ~Pending(d)'
    BY <1>1, <2>1 DEF Pending, Contexts
  <2>5. CursorInv'
    <3>1. "kmain" \in Contexts
      BY DEF Contexts
    <3> QED BY <1>1, <2>2, <2>4, <3>1 DEF CursorInv, cursorVars
  <2> QED BY <2>1, <2>3, <2>5 DEF ScreenInv
<1> QED BY <1>2, <1>3

LEMMA PanicsOK ==
  ASSUME NEW c \in Contexts, Panics(c), NEW floor
  PROVE  \E g : frames' = [frames EXCEPT ![c] = g] /\ FrameOK(g, floor) /\ g.pc = "idle"
<1>1. PICK text \in PanicTexts :
        frames' = [frames EXCEPT ![c] = Idle(<<Clearing, Message(text), FaceCall>>, TRUE)]
  BY DEF Panics, Clearing, FaceCall
<1> DEFINE calls == <<Clearing, Message(text), FaceCall>>
<1>2. calls \in Seq(AllCalls)
  BY CallFacts
<1> HIDE DEF calls
<1>3. FrameOK(Idle(calls, TRUE), floor) /\ Idle(calls, TRUE).pc = "idle"
  BY <1>2, IdleOK
<1> QED BY <1>1, <1>3 DEF calls

LEMMA CallReturns ==
  ASSUME ScreenInv, NEW c \in Contexts, frames[c].calls # <<>>, Return(c)
  PROVE  \E g : frames' = [frames EXCEPT ![c] = g] /\ FrameOK(g, Floor) /\ g.pc = "idle"
<1> DEFINE f == frames[c]
           g == [f EXCEPT !.pc = "idle", !.calls = Tail(@)]
<1>1. frames' = [frames EXCEPT ![c] = g]
  BY DEF Return
<1>2. FrameOK(g, Floor) /\ g.pc = "idle"
  BY Facts, ReturnOK
<1> QED BY <1>1, <1>2

LEMMA KernelPanic ==
  ASSUME ScreenInv, NEW c \in Contexts, kernel_panic(c)
  PROVE  ScreenInv'
<1>1. PICK g : frames' = [frames EXCEPT ![c] = g] /\ FrameOK(g, Floor) /\ g.pc = "idle"
  BY PanicsOK DEF kernel_panic
<1> QED BY <1>1, Facts, ToIdle DEF kernel_panic

LEMMA ScreenInitialised ==
  ASSUME ScreenInv, NEW c \in Contexts, screen_init(c)
  PROVE  ScreenInv'
<1>1. Running(c) /\ frames[c].calls # <<>>
  BY DEF screen_init, Calls, At
<1>2. stride' \in {stride, Stride} /\ fb' \in BOOLEAN /\ UNCHANGED <<auto_flush_enabled, cursorVars, stray>>
  BY Facts DEF screen_init
<1>3. PICK g : frames' = [frames EXCEPT ![c] = g] /\ FrameOK(g, Floor) /\ g.pc = "idle"
  BY <1>1, PanicsOK, CallReturns DEF screen_init
<1> QED BY <1>1, <1>2, <1>3, Facts, ToIdle

LEMMA ScreenCleared ==
  ASSUME ScreenInv, NEW c \in Contexts, screen_clear(c)
  PROVE  ScreenInv'
<1>1. Running(c) /\ frames[c].calls # <<>>
  BY DEF screen_clear, Calls, At
<1>2. PICK g : frames' = [frames EXCEPT ![c] = g] /\ FrameOK(g, Floor) /\ g.pc = "idle"
  BY <1>1, CallReturns DEF screen_clear
<1>3. UNCHANGED <<fb, stride, auto_flush_enabled, stray>>
  BY DEF screen_clear
<1>4. UNCHANGED cursorVars \/ (cursor_x' = MarginX /\ cursor_y' = MarginY)
  BY DEF screen_clear, reset_cursor
<1>5. CASE UNCHANGED cursorVars
  BY <1>1, <1>2, <1>3, <1>5, Facts, ToIdle
<1>6. CASE cursor_x' = MarginX /\ cursor_y' = MarginY
  <2>1. MarginY \in LineTops
    <3>1. MarginY = MarginY + 0 * CellHeight
      BY Sizes
    <3> QED BY <3>1 DEF LineTops
  <2>2. fb' \in BOOLEAN /\ auto_flush_enabled' \in BOOLEAN /\ ~stray'
    BY <1>3, Facts
  <2>3. cursor_x' \in Int /\ cursor_x' >= MarginX /\ g.pc # "back"
    BY <1>2, <1>6, Sizes
  <2> QED BY <1>1, <1>2, <1>3, <1>6, <2>1, <2>2, <2>3, Right
<1> QED BY <1>4, <1>5, <1>6

\* The face is drawn where it is on the screen.
LEMMA FaceDrawn ==
  ASSUME ScreenInv, NEW c \in Contexts, draw_sad_face(c)
  PROVE  ScreenInv'
<1>1. Running(c) /\ frames[c].calls # <<>> /\ UNCHANGED <<fb, stride, auto_flush_enabled, cursorVars>>
  BY DEF draw_sad_face, Calls, At, stateVars
<1>2. PICK g : frames' = [frames EXCEPT ![c] = g] /\ FrameOK(g, Floor) /\ g.pc = "idle"
  BY <1>1, CallReturns DEF draw_sad_face
<1> DEFINE at == {Index(p[1], p[2]) : p \in Face(cursor_y)}
<1>3. at \subseteq Places
  <2>1. \A p \in Face(cursor_y) : screen_put_pixel(p[1], p[2])
    BY DEF Face
  <2>2. stride \in {0, Stride}
    BY Facts
  <2> QED BY <2>1, <2>2, PixelInBounds DEF screen_put_pixel
<1> HIDE DEF at
<1>4. ~stray'
  BY <1>3, Facts DEF draw_sad_face, Store, at
<1> QED BY <1>1, <1>2, <1>4, Facts, ToIdle

LEMMA ScreenFlushed ==
  ASSUME ScreenInv, NEW c \in Contexts, screen_flush(c)
  PROVE  ScreenInv'
<1>1. Running(c) /\ frames[c].calls # <<>>
  BY DEF screen_flush, Calls, At
<1>2. PICK g : frames' = [frames EXCEPT ![c] = g] /\ FrameOK(g, Floor) /\ g.pc = "idle"
  BY <1>1, CallReturns DEF screen_flush
<1>3. UNCHANGED <<fb, stride, auto_flush_enabled, stray, cursorVars>>
  BY DEF screen_flush, stateVars
<1> QED BY <1>1, <1>2, <1>3, Facts, ToIdle

LEMMA AutoFlushSet ==
  ASSUME ScreenInv, NEW c \in Contexts, set_auto_flush(c)
  PROVE  ScreenInv'
<1>1. Running(c) /\ frames[c].calls # <<>> /\ Head(frames[c].calls).f = "set_auto_flush"
  BY DEF set_auto_flush, Calls, At
<1>2. PICK g : frames' = [frames EXCEPT ![c] = g] /\ FrameOK(g, Floor) /\ g.pc = "idle"
  BY <1>1, CallReturns DEF set_auto_flush
<1>3. UNCHANGED <<fb, stride, stray, cursorVars>> /\ auto_flush_enabled' = Head(frames[c].calls).enable
  BY DEF set_auto_flush, Argument
<1>4. Head(frames[c].calls) \in AllCalls
  BY <1>1, Facts, HeadTailProperties DEF FrameOK
<1>5. auto_flush_enabled' \in BOOLEAN
  BY <1>1, <1>3, <1>4, CallFacts
<1> QED BY <1>1, <1>2, <1>3, <1>5, Facts, ToIdle

(***************************************************************************)
(* Formats and segments                                                    *)
(***************************************************************************)

LEMMA NextCharacterOK ==
  ASSUME ScreenInv, NEW c \in Contexts, frames[c].pc # "idle", NextCharacter(c)
  PROVE  \E g : frames' = [frames EXCEPT ![c] = g] /\ FrameOK(g, Floor) /\ g.pc = "char"
<1> DEFINE f == frames[c]
           g == [f EXCEPT !.pc = "char", !.text = Tail(f.text)]
<1>1. frames' = [frames EXCEPT ![c] = g]
  BY DEF NextCharacter
<1>2. FrameOK(f, Floor) /\ f.calls # <<>> /\ "char" \in Unloaded
  BY Facts, LoadsFacts DEF Unloaded
<1>3. IsFrame(g) /\ g.pc = "char" /\ g.calls = f.calls /\ g.then = f.then
  BY <1>2 DEF FrameOK, IsFrame, Fields
<1> HIDE DEF f, g
<1>4. FrameOK(g, Floor)
  BY <1>2, <1>3, UnloadedFacts DEF FrameOK
<1> QED BY <1>1, <1>3, <1>4

LEMMA CallNewLineOK ==
  ASSUME ScreenInv, NEW c \in Contexts, frames[c].pc # "idle", NEW then \in {"next", "cell"},
         CallNewLine(c, then)
  PROVE  \E g : frames' = [frames EXCEPT ![c] = g] /\ FrameOK(g, Floor) /\ g.pc = "newline"
<1> DEFINE f == frames[c]
           g == [f EXCEPT !.pc = "newline", !.then = then]
<1>1. frames' = [frames EXCEPT ![c] = g]
  BY DEF CallNewLine
<1>2. FrameOK(f, Floor) /\ f.calls # <<>> /\ "newline" \in Unloaded
  BY Facts, LoadsFacts DEF Unloaded
<1>3. IsFrame(g) /\ g.pc = "newline" /\ g.calls = f.calls /\ g.then = then
  BY <1>2 DEF FrameOK, IsFrame, Fields
<1> HIDE DEF f, g
<1>4. FrameOK(g, Floor)
  BY <1>2, <1>3, UnloadedFacts DEF FrameOK
<1> QED BY <1>1, <1>3, <1>4

LEMMA GoesTo ==
  ASSUME ScreenInv, NEW c \in Contexts, frames[c].pc # "idle", NEW pc, pc # "back", Goto(c, pc),
         pc \in LoadedX => frames[c].pc \in LoadedX, pc \in LoadedY => frames[c].pc \in LoadedY
  PROVE  \E g : frames' = [frames EXCEPT ![c] = g] /\ FrameOK(g, Floor) /\ g.pc = pc
<1> DEFINE f == frames[c]
           g == [f EXCEPT !.pc = pc]
<1>1. frames' = [frames EXCEPT ![c] = g]
  BY DEF Goto
<1>2. FrameOK(f, Floor) /\ f.calls # <<>>
  BY Facts, LoadsFacts
<1>3. (pc \in LoadedX => f.x \in Int /\ f.x >= Floor) /\ (pc \in LoadedY => f.y \in LineTops)
  BY <1>2 DEF FrameOK
<1>4. IsFrame(g) /\ g.pc = pc /\ g.x = f.x /\ g.y = f.y /\ g.calls = f.calls /\ g.then = f.then
  BY <1>2 DEF FrameOK, IsFrame, Fields
<1> HIDE DEF f, g
<1>5. FrameOK(g, Floor)
  BY <1>2, <1>3, <1>4 DEF FrameOK
<1> QED BY <1>1, <1>4, <1>5

LEMMA ContinuesTo ==
  ASSUME ScreenInv, NEW c \in Contexts, frames[c].pc # "idle", NEW pc, NEW x \in Int, NEW y,
         Continue(c, pc, x, y), x >= Floor, pc \in LoadedY => y \in LineTops,
         pc = "back" => x >= MarginX + CellWidth
  PROVE  \E g : frames' = [frames EXCEPT ![c] = g] /\ FrameOK(g, Floor) /\ g.pc = pc
<1> DEFINE f == frames[c]
           g == [f EXCEPT !.pc = pc, !.x = x, !.y = y]
<1>1. frames' = [frames EXCEPT ![c] = g]
  BY DEF Continue
<1>2. FrameOK(f, Floor) /\ f.calls # <<>>
  BY Facts, LoadsFacts
<1>3. IsFrame(g) /\ g.pc = pc /\ g.x = x /\ g.y = y /\ g.calls = f.calls /\ g.then = f.then
  BY <1>2 DEF FrameOK, IsFrame, Fields
<1> HIDE DEF f, g
<1>4. FrameOK(g, Floor)
  BY <1>2, <1>3 DEF FrameOK
<1> QED BY <1>1, <1>3, <1>4

LEMMA ReturnNewLineOK ==
  ASSUME ScreenInv, NEW c \in Contexts, frames[c].pc \in {"newline_check", "scrolled"}, ReturnNewLine(c)
  PROVE  \E g : frames' = [frames EXCEPT ![c] = g] /\ FrameOK(g, Floor) /\ g.pc # "back"
<1>1. frames[c].pc # "idle" /\ frames[c].pc \in LoadedX
  BY DEF LoadedX
<1>2. CASE frames[c].then = "next"
  BY <1>1, <1>2, NextCharacterOK DEF ReturnNewLine
<1>3. CASE frames[c].then # "next"
  <2>1. Goto(c, frames[c].then) /\ frames[c].then \in {"idle", "cell"}
    BY <1>3, Facts DEF ReturnNewLine, FrameOK
  <2>2. frames[c].then \notin LoadedY /\ frames[c].then # "back"
    BY <2>1 DEF LoadedY
  <2> QED BY <1>1, <2>1, <2>2, GoesTo
<1> QED BY <1>2, <1>3

\* A format begun, and the first of it that is one colour.
LEMMA FormatStep ==
  ASSUME ScreenInv, NEW c \in Contexts, kprintf(c)
  PROVE  ScreenInv'
<1> DEFINE f == frames[c]
           g == [f EXCEPT !.pc = "segment", !.fmt = Argument(c).fmt, !.args = Argument(c).args,
                          !.color = Argument(c).color]
<1>1. Running(c) /\ f.calls # <<>> /\ frames' = [frames EXCEPT ![c] = g]
  BY DEF kprintf, Calls, At
<1>2. FrameOK(f, Floor) /\ "segment" \in Unloaded
  BY Facts DEF Unloaded
<1>3. FrameOK(g, Floor) /\ g.pc = "segment"
  <2>1. IsFrame(g) /\ g.pc = "segment" /\ g.calls = f.calls /\ g.then = f.then
    BY <1>2 DEF FrameOK, IsFrame, Fields
  <2> HIDE DEF g, f
  <2> QED BY <1>1, <1>2, <2>1, UnloadedFacts DEF FrameOK
<1>4. UNCHANGED <<fb, stride, auto_flush_enabled, stray, cursor_x, cursor_y>>
  BY DEF kprintf, stateVars, cursorVars
<1> HIDE DEF g
<1> QED BY <1>1, <1>3, <1>4, Facts, Stay

LEMMA SegmentStep ==
  ASSUME ScreenInv, NEW c \in Contexts, flush_formatted_segment(c)
  PROVE  ScreenInv'
<1> DEFINE f == frames[c]
<1>1. Running(c) /\ f.pc = "segment"
  BY DEF flush_formatted_segment, At
<1>2. PICK text : frames' = [frames EXCEPT ![c] = [f EXCEPT !.pc = "char", !.text = text]]
  BY DEF flush_formatted_segment
<1> DEFINE g == [f EXCEPT !.pc = "char", !.text = text]
<1>3. FrameOK(f, Floor) /\ f.calls # <<>> /\ "char" \in Unloaded
  BY <1>1, Facts, LoadsFacts DEF Unloaded
<1>4. IsFrame(g) /\ g.pc = "char" /\ g.calls = f.calls /\ g.then = f.then
  BY <1>3 DEF FrameOK, IsFrame, Fields
<1>5. UNCHANGED <<fb, stride, auto_flush_enabled, stray, cursor_x, cursor_y>>
  BY DEF flush_formatted_segment, stateVars, cursorVars
<1>6. frames' = [frames EXCEPT ![c] = g]
  BY <1>2
<1> HIDE DEF f, g
<1>7. FrameOK(g, Floor)
  BY <1>3, <1>4, UnloadedFacts DEF FrameOK
<1> QED BY <1>1, <1>4, <1>5, <1>6, <1>7, Facts, Stay

LEMMA SegmentDone ==
  ASSUME ScreenInv, NEW c \in Contexts, segment_done(c)
  PROVE  ScreenInv'
<1> DEFINE f == frames[c]
<1>1. Running(c) /\ f.pc = "char"
  BY DEF segment_done, At
<1>2. UNCHANGED <<fb, stride, auto_flush_enabled, stray, cursor_x, cursor_y>>
  BY DEF segment_done, stateVars, cursorVars
<1>3. FrameOK(f, Floor) /\ f.calls # <<>>
  BY <1>1, Facts, LoadsFacts
<1>4. CASE Return(c)
  BY <1>1, <1>2, <1>3, <1>4, CallReturns, Facts, Stay
<1>5. CASE ~Return(c)
  <2>1. PICK color, args, fmt :
          frames' = [frames EXCEPT ![c] =
                       [f EXCEPT !.pc = "segment", !.color = color, !.args = args, !.fmt = fmt]]
    BY <1>5 DEF segment_done
  <2> DEFINE g == [f EXCEPT !.pc = "segment", !.color = color, !.args = args, !.fmt = fmt]
  <2>2. "segment" \in Unloaded
    BY DEF Unloaded
  <2>3. IsFrame(g) /\ g.pc = "segment" /\ g.calls = f.calls /\ g.then = f.then
    BY <1>3 DEF FrameOK, IsFrame, Fields
  <2>4. frames' = [frames EXCEPT ![c] = g]
    BY <2>1
  <2> HIDE DEF g, f
  <2>5. FrameOK(g, Floor)
    BY <1>3, <2>2, <2>3, UnloadedFacts DEF FrameOK
  <2> QED BY <1>1, <1>2, <2>3, <2>4, <2>5, Facts, Stay
<1> QED BY <1>4, <1>5

(***************************************************************************)
(* Characters                                                              *)
(***************************************************************************)

LEMMA Draws ==
  ASSUME ScreenInv, NEW c \in Contexts, Running(c), NEW g, frames' = [frames EXCEPT ![c] = g],
         FrameOK(g, Floor), g.pc # "back", Drawing, ~stray'
  PROVE  ScreenInv'
<1>1. UNCHANGED <<fb, stride, auto_flush_enabled, cursor_x, cursor_y>>
  BY DEF Drawing, stateVars, cursorVars
<1> QED BY <1>1, Facts, Stay

LEMMA Moves ==
  ASSUME ScreenInv, NEW c \in Contexts, Running(c), NEW g, frames' = [frames EXCEPT ![c] = g],
         FrameOK(g, Floor), g.pc # "back", Moving, cursor_y' \in LineTops,
         cursor_x' = cursor_x \/ (cursor_x' \in Int /\ cursor_x' >= MarginX)
  PROVE  ScreenInv'
<1>1. UNCHANGED <<fb, stride, auto_flush_enabled, stray>>
  BY DEF Moving, stateVars
<1>2. fb' \in BOOLEAN /\ auto_flush_enabled' \in BOOLEAN /\ ~stray'
  BY <1>1, Facts
<1>3. CASE cursor_x' = cursor_x
  BY <1>1, <1>2, <1>3, Stay
<1>4. CASE cursor_x' \in Int /\ cursor_x' >= MarginX
  BY <1>1, <1>2, <1>4, Right
<1> QED BY <1>3, <1>4

LEMMA OtherCharacter ==
  ASSUME ScreenInv, NEW c \in Contexts, other_character(c)
  PROVE  ScreenInv'
<1>1. Running(c) /\ frames[c].pc = "char" /\ Moving /\ cursor_y' = cursor_y
  BY DEF other_character, OnCharacter, At
<1>2. cursor_x' = cursor_x \/ (cursor_x' \in Int /\ cursor_x' >= MarginX)
  BY Sizes DEF other_character
<1>3. CallNewLine(c, "next") \/ NextCharacter(c)
  BY DEF other_character
<1>4. PICK g : frames' = [frames EXCEPT ![c] = g] /\ FrameOK(g, Floor) /\ g.pc # "back"
  BY <1>1, <1>3, CallNewLineOK, NextCharacterOK
<1> QED BY <1>1, <1>2, <1>4, Facts, Moves

LEMMA CellBegins ==
  ASSUME ScreenInv, NEW c \in Contexts, cell_begins(c)
  PROVE  ScreenInv'
<1>1. Running(c) /\ frames[c].pc = "char" /\ Moving /\ UNCHANGED <<cursor_x, cursor_y>>
  BY DEF cell_begins, At, cursorVars
<1>2. CallNewLine(c, "cell") \/ Continue(c, "cell", cursor_x, frames[c].y)
  BY DEF cell_begins
<1>3. "cell" \notin LoadedY
  BY DEF LoadedY
<1>4. PICK g : frames' = [frames EXCEPT ![c] = g] /\ FrameOK(g, Floor) /\ g.pc # "back"
  BY <1>1, <1>2, <1>3, Facts, CallNewLineOK, ContinuesTo
<1> QED BY <1>1, <1>4, Facts, Moves

LEMMA CellDrawn ==
  ASSUME ScreenInv, NEW c \in Contexts, cell(c)
  PROVE  ScreenInv'
<1>1. Running(c) /\ frames[c].pc = "cell" /\ Drawing
  BY DEF cell, At
<1>2. PICK x \in Loads(frames[c].x, cursor_x) :
        /\ IF Character(c) = " " THEN fill_rect(c, x, cursor_y)
           ELSE blit32_TextNExplicit(c, Character(c), x, cursor_y)
        /\ Continue(c, "cell_ends", x, frames[c].y)
  BY DEF cell
<1>3. x \in Int /\ x >= Floor /\ "cell_ends" \notin LoadedY
  BY <1>1, LoadsFacts DEF LoadedX, LoadedY
<1>4. PICK g : frames' = [frames EXCEPT ![c] = g] /\ FrameOK(g, Floor) /\ g.pc = "cell_ends"
  <2>1. Continue(c, "cell_ends", x, frames[c].y)
    BY <1>2
  <2> QED BY <1>1, <1>3, <2>1, ContinuesTo
<1>5. ~stray'
  <2>1. CASE fill_rect(c, x, cursor_y)
    BY <2>1, Facts, RectInBounds
  <2>2. CASE blit32_TextNExplicit(c, Character(c), x, cursor_y)
    BY <1>3, <2>2, Facts, GlyphInBounds
  <2> QED BY <1>2, <2>1, <2>2
<1> QED BY <1>1, <1>4, <1>5, Draws

LEMMA CellEnds ==
  ASSUME ScreenInv, NEW c \in Contexts, cell_ends(c)
  PROVE  ScreenInv'
<1>1. Running(c) /\ frames[c].pc = "cell_ends" /\ Moving /\ cursor_y' = cursor_y
  BY DEF cell_ends, At
<1>2. PICK x \in Loads(frames[c].x, cursor_x) : cursor_x' = x + CellWidth
  BY DEF cell_ends
<1>3. x \in Int /\ x >= Floor
  BY <1>1, LoadsFacts DEF LoadedX
<1>4. cursor_x' \in Int /\ cursor_x' >= MarginX
  BY <1>2, <1>3, Facts, Sizes
<1>5. PICK g : frames' = [frames EXCEPT ![c] = g] /\ FrameOK(g, Floor) /\ g.pc = "char"
  BY <1>1, NextCharacterOK DEF cell_ends
<1> QED BY <1>1, <1>4, <1>5, Facts, Moves

LEMMA TabBegins ==
  ASSUME ScreenInv, NEW c \in Contexts, tab_begins(c)
  PROVE  ScreenInv'
<1> DEFINE f == frames[c]
           g == [f EXCEPT !.pc = "tab", !.x = cursor_x, !.tabs = TabSize]
<1>1. Running(c) /\ f.pc = "char" /\ Moving /\ UNCHANGED <<cursor_x, cursor_y>>
  BY DEF tab_begins, OnCharacter, At, cursorVars
<1>2. CallNewLine(c, "next") \/ frames' = [frames EXCEPT ![c] = g]
  BY DEF tab_begins
<1>3. FrameOK(f, Floor) /\ f.calls # <<>> /\ "tab" \notin LoadedY
  BY <1>1, Facts, LoadsFacts DEF LoadedY
<1>4. IsFrame(g) /\ g.pc = "tab" /\ g.x = cursor_x /\ g.calls = f.calls /\ g.then = f.then
  BY <1>3 DEF FrameOK, IsFrame, Fields
<1> HIDE DEF g
<1>5. FrameOK(g, Floor)
  BY <1>3, <1>4, Facts DEF FrameOK
<1>6. CASE CallNewLine(c, "next")
  <2>1. PICK n : frames' = [frames EXCEPT ![c] = n] /\ FrameOK(n, Floor) /\ n.pc = "newline"
    BY <1>1, <1>6, CallNewLineOK
  <2> QED BY <1>1, <2>1, Facts, Moves
<1>7. CASE frames' = [frames EXCEPT ![c] = g]
  BY <1>1, <1>4, <1>5, <1>7, Facts, Moves
<1> QED BY <1>2, <1>6, <1>7

LEMMA TabCell ==
  ASSUME ScreenInv, NEW c \in Contexts, tab_cell(c)
  PROVE  ScreenInv'
<1> DEFINE f == frames[c]
           g == [f EXCEPT !.tabs = f.tabs - 1]
<1>1. Running(c) /\ f.pc = "tab" /\ Drawing
  BY DEF tab_cell, At
<1>2. PICK x \in Loads(f.x, cursor_x) :
        \/ fill_rect(c, x, cursor_y) /\ Continue(c, "tab_ends", x, f.y)
        \/ stray' = stray /\ frames' = [frames EXCEPT ![c] = g]
  BY DEF tab_cell
<1>3. x \in Int /\ x >= Floor /\ "tab_ends" \notin LoadedY /\ "tab" \in LoadedX
  BY <1>1, LoadsFacts DEF LoadedX, LoadedY
<1>4. CASE fill_rect(c, x, cursor_y) /\ Continue(c, "tab_ends", x, f.y)
  <2>1. PICK n : frames' = [frames EXCEPT ![c] = n] /\ FrameOK(n, Floor) /\ n.pc = "tab_ends"
    BY <1>1, <1>3, <1>4, ContinuesTo
  <2>2. ~stray'
    BY <1>4, Facts, RectInBounds
  <2> QED BY <1>1, <2>1, <2>2, Draws
<1>5. CASE stray' = stray /\ frames' = [frames EXCEPT ![c] = g]
  <2>1. FrameOK(f, Floor)
    BY Facts
  <2>2. IsFrame(g) /\ g.pc = f.pc /\ g.x = f.x /\ g.y = f.y /\ g.calls = f.calls /\ g.then = f.then
    BY <2>1 DEF FrameOK, IsFrame, Fields
  <2> HIDE DEF g
  <2>3. FrameOK(g, Floor)
    BY <2>1, <2>2 DEF FrameOK
  <2> QED BY <1>1, <1>5, <2>2, <2>3, Facts, Draws
<1> QED BY <1>2, <1>4, <1>5

LEMMA TabEnds ==
  ASSUME ScreenInv, NEW c \in Contexts, tab_ends(c)
  PROVE  ScreenInv'
<1> DEFINE f == frames[c]
           g == [f EXCEPT !.pc = "tab", !.x = cursor_x', !.tabs = f.tabs - 1]
<1>1. Running(c) /\ f.pc \in {"tab", "tab_ends"} /\ Moving /\ cursor_y' = cursor_y
  BY DEF tab_ends, At
<1>2. CASE f.pc = "tab"
  <2>1. NextCharacter(c) /\ cursor_x' = cursor_x
    BY <1>2 DEF tab_ends, At
  <2>2. PICK n : frames' = [frames EXCEPT ![c] = n] /\ FrameOK(n, Floor) /\ n.pc = "char"
    BY <1>1, <2>1, NextCharacterOK
  <2> QED BY <1>1, <2>1, <2>2, Facts, Moves
<1>3. CASE f.pc = "tab_ends"
  <2>1. PICK x \in Loads(f.x, cursor_x) : cursor_x' = x + CellWidth
    BY <1>3 DEF tab_ends, At
  <2>2. frames' = [frames EXCEPT ![c] = g]
    BY <1>3 DEF tab_ends, At
  <2>3. x \in Int /\ x >= Floor /\ "tab" \notin LoadedY
    BY <1>3, LoadsFacts DEF LoadedX, LoadedY
  <2>4. cursor_x' \in Int /\ cursor_x' >= MarginX /\ cursor_x' >= Floor
    BY <2>1, <2>3, Facts, Sizes
  <2>5. FrameOK(f, Floor) /\ f.calls # <<>>
    BY <1>3, Facts, LoadsFacts
  <2>6. IsFrame(g) /\ g.pc = "tab" /\ g.x = cursor_x' /\ g.calls = f.calls /\ g.then = f.then
    BY <2>5 DEF FrameOK, IsFrame, Fields
  <2> HIDE DEF g
  <2>7. FrameOK(g, Floor)
    BY <2>3, <2>4, <2>5, <2>6 DEF FrameOK
  <2> QED BY <1>1, <2>2, <2>4, <2>6, <2>7, Facts, Moves
<1> QED BY <1>1, <1>2, <1>3

LEMMA BackBegins ==
  ASSUME ScreenInv, NEW c \in Contexts, back_begins(c)
  PROVE  ScreenInv'
<1>1. Running(c) /\ frames[c].pc = "char" /\ Moving /\ UNCHANGED <<cursor_x, cursor_y>>
  BY DEF back_begins, OnCharacter, At, cursorVars
<1>2. UNCHANGED <<fb, stride, auto_flush_enabled, stray>>
  BY <1>1 DEF Moving, stateVars
<1>3. \/ cursor_x >= MarginX + CellWidth /\ Continue(c, "back", cursor_x, cursor_y)
      \/ Continue(c, "back_line", cursor_x, cursor_y)
      \/ NextCharacter(c)
  BY DEF back_begins
<1>4. CASE cursor_x >= MarginX + CellWidth /\ Continue(c, "back", cursor_x, cursor_y)
  <2>1. PICK g : frames' = [frames EXCEPT ![c] = g] /\ FrameOK(g, Floor) /\ g.pc = "back"
    BY <1>1, <1>4, Facts, ContinuesTo
  <2> QED BY <1>1, <1>2, <1>4, <2>1, Facts, Stay
<1>5. CASE Continue(c, "back_line", cursor_x, cursor_y)
  <2>1. PICK g : frames' = [frames EXCEPT ![c] = g] /\ FrameOK(g, Floor) /\ g.pc = "back_line"
    BY <1>1, <1>5, Facts, ContinuesTo
  <2> QED BY <1>1, <2>1, Facts, Moves
<1>6. CASE NextCharacter(c)
  <2>1. PICK g : frames' = [frames EXCEPT ![c] = g] /\ FrameOK(g, Floor) /\ g.pc = "char"
    BY <1>1, <1>6, NextCharacterOK
  <2> QED BY <1>1, <2>1, Facts, Moves
<1> QED BY <1>3, <1>4, <1>5, <1>6

\* Back a cell: with another context about to go back there were two cells.
LEMMA BackCell ==
  ASSUME ScreenInv, NEW c \in Contexts, frames[c].pc = "back", back(c)
  PROVE  ScreenInv'
<1>1. Running(c) /\ Moving /\ UNCHANGED cursor_y
  BY DEF back, At
<1>2. PICK x \in Loads(frames[c].x, cursor_x) : cursor_x' = x - CellWidth
  BY DEF back, At
<1>3. Continue(c, "erase", cursor_x', cursor_y)
  BY DEF back, At
<1>4. /\ x \in Int /\ x >= Floor + CellWidth /\ Floor \in Int /\ CellWidth \in Nat /\ MarginX \in Nat
      /\ Floor <= MarginX
  BY LoadsFacts, Facts, Sizes
<1>5. cursor_x' \in Int /\ cursor_x' >= Floor
  BY <1>2, <1>4
<1>6. PICK g : frames' = [frames EXCEPT ![c] = g] /\ FrameOK(g, Floor) /\ g.pc = "erase"
  BY <1>3, <1>5, Facts, ContinuesTo
<1>7. ASSUME NEW d \in Contexts \ {c}, Pending(d) PROVE cursor_x' >= Floor + CellWidth
  <2>1. \A e \in Contexts : Pending(e)
    BY <1>7 DEF Pending, Contexts
  <2>2. cursor_x >= Floor + 2 * CellWidth /\ cursor_x \in Int
    BY <2>1 DEF ScreenInv, CursorInv
  <2>3. frames[c].x \in Int /\ frames[c].x >= MarginX + CellWidth
    BY Facts DEF FrameOK, LoadedX
  <2>4. stride # 0
    BY <2>1 DEF ScreenInv, FramesInv, Pending, Contexts
  <2>5. Floor + CellWidth = MarginX
    BY <2>4, FloorFacts, Facts
  <2> QED BY <1>2, <1>4, <2>2, <2>3, <2>5 DEF Loads
<1>8. UNCHANGED <<fb, stride, auto_flush_enabled, stray>>
  BY <1>1 DEF Moving, stateVars
<1> QED BY <1>1, <1>5, <1>6, <1>7, <1>8, Facts, Move

LEMMA Back ==
  ASSUME ScreenInv, NEW c \in Contexts, back(c)
  PROVE  ScreenInv'
<1>1. Running(c) /\ frames[c].pc \in {"back", "back_line", "back_up"} /\ Moving
  BY DEF back, At
<1>2. CASE frames[c].pc = "back"
  BY <1>2, BackCell
<1>3. CASE frames[c].pc = "back_line"
  <2>1. cursor_x' = LastColumn /\ cursor_y' = cursor_y
    BY <1>3 DEF back, At
  <2>2. PICK y \in Loads(frames[c].y, cursor_y) : Continue(c, "back_up", LastColumn, y)
    BY <1>3 DEF back, At
  <2>3. y \in LineTops /\ LastColumn \in Int /\ LastColumn >= MarginX /\ LastColumn >= Floor
    BY <1>3, LoadsFacts, Facts, Sizes DEF LoadedY
  <2>4. PICK g : frames' = [frames EXCEPT ![c] = g] /\ FrameOK(g, Floor) /\ g.pc = "back_up"
    BY <1>3, <2>2, <2>3, ContinuesTo
  <2> QED BY <1>1, <2>1, <2>3, <2>4, Facts, Moves
<1>4. CASE frames[c].pc = "back_up"
  <2>1. PICK y \in Loads(frames[c].y, cursor_y) : cursor_y' = y - CellHeight
    BY <1>4 DEF back, At
  <2>2. cursor_x' = cursor_x /\ Continue(c, "erase", frames[c].x, cursor_y')
    BY <1>4 DEF back, At
  <2>3. y \in LineTops /\ frames[c].x \in Int /\ frames[c].x >= Floor
    BY <1>4, LoadsFacts, Facts DEF LoadedX, LoadedY, FrameOK
  <2>4. cursor_y' \in LineTops /\ "erase" \notin LoadedY
    BY <2>1, <2>3, LineFacts DEF LoadedY
  <2>5. PICK g : frames' = [frames EXCEPT ![c] = g] /\ FrameOK(g, Floor) /\ g.pc = "erase"
    BY <1>4, <2>2, <2>3, <2>4, ContinuesTo
  <2> QED BY <1>1, <2>2, <2>4, <2>5, Moves
<1> QED BY <1>1, <1>2, <1>3, <1>4

LEMMA Erased ==
  ASSUME ScreenInv, NEW c \in Contexts, erase(c)
  PROVE  ScreenInv'
<1>1. Running(c) /\ frames[c].pc = "erase" /\ Drawing /\ NextCharacter(c)
  BY DEF erase, At
<1>2. PICK g : frames' = [frames EXCEPT ![c] = g] /\ FrameOK(g, Floor) /\ g.pc = "char"
  BY <1>1, NextCharacterOK
<1>3. PICK x, y : fill_rect(c, x, y)
  BY DEF erase
<1>4. ~stray'
  BY <1>3, Facts, RectInBounds
<1> QED BY <1>1, <1>2, <1>4, Draws

(***************************************************************************)
(* New lines                                                               *)
(***************************************************************************)

LEMMA NewLineStep ==
  ASSUME ScreenInv, NEW c \in Contexts, check_newline_and_scroll(c)
  PROVE  ScreenInv'
<1>1. /\ Running(c)
      /\ frames[c].pc \in {"newline", "newline_y", "newline_check", "scroll", "scroll_fill", "scrolled"}
  BY DEF check_newline_and_scroll, At
<1>2. MarginX \in Int /\ MarginX >= Floor
  BY Facts, Sizes
<1>3. CASE frames[c].pc = "newline"
  <2>1. cursor_x' = MarginX /\ Continue(c, "newline_y", MarginX, cursor_y) /\ cursor_y' = cursor_y /\ Moving
    BY <1>3 DEF check_newline_and_scroll, At
  <2>2. PICK g : frames' = [frames EXCEPT ![c] = g] /\ FrameOK(g, Floor) /\ g.pc = "newline_y"
    BY <1>2, <1>3, <2>1, Facts, ContinuesTo
  <2>3. cursor_x' \in Int /\ cursor_x' >= MarginX /\ cursor_y' \in LineTops /\ g.pc # "back"
    BY <1>2, <2>1, <2>2, Facts
  <2> QED BY <1>1, <2>1, <2>2, <2>3, Moves
<1>4. CASE frames[c].pc = "newline_y"
  <2>1. PICK y \in Loads(frames[c].y, cursor_y) : cursor_y' = y + CellHeight
    BY <1>4 DEF check_newline_and_scroll, At
  <2>2. Continue(c, "newline_check", MarginX, cursor_y') /\ cursor_x' = cursor_x /\ Moving
    BY <1>4 DEF check_newline_and_scroll, At
  <2>3. cursor_y' \in LineTops
    BY <1>4, <2>1, LoadsFacts, LineFacts DEF LoadedY
  <2>4. PICK g : frames' = [frames EXCEPT ![c] = g] /\ FrameOK(g, Floor) /\ g.pc = "newline_check"
    BY <1>2, <1>4, <2>2, <2>3, ContinuesTo
  <2> QED BY <1>1, <2>2, <2>3, <2>4, Moves
<1>5. CASE frames[c].pc = "newline_check"
  <2>1. (Goto(c, "scroll") \/ ReturnNewLine(c)) /\ UNCHANGED <<cursor_x, cursor_y>> /\ Moving
    BY <1>5 DEF check_newline_and_scroll, At, cursorVars
  <2>2. "newline_check" \in LoadedX /\ "scroll" \notin LoadedY
    BY DEF LoadedX, LoadedY
  <2>3. PICK g : frames' = [frames EXCEPT ![c] = g] /\ FrameOK(g, Floor) /\ g.pc # "back"
    BY <1>5, <2>1, <2>2, GoesTo, ReturnNewLineOK
  <2> QED BY <1>1, <2>1, <2>3, Facts, Moves
<1>6. CASE frames[c].pc = "scroll"
  <2>1. Goto(c, "scroll_fill") /\ stray' = stray /\ Drawing
    BY <1>6 DEF check_newline_and_scroll, At
  <2>2. "scroll" \in LoadedX /\ "scroll_fill" \notin LoadedY
    BY DEF LoadedX, LoadedY
  <2>3. PICK g : frames' = [frames EXCEPT ![c] = g] /\ FrameOK(g, Floor) /\ g.pc = "scroll_fill"
    BY <1>6, <2>1, <2>2, GoesTo
  <2> QED BY <1>1, <2>1, <2>3, Facts, Draws
<1>7. CASE frames[c].pc = "scroll_fill"
  <2>1. Continue(c, "scrolled", MarginX, cursor_y) /\ stray' = stray /\ Drawing
    BY <1>7 DEF check_newline_and_scroll, At
  <2>2. PICK g : frames' = [frames EXCEPT ![c] = g] /\ FrameOK(g, Floor) /\ g.pc = "scrolled"
    BY <1>2, <1>7, <2>1, Facts, ContinuesTo
  <2> QED BY <1>1, <2>1, <2>2, Facts, Draws
<1>8. CASE frames[c].pc = "scrolled"
  <2>1. PICK y \in Loads(frames[c].y, cursor_y) : cursor_y' = y - CellHeight
    BY <1>8 DEF check_newline_and_scroll, At
  <2>2. ReturnNewLine(c) /\ cursor_x' = cursor_x /\ Moving
    BY <1>8 DEF check_newline_and_scroll, At
  <2>3. cursor_y' \in LineTops
    BY <1>8, <2>1, LoadsFacts, LineFacts DEF LoadedY
  <2>4. PICK g : frames' = [frames EXCEPT ![c] = g] /\ FrameOK(g, Floor) /\ g.pc # "back"
    BY <1>8, <2>2, ReturnNewLineOK
  <2> QED BY <1>1, <2>2, <2>3, <2>4, Moves
<1> QED BY <1>1, <1>3, <1>4, <1>5, <1>6, <1>7, <1>8

(***************************************************************************)
(* The theorem                                                             *)
(***************************************************************************)

LEMMA ScreenInit == Init => ScreenInv
<1> SUFFICES ASSUME Init PROVE ScreenInv
  OBVIOUS
<1>1. PICK s \in Scenarios :
        frames = [c \in Contexts |-> Idle(IF c = "kmain" THEN s.kmain ELSE s.thread1, FALSE)]
  BY DEF Init
<1>2. \A c \in Contexts : FrameOK(frames[c], Floor) /\ frames[c].pc = "idle"
  <2> TAKE c \in Contexts
  <2> DEFINE calls == IF c = "kmain" THEN s.kmain ELSE s.thread1
  <2>1. calls \in Seq(AllCalls) /\ frames[c] = Idle(calls, FALSE)
    BY <1>1, CallFacts
  <2> HIDE DEF calls
  <2> QED BY <2>1, IdleOK
<1>3. FramesInv
  BY <1>1, <1>2 DEF FramesInv, Contexts
<1>4. CursorInv
  <2>1. MarginY \in LineTops
    <3>1. MarginY = MarginY + 0 * CellHeight
      BY Sizes
    <3> QED BY <3>1 DEF LineTops
  <2>2. \A c \in Contexts : ~Pending(c)
    BY <1>2 DEF Pending
  <2> QED BY <2>1, <2>2, Sizes DEF Init, CursorInv, Floor, Contexts
<1> QED BY <1>3, <1>4 DEF Init, ScreenInv

LEMMA ScreenStep == ScreenInv /\ [Next]_vars => ScreenInv'
<1> SUFFICES ASSUME ScreenInv, [Next]_vars PROVE ScreenInv'
  OBVIOUS
<1>1. ASSUME NEW c \in Contexts, Step(c) PROVE ScreenInv'
  <2>1. \/ screen_init(c) \/ screen_clear(c) \/ screen_flush(c) \/ set_auto_flush(c)
        \/ draw_sad_face(c)
        \/ kprintf(c) \/ flush_formatted_segment(c) \/ segment_done(c)
        \/ other_character(c) \/ cell_begins(c) \/ cell(c) \/ cell_ends(c)
        \/ tab_begins(c) \/ tab_cell(c) \/ tab_ends(c)
        \/ back_begins(c) \/ back(c) \/ erase(c) \/ check_newline_and_scroll(c)
    BY <1>1 DEF Step
  <2>2. CASE screen_init(c) \/ screen_clear(c) \/ screen_flush(c) \/ set_auto_flush(c)
    BY <2>2, ScreenInitialised, ScreenCleared, ScreenFlushed, AutoFlushSet
  <2>3. CASE kprintf(c) \/ flush_formatted_segment(c) \/ segment_done(c)
    BY <2>3, FormatStep, SegmentStep, SegmentDone
  <2>4. CASE other_character(c) \/ cell_begins(c) \/ cell(c) \/ cell_ends(c)
    BY <2>4, OtherCharacter, CellBegins, CellDrawn, CellEnds
  <2>5. CASE tab_begins(c) \/ tab_cell(c) \/ tab_ends(c)
    BY <2>5, TabBegins, TabCell, TabEnds
  <2>6. CASE back_begins(c) \/ back(c) \/ erase(c) \/ check_newline_and_scroll(c)
    BY <2>6, BackBegins, Back, Erased, NewLineStep
  <2> QED BY <2>1, <2>2, <2>3, <2>4, <2>5, <2>6, FaceDrawn
<1>2. ASSUME NEW c \in Contexts, kernel_panic(c) PROVE ScreenInv'
  BY <1>2, KernelPanic
<1>3. CASE UNCHANGED vars
  BY <1>3 DEF vars, stateVars, cursorVars, ScreenInv, CursorInv, FramesInv, Floor, Pending
<1> QED BY <1>1, <1>2, <1>3 DEF Next

\* Whatever two printers make of the cursor between them, and wherever a panic
\* interrupts them, no store of screen.c leaves the buffer it was meant for, and
\* the cursor is never more than a cell left of the margin.
THEOREM ScreenInBounds == Spec => []InBounds
<1>1. Spec => []ScreenInv
  BY ScreenInit, ScreenStep, PTL DEF Spec
<1> QED BY <1>1, InvInBounds, PTL

====
