---- MODULE Terminal ----
(***************************************************************************)
(* What kprintf promises: a terminal of Rows by Cols cells, and the        *)
(* characters, each with its colour, that a format and its arguments stand *)
(* for. Pixels, segments and buffers are Screen's. A cell holds what was   *)
(* typed on it since it was last blank: ink is not wiped out by other ink. *)
(***************************************************************************)
EXTENDS Integers, SequencesExt

CONSTANTS Rows, Cols, Tab, Limit

Blank == <<>>
Blanks == [c \in 1 .. Cols |-> Blank]

\* The cursor may stand right of the last column.
Cleared == [cells |-> [r \in 1 .. Rows |-> Blanks], row |-> 1, col |-> 1]

\* The n cells at the cursor blank, or ink on the one.
Erase(t, n) ==
  [t EXCEPT !.cells[t.row] = [c \in 1 .. Cols |-> IF c \in t.col .. t.col + n - 1 THEN Blank ELSE @[c]]]
Ink(t, what) == [t EXCEPT !.cells[t.row][t.col] = Append(@, what)]

NewLine(t) ==
  IF t.row < Rows
  THEN [t EXCEPT !.row = @ + 1, !.col = 1]
  ELSE [t EXCEPT !.cells = Append(Tail(@), Blanks), !.col = 1]

\* A character, printed where there is room for it.
PutChar(t, what) ==
  LET at == IF t.col > Cols THEN NewLine(t) ELSE t
  IN  [(IF what[1] = " " THEN Erase(at, 1) ELSE Ink(at, what)) EXCEPT !.col = @ + 1]

\* A tab that does not fit is a new line, and is used up.
HorizontalTab(t) ==
  IF t.col + Tab - 1 > Cols THEN NewLine(t)
  ELSE [Erase(t, Tab) EXCEPT !.col = @ + Tab]

\* Back over the start of a line to the end of the line above.
BackSpace(t) ==
  IF t.col > 1 THEN LET at == [t EXCEPT !.col = @ - 1] IN Erase(at, 1)
  ELSE IF t.row > 1 THEN LET at == [t EXCEPT !.row = @ - 1, !.col = Cols] IN Erase(at, 1)
  ELSE t

Typed(t, what) ==
  CASE what[1] = "\n" -> NewLine(t)
    [] what[1] = "\r" -> [t EXCEPT !.col = 1]
    [] what[1] = "\t" -> HorizontalTab(t)
    [] what[1] = "BS" -> BackSpace(t)
    [] what[1] = "BEL" -> t
    [] OTHER -> PutChar(t, what)

(***************************************************************************)
(* Formats. A conversion is a token of the format; an argument carries a   *)
(* number and a text (a string's is NULL if its number is 0).              *)
(***************************************************************************)
Conversions == {"%d", "%ld", "%x", "%s", "%c", "%C"}
HexDigits == <<"0", "1", "2", "3", "4", "5", "6", "7", "8", "9", "A", "B", "C", "D", "E", "F">>

\* The numeral of n: as few digits as have room for it, each by its place.
Numeral(n, base) ==
  LET m == IF n < 0 THEN -n ELSE n
      places == CHOOSE k \in 1 .. m + 1 : base^k > m /\ (k = 1 \/ base^(k - 1) <= m)
  IN  (IF n < 0 THEN <<"-">> ELSE <<>>)
        \o [i \in 1 .. places |-> HexDigits[1 + ((m \div base^(places - i)) % base)]]

\* The i-th token takes the next argument that those before it leave.
ArgumentOf(fmt, args, i) ==
  args[1 + Len(SelectSeq(SubSeq(fmt, 1, i - 1), LAMBDA f : f \in Conversions))]

TextOf(fmt, args, i) ==
  LET a == ArgumentOf(fmt, args, i) IN
  CASE fmt[i] \in {"%d", "%ld"} -> Numeral(a.number, 10)
    [] fmt[i] = "%x" -> Numeral(a.number, 16)
    [] fmt[i] = "%s" -> IF a.number = 0 THEN <<"(", "n", "u", "l", "l", ")">> ELSE a.text
    [] fmt[i] = "%c" -> a.text
    [] fmt[i] = "%%" -> <<"%">>
    [] fmt[i] = "%C" -> <<>>
    [] OTHER -> <<fmt[i]>>

\* The colour of the last %C before the i-th token.
ColorOf(fmt, args, color, i) ==
  LET changes == {j \in 1 .. i - 1 : fmt[j] = "%C"} IN
  IF changes = {} THEN color
  ELSE ArgumentOf(fmt, args, CHOOSE j \in changes : \A k \in changes : k <= j).number

\* A character outside ASCII is shown as '?'.
Ascii(ch) == IF ch = "HIGH" THEN "?" ELSE ch

Changes(fmt, i) == Len(SelectSeq(SubSeq(fmt, 1, i), LAMBDA f : f = "%C"))

\* Of the characters between two changes of colour Limit are shown.
Characters(fmt, args, color) ==
  LET Of(i) == [j \in 1 .. Len(TextOf(fmt, args, i)) |->
                  <<Ascii(TextOf(fmt, args, i)[j]), ColorOf(fmt, args, color, i)>>]
      Between(k) == FlattenSeq([i \in 1 .. Len(fmt) |-> IF Changes(fmt, i) = k THEN Of(i) ELSE <<>>])
  IN  FlattenSeq([k \in 1 .. Changes(fmt, Len(fmt)) + 1 |->
        SubSeq(Between(k - 1), 1, Min({Limit, Len(Between(k - 1))}))])

Written(t, fmt, args, color) == FoldLeft(Typed, t, Characters(fmt, args, color))
====
