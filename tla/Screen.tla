------------------------------- MODULE Screen -------------------------------
(***************************************************************************)
(* The text display (devices/vga.c): vga_putc(), one call a step, since it *)
(* runs with interrupts off.  Beside the framebuffer the model keeps the   *)
(* PAPER that a printer would have produced from the same characters: rows *)
(* without end, of which the display shows the last ones.                  *)
(***************************************************************************)
EXTENDS Integers

CONSTANTS
  COL_CNT, ROW_CNT,
  Tab,       \* 8, the distance of tab stops
  Glyph,     \* printing characters
  Blank,     \* the space, not in Glyph
  MaxRows    \* bound: rows of paper

VARIABLES
  fb,      \* the framebuffer, fb[y][x]
  cx, cy,  \* the cursor
  cursor,  \* the hardware's cursor register
  inited,
  paper, top   \* the paper, and the row of it at the top of the display

vars == <<fb, cx, cy, cursor, inited, paper, top>>

Col == 0..COL_CNT - 1
Row == 0..ROW_CNT - 1
BlankRow == [x \in Col |-> Blank]

\* The firmware leaves the cursor somewhere on the screen.
Init ==
  /\ fb \in [Row -> {BlankRow}] /\ cx = 0 /\ cy = 0
  /\ cursor \in 0..COL_CNT * ROW_CNT - 1
  /\ inited = FALSE
  /\ paper = [y \in 0..MaxRows + ROW_CNT |-> BlankRow] /\ top = 0

\* init() and find_cursor(): where vga_putc() finds the cursor.
Cursor == IF inited THEN [x |-> cx, y |-> cy]
          ELSE [x |-> cursor % COL_CNT, y |-> cursor \div COL_CNT]

move_cursor(x, y) == cx' = x /\ cy' = y /\ cursor' = (x + COL_CNT * y) % 65536

\* newline() from row Y of framebuffer B: scrolls at the bottom.
newline(b, y) ==
  IF y + 1 < ROW_CNT
  THEN /\ fb' = b /\ top' = top
       /\ move_cursor(0, y + 1)
  ELSE /\ fb' = [r \in Row |-> IF r = ROW_CNT - 1 THEN BlankRow ELSE b[r + 1]]
       /\ top' = top + 1
       /\ move_cursor(0, ROW_CNT - 1)

Stay(x, y) == move_cursor(x, y) /\ UNCHANGED <<fb, top>>

ROUND_UP(x, step) == ((x + step - 1) \div step) * step

vga_putc(c) ==
  LET x == Cursor.x
      y == Cursor.y
      tab == ROUND_UP(x + 1, Tab)
  IN  /\ top < MaxRows
      /\ inited' = TRUE
      /\ CASE c = "newline" ->
                newline(fb, y) /\ UNCHANGED paper
           [] c = "clear" ->
                /\ fb' = [r \in Row |-> BlankRow]
                /\ paper' = [r \in DOMAIN paper |-> IF r < top THEN paper[r] ELSE BlankRow]
                /\ move_cursor(0, 0) /\ UNCHANGED top
           [] c = "backspace" ->
                Stay(IF x > 0 THEN x - 1 ELSE x, y) /\ UNCHANGED paper
           [] c = "return" ->
                Stay(0, y) /\ UNCHANGED paper
           [] c = "tab" ->
                /\ IF tab >= COL_CNT THEN newline(fb, y) ELSE Stay(tab, y)
                /\ UNCHANGED paper
           [] c = "bell" ->
                Stay(x, y) /\ UNCHANGED paper
           [] OTHER ->
                LET b == [fb EXCEPT ![y][x] = c]
                IN  /\ IF x + 1 >= COL_CNT THEN newline(b, y)
                       ELSE fb' = b /\ move_cursor(x + 1, y) /\ UNCHANGED top
                    /\ paper' = [paper EXCEPT ![top + y][x] = c]

Control == {"newline", "clear", "backspace", "return", "tab", "bell"}

Next == \E c \in Glyph \cup Control : vga_putc(c)

Spec == Init /\ [][Next]_vars
-----------------------------------------------------------------------------
\* The display shows the last rows of the paper, whatever mixture of wrapping,
\* tabs, scrolling and clearing led there, and the cursor (the hardware's too)
\* is on the screen, so that no character is stored outside the framebuffer.
ShowsPaper ==
  /\ \A y \in Row : fb[y] = paper[top + y]
  /\ Cursor.x \in Col /\ Cursor.y \in Row
  /\ inited => cursor = cx + COL_CNT * cy
=============================================================================
