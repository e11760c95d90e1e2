--------------------------- MODULE ConsoleProofs ---------------------------
(***************************************************************************)
(* Theorems about Console, for a screen of any size.                       *)
(***************************************************************************)
EXTENDS Console, TLAPS

\* The one writer w writes only with the cursor on the screen.  The column
\* leaves it between a character and the wrap, the row until the next scroll.
Inv(w) == /\ stage \in [Writer -> {"idle", "scroll", "write", "wrap", "move"}]
          /\ cursor_row \in 0..Rows /\ cursor_col \in 0..Cols
          /\ stage[w] \in {"write", "wrap"} => cursor_row < Rows
          /\ stage[w] # "wrap" => cursor_col < Cols
          /\ InBuffer

\* A row and a column of the screen are the place of a cell.
LEMMA OnScreen == ASSUME NEW r \in 0..Rows - 1, NEW c \in 0..Cols - 1
                  PROVE  r * Cols + c \in Cells
<1> USE SizeAssumption
<1>1. r * Cols \in Nat /\ Rows * Cols \in Nat
  OBVIOUS
<1>2. (Rows - 1 - r) * Cols >= 0
  OBVIOUS
<1>3. (Rows - 1 - r) * Cols = Rows * Cols - Cols - r * Cols
  OBVIOUS
<1> QED
  BY <1>1, <1>2, <1>3 DEF Cells

\* Every step preserves the invariant when w is the only writer.
LEMMA InvNext == ASSUME NEW w, Writer = {w}, Inv(w), [ConsoleNext]_consoleVars PROVE Inv(w)'
<1> USE SizeAssumption DEF Inv, InBuffer
<1>1. CASE vga_clear
  BY <1>1 DEF vga_clear
<1>2. ASSUME NEW k \in Color, vga_set_color(k) PROVE Inv(w)'
  BY <1>2 DEF vga_set_color
<1>3. ASSUME NEW c \in Char \cup {LF}, vga_putc(w, c) PROVE Inv(w)'
  BY <1>3 DEF vga_putc, Goto, screen
<1>4. CASE scroll(w)
  BY <1>4 DEF scroll, Goto
<1>5. CASE write(w)
  <2>1. cursor_row \in 0..Rows - 1 /\ cursor_col \in 0..Cols - 1 /\ stage[w] = "write"
    BY <1>5 DEF write, Goto
  <2>2. cursor_row * Cols + cursor_col \in Cells
    BY <2>1, OnScreen
  <2> QED
    BY <1>5, <2>1, <2>2 DEF write, Goto
<1>6. CASE wrap(w)
  BY <1>6 DEF wrap, Wraps, Goto, screen
<1>7. CASE vga_move_cursor(w)
  BY <1>7 DEF vga_move_cursor, Goto, screen
<1>8. CASE UNCHANGED consoleVars
  BY <1>8 DEF consoleVars
<1> QED
  BY <1>1, <1>2, <1>3, <1>4, <1>5, <1>6, <1>7, <1>8 DEF ConsoleNext

\* With one writer no character of vga_putc lands outside the buffer, however
\* the text wraps and scrolls.
THEOREM OneWriterInBuffer == ASSUME NEW w, Writer = {w} PROVE ConsoleSpec => []InBuffer
<1>1. ConsoleInit => Inv(w)
  BY SizeAssumption DEF ConsoleInit, Inv, InBuffer
<1>2. Inv(w) /\ [ConsoleNext]_consoleVars => Inv(w)'
  BY InvNext
<1>3. Inv(w) => InBuffer
  BY DEF Inv
<1> QED
  BY <1>1, <1>2, <1>3, PTL DEF ConsoleSpec
=============================================================================
