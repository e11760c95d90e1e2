------------------------------ MODULE Console ------------------------------
(***************************************************************************)
(* The text console of drivers/vga.c: the buffer, the cursor and the       *)
(* scrolling.  vga_putc takes no lock and does not mask interrupts, so a   *)
(* thread may be preempted between its tests of the cursor and its writes. *)
(***************************************************************************)
EXTENDS Integers, Sequences, FiniteSetsExt

CONSTANTS Rows, Cols,    \* 25 and 80 in the code
          Writer,        \* the threads that print
          Char, Color,   \* what they print, besides a line feed
          MaxText        \* bound on what is printed between two clears

ASSUME SizeAssumption == Rows \in Nat \ {0} /\ Cols \in Nat \ {0}

LF == "LF"
Blank == "blank"
Cells == 0..Rows * Cols - 1

VARIABLES buffer,                   \* vga_buffer
          cursor_row, cursor_col, vga_color,
          hw,                       \* the position the VGA controller shows
          stage, ch,                \* where each writer is, and with what
          text,                     \* what has been written since the last clear
          overrun                   \* a write went past the end of the buffer
consoleVars == <<buffer, cursor_row, cursor_col, vga_color, hw, stage, ch, text, overrun>>
screen == <<buffer, vga_color, text, overrun>>

Cell(c) == [c |-> c, color |-> vga_color]

\* The kernel starts with vga_clear.
ConsoleInit ==
    /\ vga_color \in Color
    /\ buffer = [p \in Cells |-> Cell(Blank)]
    /\ cursor_row = 0 /\ cursor_col = 0 /\ hw = 0
    /\ stage = [w \in Writer |-> "idle"] /\ ch = [w \in Writer |-> LF]
    /\ text = <<>> /\ overrun = FALSE

Goto(w, from, to) == stage[w] = from /\ stage' = [stage EXCEPT ![w] = to]

vga_clear == /\ \A w \in Writer : stage[w] = "idle"
             /\ buffer' = [p \in Cells |-> Cell(Blank)]
             /\ cursor_row' = 0 /\ cursor_col' = 0 /\ hw' = 0
             /\ text' = <<>>
             /\ UNCHANGED <<vga_color, stage, ch, overrun>>

vga_set_color(k) == /\ \A w \in Writer : stage[w] = "idle"
                    /\ vga_color' = k
                    /\ UNCHANGED <<buffer, cursor_row, cursor_col, hw, stage, ch, text, overrun>>

\* vga_putc: the call,
vga_putc(w, c) == /\ Len(text) < MaxText
                  /\ Goto(w, "idle", "scroll")
                  /\ ch' = [ch EXCEPT ![w] = c]
                  /\ UNCHANGED <<screen, cursor_row, cursor_col, hw>>

\* Faulty: the last row is not cleared.
vga_scroll_dirty == [p \in Cells |-> IF p + Cols \in Cells THEN buffer[p + Cols] ELSE buffer[p]]

vga_scroll == [p \in Cells |-> IF p + Cols \in Cells THEN buffer[p + Cols] ELSE Cell(Blank)]

\* the scrolling, when the cursor has left the screen,
scroll(w) == /\ Goto(w, "scroll", "write")
             /\ IF cursor_row = Rows
                THEN buffer' = vga_scroll /\ cursor_row' = Rows - 1
                ELSE UNCHANGED <<buffer, cursor_row>>
             /\ UNCHANGED <<cursor_col, vga_color, hw, ch, text, overrun>>

\* the character, or the line feed,
write(w) ==
    LET p == cursor_row * Cols + cursor_col IN
    /\ IF ch[w] = LF
       THEN /\ Goto(w, "write", "move")
            /\ cursor_row' = cursor_row + 1 /\ cursor_col' = 0
            /\ UNCHANGED <<buffer, overrun>>
       ELSE /\ Goto(w, "write", "wrap")
            /\ cursor_col' = cursor_col + 1
            /\ IF p \in Cells
               THEN buffer' = [buffer EXCEPT ![p] = Cell(ch[w])] /\ UNCHANGED overrun
               ELSE overrun' = TRUE /\ UNCHANGED buffer
            /\ UNCHANGED cursor_row
    /\ text' = Append(text, Cell(ch[w]))
    /\ UNCHANGED <<vga_color, hw, ch>>

\* Faulty: the line is wrapped one column late.
Wraps_late == cursor_col > Cols

Wraps == cursor_col = Cols

\* the end of the line,
wrap(w) == /\ Goto(w, "wrap", "move")
           /\ IF Wraps THEN cursor_row' = cursor_row + 1 /\ cursor_col' = 0
                       ELSE UNCHANGED <<cursor_row, cursor_col>>
           /\ UNCHANGED <<screen, hw, ch>>

\* and the cursor that is shown.
vga_move_cursor(w) == /\ Goto(w, "move", "idle")
                      /\ hw' = cursor_row * Cols + cursor_col
                      /\ UNCHANGED <<screen, cursor_row, cursor_col, ch>>

ConsoleNext ==
    \/ vga_clear \/ \E k \in Color : vga_set_color(k)
    \/ \E w \in Writer : \/ \E c \in Char \cup {LF} : vga_putc(w, c)
                        \/ scroll(w) \/ write(w) \/ wrap(w) \/ vga_move_cursor(w)

ConsoleSpec == ConsoleInit /\ [][ConsoleNext]_consoleVars

----------------------------------------------------------------------------
(* What a reader expects: the text on a sheet without end, seen through a  *)
(* window that follows the last line written to.                           *)
Place ==
    LET at[j \in 0..Len(text)] ==
          IF j = 0 THEN [line |-> 0, col |-> 0]
          ELSE IF text[j].c = LF \/ at[j - 1].col = Cols - 1
          THEN [line |-> at[j - 1].line + 1, col |-> 0]
          ELSE [line |-> at[j - 1].line, col |-> at[j - 1].col + 1]
    IN  at
Top == IF text = <<>> THEN 0 ELSE Max({0, Place[Len(text) - 1].line - (Rows - 1)})

\* Between two calls of one writer the screen shows the last rows of the text,
\* in its colors, blank elsewhere, with the cursor where the next character goes.
ScreenShowsText == (\A w \in Writer : stage[w] = "idle") =>
    /\ \A p \in Cells :
         LET here == {i \in 1..Len(text) :
                        /\ text[i].c # LF
                        /\ Place[i - 1] = [line |-> Top + (p \div Cols), col |-> p % Cols]}
         IN  IF here = {} THEN buffer[p].c = Blank ELSE here = {i \in here : buffer[p] = text[i]}
    /\ hw = (Place[Len(text)].line - Top) * Cols + Place[Len(text)].col

\* No write goes past the end of the buffer.
InBuffer == ~overrun
=============================================================================
