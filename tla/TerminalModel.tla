---------------------------- MODULE TerminalModel ----------------------------
(***************************************************************************)
(* The terminal, as crates/nshedit/src/editor/render.rs uses it: a screen  *)
(* with a cursor that waits behind the last column before it wraps, one    *)
(* saved cursor, and prompt literals that switch an attribute.  It is not  *)
(* part of the repository.  A position is <<row, column>>, from 0.         *)
(***************************************************************************)
EXTENDS Naturals, Sequences, SequencesExt

CONSTANTS Rows, Columns
ASSUME SizeAssumption == Rows \in Nat \ {0} /\ Columns \in Nat \ {0, 1}

\* A glyph of one column, or of two ("wide"); its second cell is "tail".
Literals == {"on", "off"}
Width(atom) == CASE atom \in Literals -> 0 [] atom = "wide" -> 2 [] OTHER -> 1

Blank == <<"blank", "off">>
BlankRow == [c \in 0..(Columns - 1) |-> Blank]

HostRow(host) == [BlankRow EXCEPT ![0] = <<host, "off">>]

\* above: the rows that scrolled off; held: the cursor is behind the last column.
FreshTerminal(row, host) ==
  [screen |-> [r \in 0..(Rows - 1) |-> IF r < row THEN HostRow(host) ELSE BlankRow],
   above |-> <<>>, at |-> <<row, 0>>, held |-> FALSE, attribute |-> "off",
   saved |-> [at |-> <<0, 0>>, attribute |-> "off"]]

\* The same terminal, with nothing above the cursor but rows of the host.
WithHostRows(t, host) ==
  [t EXCEPT !.above = <<>>,
            !.screen = [r \in 0..(Rows - 1) |-> IF r < t.at[1] THEN HostRow(host)
                                                ELSE t.screen[r]]]

At(t, row, column) == [t EXCEPT !.at = <<row, column>>, !.held = FALSE]

LineFeed(t) ==
  IF t.at[1] < Rows - 1 THEN At(t, t.at[1] + 1, t.at[2])
  ELSE [t EXCEPT !.above = Append(@, t.screen[0]), !.held = FALSE,
                 !.screen = [r \in 0..(Rows - 1) |-> IF r = Rows - 1 THEN BlankRow
                                                     ELSE t.screen[r + 1]]]

NewLine(t) == LineFeed(At(t, t.at[1], 0))

\* A glyph that does not fit on the row, or comes behind the last column, wraps.
Put(t, glyph) ==
  LET w == Width(glyph)
      here == IF t.held \/ t.at[2] + w > Columns THEN NewLine(t) ELSE t
      row == here.at[1]
      column == here.at[2]
      attribute == IF glyph = "blank" THEN "off" ELSE t.attribute
      cells == [c \in 0..(Columns - 1) |->
                  IF c = column THEN <<glyph, attribute>>
                  ELSE IF c > column /\ c < column + w THEN <<"tail", attribute>>
                  ELSE here.screen[row][c]]
  IN [here EXCEPT !.screen[row] = cells,
                  !.at = <<row, IF column + w < Columns THEN column + w ELSE Columns - 1>>,
                  !.held = column + w >= Columns]

Controls == {"cr", "nl", "up", "down", "left", "right", "save", "restore", "clear"}

\* What one operation does; anything else is a glyph or a literal.
Does(t, op) ==
  CASE op = "cr" -> At(t, t.at[1], 0)
    [] op = "nl" -> NewLine(t)
    [] op = "up" -> At(t, IF t.at[1] = 0 THEN 0 ELSE t.at[1] - 1, t.at[2])
    [] op = "down" -> At(t, IF t.at[1] = Rows - 1 THEN t.at[1] ELSE t.at[1] + 1, t.at[2])
    [] op = "left" -> At(t, t.at[1], IF t.at[2] = 0 THEN 0 ELSE t.at[2] - 1)
    [] op = "right" -> At(t, t.at[1], IF t.at[2] = Columns - 1 THEN t.at[2] ELSE t.at[2] + 1)
    [] op = "save" -> [t EXCEPT !.saved = [at |-> t.at, attribute |-> t.attribute]]
    [] op = "restore" -> [At(t, t.saved.at[1], t.saved.at[2]) EXCEPT !.attribute = t.saved.attribute]
    [] op = "clear" -> [t EXCEPT !.screen[t.at[1]] =
                          [c \in 0..(Columns - 1) |-> IF c < t.at[2] THEN @[c] ELSE Blank]]
    [] op \in Literals -> [t EXCEPT !.attribute = op]
    [] OTHER -> Put(t, op)

After(t, ops) ==
  LET after[n \in 0..Len(ops)] == IF n = 0 THEN t ELSE Does(after[n - 1], ops[n])
  IN after

Shows(t, ops) == After(t, ops)[Len(ops)]

\* Every row there ever was, the ones that scrolled off first.
AllRows(t) == t.above \o [r \in 1..Rows |-> t.screen[r - 1]]

\* The rows above the cursor's.
RowsBefore(t) == SubSeq(AllRows(t), 1, Len(t.above) + t.at[1])

=============================================================================
