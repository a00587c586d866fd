------------------------------ MODULE Renderer ------------------------------
(***************************************************************************)
(* crates/nshedit/src/editor/render.rs and render/layout.rs: a line with   *)
(* its prompt becomes rows of atoms, and what changed since the committed  *)
(* rows becomes operations of a terminal.  The region is the rows of the   *)
(* terminal the renderer owns.  A write may fail behind any operation.     *)
(* Right prompts, tabs, newlines in the line and units shown as escapes    *)
(* are left out: they are more glyphs on the same rows.                    *)
(***************************************************************************)
EXTENDS TerminalModel, FiniteSets

CONSTANTS
  Glyphs,        \* what a line is made of: "wide" and glyphs of one column
  Prompts,       \* sequences of glyphs and literals
  Profiles,      \* sets of capabilities
  Echoes,        \* what finishing a line may echo: <<>> or a sequence of glyphs
  MaxLine,       \* bound: glyphs on a line
  MaxMishaps     \* bound: writes that fail, output of others, changes of profile

Texts == Prompts \cup Echoes
Padding == "blank"
Atoms == Glyphs \cup Literals \cup {Padding}
         \cup UNION {{text[k] : k \in DOMAIN text} : text \in Texts}

ASSUME TextsAssumption == Texts \subseteq Seq(Atoms)
ASSUME AtomsAssumption == Atoms \cap Controls = {}

Addressing == {"save", "restore", "up", "down"}

VARIABLES
  term,          \* the terminal
  profile,       \* the capabilities of the profile besides "cr" and "left"
  prompt, line, cursor,    \* what is to be shown
  rows, at,      \* the committed rows and cursor
  region,        \* [origin, extent]
  redraw, damaged,
  shown,         \* is what is to be shown on the terminal?
  host,          \* the rows above the line: they are not the renderer's
  mishaps

confVars == <<rows, at, region, redraw, damaged>>
inputVars == <<prompt, line, cursor>>
displayVars == <<term, profile, inputVars, confVars, shown, host, mishaps>>

\* Row: its atoms and the literals in force where it begins.
NoRow == [atoms |-> <<>>, literals |-> <<>>]

Larger(m, n) == IF m > n THEN m ELSE n

\* The columns taken by the first n atoms, for every n.
Extents(atoms) ==
  LET extent[n \in 0..Len(atoms)] == IF n = 0 THEN 0 ELSE extent[n - 1] + Width(atoms[n])
  IN extent

Used(row) == Extents(row.atoms)[Len(row.atoms)]

\* The atoms at some places, behind the ones there are.
Picked(first, atoms, places) ==
  LET picked[n \in 0..Len(atoms)] ==
        IF n = 0 THEN first
        ELSE IF n \in places THEN Append(picked[n - 1], atoms[n]) ELSE picked[n - 1]
  IN picked[Len(atoms)]

\* The cells of a row; literals take none.
CellsOf(row) ==
  LET drawn == FoldLeft(LAMBDA cells, a : CASE Width(a) = 0 -> cells
                                            [] Width(a) = 1 -> Append(cells, a)
                                            [] OTHER -> cells \o <<a, "tail">>,
                        <<>>, row.atoms)
  IN [c \in 1..Columns |-> IF c <= Len(drawn) THEN drawn[c] ELSE "none"]

-----------------------------------------------------------------------------
(* layout.rs *)

\* put_glyph: a glyph that does not fit is put on the next row, behind padding;
\* a row that is full is followed by another.
PutGlyph(built, glyph) ==
  LET left == Columns - Used(Last(built))
      padded == Append(Front(built),
                       [Last(built) EXCEPT !.atoms = @ \o [k \in 1..left |-> Padding]])
      room == IF Width(glyph) > left THEN Append(padded, NoRow) ELSE built
      put == Append(Front(room), [Last(room) EXCEPT !.atoms = Append(@, glyph)])
  IN IF Used(Last(put)) = Columns THEN Append(put, NoRow) ELSE put

PutPrompt(built, atom) ==
  IF atom \in Literals
  THEN Append(Front(built), [Last(built) EXCEPT !.atoms = Append(@, atom)])
  ELSE PutGlyph(built, atom)

\* The literals of all rows above, in their order.
WithLiterals(built) ==
  LET within(atoms) == {k \in DOMAIN atoms : atoms[k] \in Literals}
      upTo[n \in 0..Len(built)] ==
        IF n = 0 THEN <<>> ELSE Picked(upTo[n - 1], built[n].atoms, within(built[n].atoms))
  IN [k \in DOMAIN built |-> [built[k] EXCEPT !.literals = upTo[k - 1]]]

\* viewport: as many rows as the screen has, the cursor's at least.
Viewport(built, here) ==
  LET start == IF Len(here) > Rows THEN Len(here) - Rows ELSE 0
      end == IF start + Rows < Len(built) THEN start + Rows ELSE Len(built)
  IN [rows |-> SubSeq(built, start + 1, end),
      at |-> <<Len(here) - start - 1, Used(Last(here))>>]

\* build: the rows of the prompt and the line; the cursor is before the unit it is on.
Frame ==
  LET begun[n \in 0..Len(prompt)] ==
        IF n = 0 THEN <<NoRow>> ELSE PutPrompt(begun[n - 1], prompt[n])
      upTo[n \in 0..Len(line)] ==
        IF n = 0 THEN begun[Len(prompt)] ELSE PutGlyph(upTo[n - 1], line[n])
  IN Viewport(WithLiterals(upTo[Len(line)]), upTo[cursor])

-----------------------------------------------------------------------------
(* The operations that reach a place.  What is planned is [ops, at]; `at` is *)
(* where the terminal's cursor is then, <<>> when it cannot be told.         *)

Has(capability) == capability \in profile
Addressed == Addressing \subseteq profile
Repeat(n, op) == [k \in 1..n |-> op]
Emitted(plan, ops) == [plan EXCEPT !.ops = @ \o ops]

\* append_atom_range: the atoms of some columns, with every literal that is in
\* force there replayed.
AtomRange(row, start, end, withEnd) ==
  LET extent == Extents(row.atoms)
      wanted(k) ==
        IF row.atoms[k] \in Literals
        THEN extent[k - 1] < end \/ extent[k - 1] < start \/ (withEnd /\ extent[k - 1] = end)
        ELSE extent[k - 1] < end /\ extent[k] > start
  IN Picked(row.literals, row.atoms, {k \in DOMAIN row.atoms : wanted(k)})

\* append_region_origin
ToOrigin(origin) ==
  CASE origin = "Saved" -> <<"restore">> [] origin = "Inline" -> <<"cr">> [] OTHER -> <<>>

\* move_addressed_cursor: from a place the cursor is known to be at
OpsBetween(start, row, column, displayed) ==
  LET vertical == IF start[1] = row THEN <<>>
                  ELSE (IF start[2] # 0 THEN <<"cr">> ELSE <<>>)
                       \o (IF start[1] < row THEN Repeat(row - start[1], "down")
                           ELSE Repeat(start[1] - row, "up"))
      from == IF start[1] = row THEN start[2] ELSE 0
      horizontal == CASE column < from -> Repeat(from - column, "left")
                      [] column = from -> <<>>
                      [] column > from /\ Has("right") -> Repeat(column - from, "right")
                      [] OTHER -> IF displayed = <<>> THEN Repeat(column - from, Padding)
                                  ELSE AtomRange(displayed[1], from, column, FALSE)
  IN vertical \o horizontal

MoveTo(plan, row, column, displayed, origin) ==
  LET lost == plan.at = <<>>
  IN [ops |-> plan.ops \o (IF lost THEN ToOrigin(origin) ELSE <<>>)
              \o OpsBetween(IF lost THEN <<0, 0>> ELSE plan.at, row, column, displayed),
      at |-> <<row, column>>]

RowAt(s, r) == IF r < Len(s) THEN <<s[r + 1]>> ELSE <<>>
UsedAt(s, r) == IF r < Len(s) THEN Used(s[r + 1]) ELSE 0

\* first_changed_column: the first cell or end that differs; <<>> when none does.
FirstChanged(old, new) ==
  LET differ == {c \in 1..Columns : old # <<>> /\ new # <<>> /\ CellsOf(old[1])[c] # CellsOf(new[1])[c]}
      ends == IF old = <<>> \/ new = <<>> THEN {0}
              ELSE {w \in {Used(old[1]), Used(new[1])} : w < Used(old[1]) \/ w < Used(new[1])}
      all == {c - 1 : c \in differ} \cup ends
  IN IF old = new THEN <<>>
     ELSE <<IF all = {} THEN 0 ELSE CHOOSE c \in all : \A d \in all : c <= d>>

\* What is left of an older, longer row behind the new one's end is erased.
Erased(written, r, used, eraseTo) ==
  IF Has("clear") THEN Emitted(written, <<"clear">>)
  ELSE IF eraseTo = used THEN written
  ELSE [ops |-> written.ops \o Repeat(eraseTo - used, Padding),
        at |-> IF eraseTo < Columns THEN <<r, eraseTo>> ELSE <<>>]

Written(moved, r, new, start, used) ==
  IF new = <<>> THEN moved
  ELSE [ops |-> moved.ops \o AtomRange(new[1], start, used, TRUE),
        at |-> IF used <= start THEN moved.at ELSE IF used < Columns THEN <<r, used>> ELSE <<>>]

RewriteRow(plan, r, frame, old, origin, rewrite, erase, start) ==
  LET new == RowAt(frame.rows, r)
      used == UsedAt(frame.rows, r)
      oldUsed == UsedAt(old, r)
      written == Written(MoveTo(plan, r, start, IF new # <<>> THEN new ELSE RowAt(old, r), origin),
                         r, new, start, used)
  IN IF used < Columns /\ (rewrite \/ oldUsed > used)
     THEN Erased(written, r, used, IF erase THEN Columns ELSE Larger(used, oldUsed))
     ELSE written

\* One row of encode_addressed: from its first change, or all of it.
EncodeRow(plan, r, frame, old, origin, rewrite, erase) ==
  LET rewritten(changed) ==
        IF ~rewrite /\ changed = <<>> THEN plan
        ELSE RewriteRow(plan, r, frame, old, origin, rewrite, erase,
                        IF rewrite \/ changed[1] >= Columns THEN 0 ELSE changed[1])
  IN rewritten(FirstChanged(RowAt(old, r), RowAt(frame.rows, r)))

\* encode_addressed
EncodeAddressed(frame, old, from, owned, again, whole) ==
  LET begin == IF whole THEN [ops |-> ToOrigin(owned.origin), at |-> <<0, 0>>]
               ELSE [ops |-> <<>>, at |-> from]
      other == IF whole THEN owned.extent ELSE Len(old)
      count == IF other > Len(frame.rows) THEN other ELSE Len(frame.rows)
      drawn[n \in 0..count] ==
        IF n = 0 THEN begin
        ELSE EncodeRow(drawn[n - 1], n - 1, frame, old, owned.origin, again \/ whole, whole)
      placed(plan) ==
        IF plan.at = frame.at THEN plan.ops
        ELSE MoveTo(plan, frame.at[1], frame.at[2], RowAt(frame.rows, frame.at[1]), owned.origin).ops
  IN placed(drawn[count])

\* append_plain_left takes the shorter way: back from the right or on from the left.
PlainTo(row, from, to) ==
  LET left == Repeat(from - to, "left")
      restart == <<"cr">> \o AtomRange(row, 0, to, TRUE)
  IN IF from <= to THEN <<>>
     ELSE IF from - to = 1 \/ Len(left) <= Len(restart) THEN left ELSE restart

\* append_plain_redraw
PlainRedraw(row, oldUsed, column, whole) ==
  LET used == Used(row)
      eraseTo == IF whole THEN Columns ELSE IF oldUsed > used THEN oldUsed ELSE used
      erased == IF Has("clear") THEN <<"clear">> ELSE Repeat(eraseTo - used, Padding)
  IN <<"cr">> \o row.literals \o row.atoms \o erased
     \o PlainTo(row, IF Has("clear") THEN used ELSE eraseTo, column)

\* encode_plain, of a frame and a region of one row
EncodePlain(frame, old, from, again, whole) ==
  LET row == frame.rows[1]
      column == frame.at[2]
      before == old[1]
      appended == /\ from[2] = Used(before) /\ column = Used(row) /\ Used(row) >= Used(before)
                  /\ \A c \in 1..Used(before) : CellsOf(before)[c] = CellsOf(row)[c]
  IN CASE whole -> PlainRedraw(row, 0, column, TRUE)
       [] ~whole /\ old = <<>> -> row.literals \o row.atoms \o PlainTo(row, Used(row), column)
       [] ~whole /\ old # <<>> /\ again -> PlainRedraw(row, Used(before), column, FALSE)
       [] OTHER ->
            IF row = before
            THEN IF column < from[2] THEN PlainTo(row, from[2], column)
                 ELSE IF column > from[2] THEN AtomRange(row, from[2], column, TRUE)
                 ELSE <<"cr">> \o AtomRange(row, 0, column, TRUE)
            ELSE IF appended THEN AtomRange(row, from[2], column, TRUE)
            ELSE PlainRedraw(row, Used(before), column, FALSE)

-----------------------------------------------------------------------------

Unanchored == [origin |-> "Unanchored", extent |-> 0]
Unchanged == [ops |-> <<>>, region |-> region, anew |-> FALSE]

\* Mutant: the origin is saved a row too high.
PlanRegionTooHigh(required) ==
  LET toBottom == IF region.origin = "Saved"
                  THEN <<"restore">> \o Repeat(region.extent - 1, "down") ELSE <<"cr">>
      established == region.origin \in {"Inline", "Saved"}
  IN CASE ~Addressed \/ (established /\ region.extent >= required) -> Unchanged
       [] Addressed /\ ~(established /\ region.extent >= required) /\ required <= 1 ->
            [Unchanged EXCEPT !.region = [origin |-> "Inline", extent |-> 1]]
       [] OTHER ->
            [ops |-> toBottom \o Repeat(required - Larger(region.extent, 1), "nl")
                     \o Repeat(required, "up") \o <<"save">>,
             region |-> [origin |-> "Saved", extent |-> Larger(required, region.extent)],
             anew |-> TRUE]

\* plan_region: own more rows.  One row is owned where the cursor is; more are made
\* room for below, and their origin is saved.
PlanRegion(required) ==
  LET toBottom == IF region.origin = "Saved"
                  THEN <<"restore">> \o Repeat(region.extent - 1, "down") ELSE <<"cr">>
      established == region.origin \in {"Inline", "Saved"}
  IN CASE ~Addressed \/ (established /\ region.extent >= required) -> Unchanged
       [] Addressed /\ ~(established /\ region.extent >= required) /\ required <= 1 ->
            [Unchanged EXCEPT !.region = [origin |-> "Inline", extent |-> 1]]
       [] OTHER ->
            [ops |-> toBottom \o Repeat(required - Larger(region.extent, 1), "nl")
                     \o Repeat(required - 1, "up") \o <<"save">>,
             region |-> [origin |-> "Saved", extent |-> Larger(required, region.extent)],
             anew |-> TRUE]

\* RegionOriginUnavailable and RegionAddressUnavailable: nothing is written.
Refused(frame) ==
  IF Addressed THEN region.origin = "Lost"
  ELSE Len(frame.rows) > 1 \/ Len(rows) > 1 \/ region.extent > 1 \/ frame.at[1] > 0

PresentOps(frame, plan) ==
  plan.ops
  \o (IF Addressed
      THEN EncodeAddressed(frame, rows, IF plan.anew THEN <<0, 0>> ELSE at, plan.region,
                           redraw /\ ~plan.anew, damaged \/ plan.anew)
      ELSE EncodePlain(frame, rows, at, redraw, damaged))

\* Mutant: a write that failed leaves the committed rows trusted.
WriteFailedForgets(plan) ==
  /\ mishaps < MaxMishaps
  /\ mishaps' = mishaps + 1
  /\ region' = IF plan.anew THEN [region EXCEPT !.origin = "Lost"] ELSE region
  /\ redraw' = FALSE
  /\ damaged' = damaged
  /\ shown' = FALSE
  /\ UNCHANGED <<profile, inputVars, rows, at>>

\* What a write that failed leaves: a region that was being anchored is lost.
WriteFailed(plan) ==
  /\ mishaps < MaxMishaps
  /\ mishaps' = mishaps + 1
  /\ region' = IF plan.anew THEN [region EXCEPT !.origin = "Lost"] ELSE region
  /\ redraw' = FALSE
  /\ damaged' = TRUE
  /\ shown' = FALSE
  /\ UNCHANGED <<profile, inputVars, rows, at>>

NeedsPresent == ~shown \/ redraw \/ damaged

PresentFrame(frame, plan) ==
  /\ ~Refused(frame)
  /\ term' = Shows(term, PresentOps(frame, plan))
  /\ rows' = frame.rows /\ at' = frame.at
  /\ region' = plan.region

Planned(frame) == PlanRegion(Len(frame.rows))

Present ==
  /\ NeedsPresent
  /\ \E frame \in {Frame} : PresentFrame(frame, Planned(frame))
  /\ redraw' = FALSE /\ damaged' = FALSE
  /\ shown' = TRUE
  /\ UNCHANGED <<profile, inputVars, host, mishaps>>

\* Some of the output arrives, up to all of it.
Interrupted(ops) == \E n \in 0..Len(ops) : term' = After(term, ops)[n]

PresentFails ==
  /\ NeedsPresent
  /\ \E frame \in {Frame} :
       /\ ~Refused(frame)
       /\ WriteFailed(Planned(frame))
       /\ Interrupted(PresentOps(frame, Planned(frame)))
  /\ UNCHANGED host

\* echo_extent
EchoExtent(echo) ==
  LET width == Extents(echo)[Len(echo)]
      occupied == Larger(region.extent, Len(rows))
  IN IF width = 0 THEN occupied
     ELSE Larger(at[1] + (at[2] + width - 1) \div Columns + 1, occupied)

\* plan_finish_region
PlanFinish(echo) ==
  IF ~Addressed \/ region.origin # "Saved" THEN Unchanged
  ELSE PlanRegion(Larger(EchoExtent(echo), 1))

\* finish_line: echo at the committed cursor, then down below the region.
FinishOps(echo, plan) ==
  LET origin == [ops |-> ToOrigin(plan.region.origin), at |-> <<0, 0>>]
      placed == IF plan.anew \/ damaged
                THEN MoveTo(origin, at[1], at[2], RowAt(rows, at[1]), plan.region.origin).ops
                ELSE <<>>
      below == IF plan.region.origin = "Saved"
               THEN <<"restore">> \o Repeat(plan.region.extent - 1, "down") ELSE <<>>
  IN plan.ops \o (IF echo = <<>> THEN <<>> ELSE placed \o echo) \o below \o <<"nl">>

FinishRefused ==
  region.origin = "Lost" \/ (~Addressed /\ Larger(region.extent, Len(rows)) > 1)

\* The line is over: what it left above is the host's, whatever it shows, and another
\* begins below.
NextLine(t) ==
  /\ term' = WithHostRows(t, "h")
  /\ host' = RowsBefore(term')
  /\ rows' = <<>> /\ at' = <<0, 0>>
  /\ region' = Unanchored
  /\ redraw' = FALSE /\ damaged' = FALSE
  /\ line' = <<>> /\ cursor' = 0
  /\ shown' = FALSE
  /\ UNCHANGED <<prompt, mishaps>>

FinishLine(echo) ==
  /\ ~FinishRefused /\ rows # <<>>
  /\ NextLine(Shows(term, FinishOps(echo, PlanFinish(echo))))
  /\ UNCHANGED profile

\* Where the line goes on after a finish that failed: at the saved origin, which
\* the line feed may have scrolled away from the first row, or where the cursor is.
RowsBeforeOrigin(t) ==
  IF region.origin = "Saved" THEN SubSeq(AllRows(t), 1, Len(t.above) + t.saved.at[1])
  ELSE RowsBefore(t)

FinishFails(echo) ==
  LET plan == PlanFinish(echo)
  IN /\ ~FinishRefused /\ rows # <<>>
     /\ WriteFailed(plan)
     /\ Interrupted(FinishOps(echo, plan))
     /\ host' = IF plan.anew THEN host ELSE RowsBeforeOrigin(term')

Redraw ==
  /\ ~redraw /\ redraw' = TRUE
  /\ UNCHANGED <<term, profile, inputVars, rows, at, region, damaged, shown, host, mishaps>>

\* damage: somebody else wrote on the line.
Damage ==
  /\ shown /\ ~term.held /\ mishaps < MaxMishaps
  /\ term' = Put(term, "x")
  /\ redraw' = FALSE /\ damaged' = TRUE
  /\ shown' = FALSE
  /\ mishaps' = mishaps + 1
  /\ UNCHANGED <<profile, inputVars, rows, at, region, host>>

\* configure, with the size unchanged.  After a lost origin the host first goes below
\* all that was written, and the renderer begins on the clean line there.
Configure(p) ==
  /\ profile' = p
  /\ IF region.origin = "Lost"
     THEN NextLine(Shows(term, Repeat(Rows, "nl")))
     ELSE /\ p # profile /\ mishaps < MaxMishaps
          /\ redraw' = FALSE /\ damaged' = TRUE
          /\ mishaps' = mishaps + 1
          /\ UNCHANGED <<term, inputVars, rows, at, region, shown, host>>

\* One edit of what is to be shown, and then the display: the editor presents after
\* every command.
Edited ==
  /\ shown \/ Refused(Frame)
  /\ shown' = FALSE
  /\ UNCHANGED <<term, profile, prompt, confVars, host, mishaps>>

Insert(g) ==
  /\ Len(line) < MaxLine
  /\ line' = InsertAt(line, cursor + 1, g)
  /\ cursor' = cursor + 1
  /\ Edited

Delete ==
  /\ cursor > 0
  /\ line' = RemoveAt(line, cursor)
  /\ cursor' = cursor - 1
  /\ Edited

Move(c) == c # cursor /\ cursor' = c /\ UNCHANGED line /\ Edited

DisplayInit ==
  /\ \E row \in 0..(Rows - 1) :
       term = FreshTerminal(row, "h") /\ host = RowsBefore(FreshTerminal(row, "h"))
  /\ profile \in Profiles
  /\ prompt \in Prompts
  /\ line = <<>> /\ cursor = 0
  /\ rows = <<>> /\ at = <<0, 0>>
  /\ region = Unanchored
  /\ redraw = FALSE /\ damaged = FALSE
  /\ shown = FALSE
  /\ mishaps = 0

DisplayNext ==
  \/ \E g \in Glyphs : Insert(g)
  \/ Delete
  \/ \E c \in 0..Len(line) : Move(c)
  \/ Present \/ PresentFails
  \/ \E echo \in Echoes : FinishLine(echo) \/ FinishFails(echo)
  \/ Redraw \/ Damage
  \/ \E p \in Profiles : Configure(p)

DisplaySpec == DisplayInit /\ [][DisplayNext]_displayVars

-----------------------------------------------------------------------------

\* The cells a row of a frame asks for: its glyphs in the attribute that the prompt's
\* literals, from the first row on, have switched to.
Asked(row) ==
  LET draw(s, a) == IF a \in Literals THEN [s EXCEPT !.attribute = a]
                    ELSE [s EXCEPT !.cells = @ \o
                            (IF a = Padding THEN <<Blank>>
                             ELSE IF Width(a) = 2 THEN <<<<a, s.attribute>>, <<"tail", s.attribute>>>>
                             ELSE <<<<a, s.attribute>>>>)]
      drawn == FoldLeft(draw, [attribute |-> "off", cells |-> <<>>], row.literals \o row.atoms).cells
  IN [c \in 0..(Columns - 1) |-> IF c < Len(drawn) THEN drawn[c + 1] ELSE Blank]

\* After a display that succeeded the terminal shows the frame, all of it and nothing
\* else on the renderer's rows, with the cursor where the frame has it: whatever was
\* displayed before, whichever writes failed, and whatever else was written there.
TerminalShowsFrame ==
  shown => \A frame \in {Frame} :
    LET screen == AllRows(term)
        origin == Len(host) + 1
    IN /\ \A r \in DOMAIN frame.rows : screen[origin + r - 1] = Asked(frame.rows[r])
       /\ \A r \in (Len(frame.rows) + 1)..region.extent : screen[origin + r - 1] = BlankRow
       /\ Len(term.above) + term.at[1] + 1 = origin + frame.at[1]
       /\ term.at[2] = frame.at[2]

\* No row above the line is ever written to, by any write or part of one, nor would
\* any part of what finishes the line write there.
HostRowsKept ==
  /\ IsPrefix(host, AllRows(term))
  /\ ~FinishRefused /\ rows # <<>> =>
       \A echo \in Echoes : \A ops \in {FinishOps(echo, PlanFinish(echo))} :
         \A n \in 1..Len(ops) : IsPrefix(host, AllRows(After(term, ops)[n]))

=============================================================================
