----------------------------- MODULE LineState -----------------------------
(***************************************************************************)
(* crates/nshedit/src/editor/line.rs and line/motion.rs: the line being    *)
(* edited, with its cursor, mark, kill buffer, modes, undo and redo stacks *)
(* and the edit group that makes several edits one undo record.            *)
(*                                                                         *)
(* Every operator takes a line state and returns the next one.  A position *)
(* counts the units to its left, so the unit at position p is line[p + 1]. *)
(* A unit is known by its class and by what toggling its case makes of it. *)
(* Lines hold no newline, so a line of the buffer is all of it, and big    *)
(* words are left out: they are words over coarser classes.                *)
(***************************************************************************)
EXTENDS Naturals, Sequences

CONSTANTS
  Units,    \* what a line is made of
  Class,    \* the class of each: "space", "word" or "other"
  Toggled,  \* each unit in the other case
  None      \* no mark, no kill, no group

ASSUME LineAssumption ==
  /\ Class \in [Units -> {"space", "word", "other"}]
  /\ Toggled \in [Units -> Units]
  /\ None \notin Nat

Lines == Seq(Units)
InputModes == {"insert", "replace", "replace_once"}
Keymaps == {"emacs", "vi_insert", "vi_command"}

Least(S) == CHOOSE m \in S : \A n \in S : m <= n
Greatest(S) == CHOOSE m \in S : \A n \in S : n <= m
Lesser(m, n) == IF m <= n THEN m ELSE n
Before(p) == IF p = 0 THEN 0 ELSE p - 1
Copies(u, n) == [i \in 1..n |-> u]

\* A line as editors begin with it, or as the host has filled it in.
Opened(line, cursor, keymap) ==
  [line |-> line, cursor |-> cursor, mark |-> None, kill |-> None,
   input |-> "insert", keymap |-> keymap, undo |-> <<>>, redo |-> <<>>, group |-> None]

Snapshot(e) == [line |-> e.line, cursor |-> e.cursor, mark |-> e.mark, input |-> e.input]
Restored(e, snapshot) ==
  [e EXCEPT !.line = snapshot.line, !.cursor = snapshot.cursor,
            !.mark = snapshot.mark, !.input = snapshot.input]

-----------------------------------------------------------------------------
(* Undo records.                                                            *)

Record(e, before) == [e EXCEPT !.undo = Append(@, before), !.redo = <<>>]

\* record_edit: an edit outside a group is a record of its own.
Edited(before, after) ==
  IF after.line # before.line /\ after.group = None
  THEN Record(after, Snapshot(before))
  ELSE after

BeginGroup(e) ==
  IF e.group = None
  THEN [e EXCEPT !.group = [before |-> Snapshot(e), depth |-> 1]]
  ELSE [e EXCEPT !.group.depth = @ + 1]

FinishAllGroups(e) ==
  LET closed == [e EXCEPT !.group = None]
  IN  IF e.group = None \/ e.line = e.group.before.line THEN closed
      ELSE Record(closed, e.group.before)

FinishGroup(e) ==
  IF e.group # None /\ e.group.depth > 1
  THEN [e EXCEPT !.group.depth = @ - 1]
  ELSE FinishAllGroups(e)

Latest(stack) == stack[Len(stack)]
Earlier(stack) == SubSeq(stack, 1, Len(stack) - 1)

Undo(e) ==
  IF e.undo = <<>> THEN e
  ELSE [Restored(e, Latest(e.undo)) EXCEPT !.undo = Earlier(@),
                                           !.redo = Append(@, Snapshot(e))]

Redo(e) ==
  IF e.redo = <<>> THEN e
  ELSE [Restored(e, Latest(e.redo)) EXCEPT !.redo = Earlier(@),
                                           !.undo = Append(@, Snapshot(e))]

-----------------------------------------------------------------------------
(* Edits.                                                                   *)

Splice(line, from, to, new) ==
  SubSeq(line, 1, from) \o new \o SubSeq(line, to + 1, Len(line))

\* adjust_mark: where a mark is after n units have replaced from..to.
AdjustMark(mark, from, to, n) ==
  IF mark = None \/ (mark < from /\ from < to) THEN mark
  ELSE IF from = to THEN (IF mark > from THEN mark + n ELSE mark)
  ELSE IF mark <= to THEN from + Lesser(mark - from, n)
  ELSE mark - (to - from) + n

Replaced(e, from, to, new, cursor) ==
  Edited(e, [e EXCEPT !.line = Splice(@, from, to, new), !.cursor = cursor,
                      !.mark = AdjustMark(@, from, to, Len(new))])

ReplaceSpan(e, new, from, to) == Replaced(e, from, to, new, from + Len(new))

InsertText(e, text) ==
  LET end == CASE e.input = "insert" -> e.cursor
               [] e.input = "replace" -> Lesser(e.cursor + Len(text), Len(e.line))
               [] e.input = "replace_once" -> Lesser(e.cursor + 1, Len(e.line))
      inserted == ReplaceSpan(e, text, e.cursor, end)
  IN  IF text = <<>> THEN e
      ELSE IF e.input = "replace_once" THEN [inserted EXCEPT !.input = "insert"]
      ELSE inserted

Text(line, span) == SubSeq(line, span.from + 1, span.to)
Delete(e, span) == Replaced(e, span.from, span.to, <<>>, span.from)
Copy(e, span) == [e EXCEPT !.kill = Text(e.line, span)]
Kill(e, span) == [Delete(e, span) EXCEPT !.kill = Text(e.line, span)]

After(e) == Lesser(e.cursor + 1, Len(e.line))
Yank(e, placement) ==
  LET at == IF placement = "at_cursor" THEN e.cursor ELSE After(e)
  IN  IF e.kill = None THEN e ELSE ReplaceSpan(e, e.kill, at, at)

ToggleCase(e, span) ==
  LET text == Text(e.line, span)
  IN  ReplaceSpan(e, [i \in DOMAIN text |-> Toggled[text[i]]], span.from, span.to)

Swap(e, first, cursor) ==
  Edited(e, [e EXCEPT !.line = Splice(@, first, first + 2, <<@[first + 2], @[first + 1]>>),
                      !.cursor = cursor])
Transpose(e) ==
  IF e.cursor = 0 \/ Len(e.line) < 2 THEN e
  ELSE Swap(e, IF e.cursor = Len(e.line) THEN e.cursor - 2 ELSE e.cursor - 1, After(e))

SetMark(e) == [e EXCEPT !.mark = e.cursor]
ExchangeMark(e) == [e EXCEPT !.mark = e.cursor, !.cursor = e.mark]

SetModes(e, input, keymap) == [e EXCEPT !.input = input, !.keymap = keymap]
ToggleInputMode(e) ==
  [e EXCEPT !.input = IF @ = "replace" THEN "insert" ELSE "replace"]

\* restore_history (cursor at the start in Vi) and reset_line.
RestoreHistory(e, line) ==
  [e EXCEPT !.line = line, !.cursor = IF e.keymap = "emacs" THEN Len(line) ELSE 0,
            !.mark = IF @ = None THEN None ELSE Lesser(@, Len(line)),
            !.undo = <<>>, !.redo = <<>>, !.group = None]
ResetLine(e) ==
  [Opened(<<>>, 0, IF e.keymap = "emacs" THEN "emacs" ELSE "vi_insert")
     EXCEPT !.kill = e.kill]

-----------------------------------------------------------------------------
(* Motions.                                                                 *)

Space(line, p) == Class[line[p + 1]] = "space"

\* Past the units of one class that begin at p.
EndOfRun(line, p) ==
  Least({q \in p..Len(line) :
           q = Len(line) \/ Class[line[q + 1]] # Class[line[p + 1]]})

NextWord(line, p) ==
  LET from == IF p = Len(line) \/ Space(line, p) THEN p ELSE EndOfRun(line, p)
  IN  Least({q \in from..Len(line) : q = Len(line) \/ ~Space(line, q)})

PreviousWord(line, p) ==
  LET to == Greatest({q \in 0..p : q = 0 \/ ~Space(line, q - 1)})
  IN  IF to = 0 THEN 0
      ELSE Greatest({q \in 0..to : q = 0 \/ Class[line[q]] # Class[line[to]]})

Motions == {"left", "right", "next_word", "previous_word", "start", "end"}
Bounded == {"left", "right", "next_word", "previous_word"}

Destination(line, p, motion) ==
  CASE motion = "left" -> Before(p)
    [] motion = "right" -> Lesser(p + 1, Len(line))
    [] motion = "next_word" -> NextWord(line, p)
    [] motion = "previous_word" -> PreviousWord(line, p)
    [] motion = "start" -> 0
    [] motion = "end" -> Len(line)

\* A motion that no longer moves is at its fixed point, where the code stops.
RepeatedDestination(line, p, motion, n) ==
  LET after[i \in 0..n] == IF i = 0 THEN p ELSE Destination(line, after[i - 1], motion)
  IN  after[n]

Between(p, q) == [from |-> Lesser(p, q), to |-> IF p <= q THEN q ELSE p]
Inside(line, span) == span.from <= span.to /\ span.to <= Len(line)
-----------------------------------------------------------------------------
(* What every line state is.                                                *)

Snapshots ==
  [line : Lines, cursor : Nat, mark : {None} \cup Nat, input : InputModes]

\* Positions are positions of their line, in the line state and in every
\* snapshot that may be restored.
Placed(snapshot) ==
  /\ snapshot.cursor <= Len(snapshot.line)
  /\ snapshot.mark # None => snapshot.mark <= Len(snapshot.line)
Kept == {snapshot \in Snapshots : Placed(snapshot)}

Editors ==
  [line : Lines, cursor : Nat, mark : {None} \cup Nat, kill : {None} \cup Lines,
   input : InputModes, keymap : Keymaps, undo : Seq(Kept), redo : Seq(Kept),
   group : {None} \cup [before : Kept, depth : Nat \ {0}]]
LineOK(e) == e \in Editors /\ Placed(e)
=============================================================================
