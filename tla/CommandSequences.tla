-------------------------- MODULE CommandSequences --------------------------
(***************************************************************************)
(* crates/nshedit/src/editor/driver/{sequence,immediate}.rs and the part   *)
(* of driver.rs that dispatches a bound command: repeat counts, commands   *)
(* that wait for another unit, Vi operators, and the recording of a change *)
(* so that it can be repeated.                                             *)
(*                                                                         *)
(* A step is one command: from the key that completes it to the display it *)
(* schedules, or to the next unit it asks for.  The code runs that far     *)
(* without leaving the driver.  Handlers take and return                   *)
(*   [e |-> the line state, d |-> the driver's, outcome |-> the read's].   *)
(* How keys become commands, and everything the host answers besides a     *)
(* history line, is in ReadDriver.  Buffering is by line.                  *)
(*                                                                         *)
(* Bounds: the user gives MaxKeys keys in all.                             *)
(***************************************************************************)
EXTENDS LineState

CONSTANTS
  Openings,   \* the line states a session starts from
  Bound,      \* the commands bound in each keymap
  Typed,      \* the units typed, as text or to complete a command
  Digits,     \* the digits typed before a command
  WorkLimit, MaxKeys

ASSUME SequenceAssumption ==
  /\ Typed \subseteq Units
  /\ Digits \subseteq 0..9
  /\ WorkLimit \in Nat \ {0} /\ MaxKeys \in Nat

\* A session starts on a line state as it is made, whatever its line.
ASSUME OpeningAssumption ==
  \A e \in Openings : LineOK(e) /\ e = Opened(e.line, e.cursor, e.keymap)

\* A command: what it is, with the numbers and the operation it carries.
Actions ==
  {"move", "insert", "delete", "delete_character", "delete_or_end", "kill", "kill_word",
   "kill_to", "kill_region", "copy_region", "yank", "toggle", "transpose", "undo", "redo",
   "set_mark", "exchange_mark", "toggle_input_mode", "accept", "end_of_input", "refresh"}
Sequenced ==
  {"operator", "begin_insert", "command_mode", "replace_next", "replace_mode", "substitute",
   "search", "repeat_search", "quoted_insert"}
Immediate ==
  {"words", "end_of_word", "column", "comment", "end_if_empty", "delete_following",
   "toggle_and_advance", "delete_previous", "paste", "transpose_before", "insert_invoking",
   "undo_required"}
Arguments == {"start_or_argument", "multiply", "start_digit", "digit_or_insert"}
Recalls == {"history_line", "history_word"}

IsCommand(c) ==
  /\ c.kind \in Actions \cup Sequenced \cup Immediate \cup Arguments \cup Recalls
  /\ c.kind \in Arguments => IF c.kind = "multiply" THEN c.factor \in Nat ELSE c.digit \in Nat
  /\ c.kind = "words" => c.operation \in {"move", "duplicate", "delete", "kill", "toggle"}

ASSUME CommandAssumption == \A k \in Keymaps : \A c \in Bound[k] : IsCommand(c)

VARIABLES
  editor,   \* the line state
  driver,   \* what the driver remembers between commands
  outcome,  \* "reading", or how the last read ended
  keys,     \* the keys given so far
  rest      \* history: the line when no command was under way, and what
            \* unusual commands there have been since
vars == <<editor, driver, outcome, keys, rest>>

Idle == [argument |-> None, unit |-> None, operator |-> None, recording |-> None,
         lastChange |-> None, queue |-> <<>>, replaying |-> FALSE, lastSearch |-> None]

Reading(e, d) == [e |-> e, d |-> d, outcome |-> "reading"]
State == [e |-> editor, d |-> driver, outcome |-> outcome]

\* Nothing is half done: the next key begins a command.
AtRest(s) == /\ s.d.recording = None /\ ~s.d.replaying
             /\ s.d.unit = None /\ s.d.operator = None

\* The rest of a handler, unless what came before has ended the read.
Try(s, next) == IF s.outcome = "reading" THEN next ELSE s
With(s, e) == [s EXCEPT !.e = e]

-----------------------------------------------------------------------------
(* Recording a change.                                                      *)

\* Mutant of BeginChange: each command of a change opens a group.
BeginChangeAgain(s) ==
  IF s.d.replaying THEN s
  ELSE IF s.d.recording # None THEN [s EXCEPT !.e = BeginGroup(@)]
  ELSE [s EXCEPT !.e = BeginGroup(@),
                 !.d.recording = [before |-> s.e.line, steps |-> <<>>, cost |-> 0]]

BeginChange(s) ==
  IF s.d.recording # None \/ s.d.replaying THEN s
  ELSE [s EXCEPT !.e = BeginGroup(@),
                 !.d.recording = [before |-> s.e.line, steps |-> <<>>, cost |-> 0]]

\* A change is remembered if it changed the line.
FinishChange(s) ==
  LET change == s.d.recording
  IN  IF change = None THEN s
      ELSE [s EXCEPT !.e = FinishGroup(@), !.d.recording = None,
                     !.d.lastChange =
                       IF s.e.line = change.before \/ change.steps = <<>> THEN @
                       ELSE [steps |-> change.steps, cost |-> change.cost]]

\* clear_transient, complete and fail.
ClearTransient(d) == [Idle EXCEPT !.lastChange = d.lastChange, !.lastSearch = d.lastSearch]
End(s, how) ==
  LET t == FinishChange(s)
  IN  [e |-> FinishAllGroups(t.e), d |-> ClearTransient(t.d), outcome |-> how]
Fail(s) == End(s, "failed")

\* An error returned with `?` alone: nothing is cleaned up.
Abandon(s) == [s EXCEPT !.outcome = "abandoned"]

Invocation(c, n) == [kind |-> "invocation", command |-> c, count |-> n]
Continuation(u) == [kind |-> "continuation", unit |-> u]

\* record_step: a replay is not recorded again.
Records(s) == s.d.recording # None /\ ~s.d.replaying
Affordable(s, cost) == Records(s) => s.d.recording.cost + cost <= WorkLimit
Recorded(s, step, cost) ==
  IF ~Records(s) THEN s
  ELSE [s EXCEPT !.d.recording.steps = Append(@, step), !.d.recording.cost = @ + cost]

RecordStep(s, step, cost) ==
  IF Affordable(s, cost) THEN Recorded(s, step, cost) ELSE Fail(s)
RecordInvocation(s, c, n) == RecordStep(s, Invocation(c, n), n)

ChangesLine(c) ==
  c.kind \in {"insert", "delete", "delete_character", "delete_or_end", "kill",
              "kill_word", "kill_to", "kill_region", "yank", "toggle", "transpose"}
BelongsInReplay(c) == c.kind \notin {"accept", "end_of_input", "undo", "redo", "refresh"}

\* prepare_action_recording; its caller returns the error as it is.
PrepareRecording(s, c, n) ==
  LET begun == IF ChangesLine(c) /\ s.e.keymap # "emacs" THEN BeginChange(s) ELSE s
  IN  IF s.d.replaying \/ ~BelongsInReplay(c) THEN begun
      ELSE IF Affordable(begun, n) THEN Recorded(begun, Invocation(c, n), n)
      ELSE Abandon(begun)

\* schedule_command_display, up to the step it hands out.
Schedule(s) ==
  LET t == [s EXCEPT !.d.operator = None]
  IN  IF t.e.keymap = "vi_command" /\ t.d.unit = None /\ ~t.d.replaying
      THEN FinishChange(t) ELSE t

\* A command that comes to nothing cancels the operator and beeps.
Cancel(s) == Schedule(FinishChange([s EXCEPT !.d.operator = None]))

-----------------------------------------------------------------------------
(* Repeat counts.                                                           *)

Explicit(n) == [count |-> n, multiplied |-> FALSE]
CountOr(s, default) == IF s.d.argument = None THEN default ELSE s.d.argument.count

\* take_repeat: a replayed command brings its own count and takes no other.
Repeat(s, own) == IF own # None THEN own ELSE CountOr(s, 1)
TakeRepeat(s, own) == IF own # None THEN s ELSE [s EXCEPT !.d.argument = None]

AppendDigit(s, digit) ==
  LET n == 10 * CountOr(s, 0) + digit
  IN  IF n <= WorkLimit THEN [s EXCEPT !.d.argument = Explicit(n)] ELSE Fail(s)

MultiplyArgument(s, factor) ==
  LET n == factor * CountOr(s, 1)
  IN  IF n <= WorkLimit THEN [s EXCEPT !.d.argument = [count |-> n, multiplied |-> TRUE]]
      ELSE Fail(s)

-----------------------------------------------------------------------------
(* Actions.                                                                 *)

\* clamp_vi_command_cursor
Clamped(s) ==
  IF s.e.keymap = "vi_command" /\ s.e.line # <<>> /\ s.e.cursor >= Len(s.e.line)
  THEN [s EXCEPT !.e.cursor = Len(s.e.line) - 1] ELSE s

\* The part of the line an edit is about.
Target(e, c) ==
  CASE c.kind \in {"delete", "kill", "toggle"} -> c.span
    [] c.kind \in {"kill_word", "kill_to"} ->
         Between(e.cursor, Destination(e.line, e.cursor, c.motion))
    [] c.kind \in {"kill_region", "copy_region"} -> Between(e.cursor, e.mark)

Possible(e, c) ==
  /\ c.kind \in {"exchange_mark", "kill_region", "copy_region"} => e.mark # None
  /\ c.kind \in {"delete", "kill", "toggle"} => Inside(e.line, c.span)

Execute(e, c) ==
  CASE c.kind = "insert" -> InsertText(e, c.text)
    [] c.kind = "delete" -> Delete(e, c.span)
    [] c.kind = "delete_or_end" ->
         IF e.cursor = Len(e.line) THEN e ELSE Delete(e, Between(e.cursor, After(e)))
    [] c.kind \in {"kill", "kill_word", "kill_to", "kill_region"} -> Kill(e, Target(e, c))
    [] c.kind = "copy_region" -> Copy(e, Target(e, c))
    [] c.kind = "toggle" -> ToggleCase(e, c.span)
    [] c.kind = "yank" -> Yank(e, c.placement)
    [] c.kind = "set_mark" -> SetMark(e)
    [] c.kind = "exchange_mark" -> ExchangeMark(e)
    [] c.kind = "toggle_input_mode" -> ToggleInputMode(e)
    [] c.kind = "undo" -> Undo(e)
    [] c.kind = "redo" -> Redo(e)
    [] c.kind = "refresh" -> e

ExecuteOnce(s, c) ==
  CASE c.kind = "accept" -> End(s, "accepted")
    [] c.kind = "end_of_input" \/ (c.kind = "delete_or_end" /\ s.e.line = <<>>) ->
         End(s, "end_of_input")
    [] OTHER -> IF Possible(s.e, c) THEN With(s, Execute(s.e, c)) ELSE Fail(s)

RefreshesCursor(c) ==
  c.kind \notin {"insert", "copy_region", "set_mark", "toggle_input_mode"}
RepeatsWithCount(c) == c.kind \in {"insert", "delete_or_end", "kill_word"}

\* continue_repetition
Repeated(s, c, n) ==
  LET Once(r) == Try(r, ExecuteOnce(r, c))
      after[i \in 0..n] == IF i = 0 THEN s ELSE Once(after[i - 1])
      t == after[n]
  IN  Try(t, Schedule(IF RefreshesCursor(c) THEN Clamped(t) ELSE t))

CountedMove(s, motion, n) ==
  LET line == s.e.line
      atRight == /\ s.e.keymap = "vi_command" /\ motion \in {"right", "next_word"}
                 /\ line # <<>> /\ s.e.cursor >= Len(line) - 1
      to == IF atRight THEN s.e.cursor ELSE RepeatedDestination(line, s.e.cursor, motion, n)
  IN  Schedule(Clamped([s EXCEPT !.e.cursor = to]))

CountedDelete(s, direction, n) ==
  LET to == RepeatedDestination(s.e.line, s.e.cursor, direction, n)
  IN  Schedule(Clamped(With(s, Delete(s.e, Between(s.e.cursor, to)))))

DispatchTranspose(s) ==
  IF Len(s.e.line) < 2 THEN Schedule(s)
  ELSE IF s.e.cursor = 0 THEN Schedule([s EXCEPT !.e.cursor = 1])
  ELSE Schedule(Clamped(With(s, Transpose(s.e))))

DispatchAction(s, c, n) ==
  IF n = 0 THEN Schedule(s)
  ELSE CASE c.kind = "move" -> CountedMove(s, c.motion, n)
         [] c.kind = "delete_character" -> CountedDelete(s, c.direction, n)
         [] c.kind = "transpose" -> DispatchTranspose(s)
         [] OTHER -> Repeated(s, c, IF RepeatsWithCount(c) THEN n ELSE 1)

\* What the immediate commands do: record one action and perform it.
Perform(s, c) ==
  LET t == PrepareRecording(s, c, 1) IN Try(t, DispatchAction(t, c, 1))

-----------------------------------------------------------------------------
(* Vi operators.                                                            *)

OperatorSpan(line, anchor, to, inclusive) ==
  LET span == Between(anchor, to)
      reach == IF inclusive \/ span.from = span.to THEN span.to + 1 ELSE span.to
  IN  [span EXCEPT !.to = Lesser(reach, Len(line))]

\* apply_operator_target
Operate(s, span) ==
  LET o == s.d.operator.operator
      e == IF o = "yank" THEN Copy(s.e, span) ELSE Kill(s.e, span)
  IN  Schedule([s EXCEPT !.d.operator = None,
                         !.e = IF o = "change" THEN SetModes(e, "insert", "vi_insert") ELSE e])

OperateTo(s, to, inclusive) ==
  Operate(s, OperatorSpan(s.e.line, s.d.operator.anchor, to, inclusive))

\* dispatch_operator_action and apply_operator_motion
OperatorMotion(s, c, own) ==
  LET n == Repeat(s, own)
      t == RecordInvocation(TakeRepeat(s, own), c, n)
      to == RepeatedDestination(t.e.line, t.e.cursor, c.motion, n)
  IN  Try(t, IF to = t.d.operator.anchor /\ c.motion \in Bounded THEN Cancel(t)
             ELSE OperateTo(t, to, FALSE))

BeginOperator(s, c, own) ==
  LET n == Repeat(s, own)
      counted == own # None \/ s.d.argument # None
      t == TakeRepeat(s, own)
      again == RecordInvocation(t, c, n)
      first == RecordInvocation(BeginChange(t), c, n)
  IN  IF s.d.operator = None
      THEN Try(first, [first EXCEPT
             !.d.operator = [operator |-> c.operator, anchor |-> first.e.cursor],
             !.d.argument = IF counted THEN Explicit(n) ELSE None])
      ELSE IF s.d.operator.operator = c.operator
      THEN Try(again, Operate(again, [from |-> 0, to |-> Len(again.e.line)]))
      ELSE Cancel(t)

-----------------------------------------------------------------------------
(* Insert, replace and substitute.                                          *)

\* The prologue of the commands that begin a change.
Starting(s, c, own) ==
  RecordInvocation(BeginChange(TakeRepeat(s, own)), c, Repeat(s, own))

BeginInsert(s, c, own) ==
  LET t == Starting(s, c, own)
      to == CASE c.placement = "at_cursor" -> t.e.cursor
              [] c.placement = "after_cursor" -> After(t.e)
              [] c.placement = "start" -> 0
              [] c.placement = "end" -> Len(t.e.line)
  IN  Try(t, Schedule(With(t, SetModes([t.e EXCEPT !.cursor = to], "insert", "vi_insert"))))

EnterCommandMode(s, c) ==
  LET t == RecordInvocation(s, c, 1)
  IN  Try(t, Schedule([t EXCEPT
        !.d.operator = None, !.d.argument = None,
        !.e = SetModes([t.e EXCEPT !.cursor = Before(t.e.cursor)], "insert", "vi_command")]))

BeginReplacement(s, c, own) ==
  LET t == Starting(s, c, own)
  IN  IF s.e.cursor >= Len(s.e.line) THEN Schedule([s EXCEPT !.d.argument = None])
      ELSE Try(t, [t EXCEPT !.d.unit = [kind |-> "replace", count |-> Repeat(s, own)]])

BeginReplaceMode(s, c, own) ==
  LET t == Starting(s, c, own)
  IN  Try(t, Schedule(With(t, SetModes(t.e, "replace", "vi_insert"))))

Substitute(s, c, own) ==
  LET t == Starting(s, c, own)
      at == t.e.cursor
      span == CASE c.substitution = "characters" ->
                     [from |-> at, to |-> Lesser(at + Repeat(s, own), Len(t.e.line))]
                [] c.substitution = "line" -> [from |-> 0, to |-> Len(t.e.line)]
                [] c.substitution = "to_end" -> [from |-> at, to |-> Len(t.e.line)]
  IN  Try(t, Schedule(With(t, SetModes(Kill(t.e, span), "insert", "vi_insert"))))

ReplaceWithUnit(s, u, n) ==
  LET at == s.e.cursor
      replaced == Lesser(n, Len(s.e.line) - at)
      e == SetModes(ReplaceSpan(s.e, Copies(u, replaced), at, at + replaced),
                    "insert", "vi_command")
  IN  Schedule(With(s, IF replaced = 0 THEN e ELSE [e EXCEPT !.cursor = at + replaced - 1]))

\* A change begins only from insert mode; elsewhere the insertion records itself.
BeginQuotedInsert(s, c, own) ==
  LET n == Repeat(s, own)
      t == TakeRepeat(s, own)
      r == RecordInvocation(IF t.e.keymap = "vi_insert" THEN BeginChange(t) ELSE t, c, n)
  IN  Try(r, [r EXCEPT !.d.unit = [kind |-> "quoted", count |-> n]])

InsertCopies(s, u, n) ==
  LET t == With(s, InsertText(s.e, Copies(u, n)))
  IN  Schedule(IF n > 1 THEN Clamped(t) ELSE t)

-----------------------------------------------------------------------------
(* Character search.                                                        *)

Opposite(direction) == IF direction = "left" THEN "right" ELSE "left"

\* The next occurrence from p, or None.
Occurrence(line, p, direction, u) ==
  LET at == IF direction = "right" THEN {q \in p + 1..Len(line) - 1 : line[q + 1] = u}
            ELSE {q \in 0..p - 1 : line[q + 1] = u}
  IN  IF at = {} THEN None ELSE IF direction = "right" THEN Least(at) ELSE Greatest(at)

CharacterDestination(line, p, search, u, n) ==
  LET From(at) == IF at = None THEN None ELSE Occurrence(line, at, search.direction, u)
      after[i \in 0..n] == IF i = 0 THEN p ELSE From(after[i - 1])
      q == after[n]
  IN  IF q = None \/ search.landing = "on" THEN q
      ELSE IF search.direction = "right" THEN Before(q) ELSE Lesser(q + 1, Len(line))

RunSearch(s, search, u, n) ==
  LET to == CharacterDestination(s.e.line, s.e.cursor, search, u, n)
  IN  IF to = None THEN Cancel(s)
      ELSE IF s.d.operator # None THEN OperateTo(s, to, to >= s.d.operator.anchor)
      ELSE Schedule([s EXCEPT !.e.cursor = to])

BeginSearch(s, c, own) ==
  LET n == Repeat(s, own)
      t == RecordInvocation(TakeRepeat(s, own), c, n)
  IN  Try(t, [t EXCEPT !.d.unit = [kind |-> "search", search |-> c.search, count |-> n]])

RepeatSearch(s, c, own) ==
  LET n == Repeat(s, own)
      t == RecordInvocation(TakeRepeat(s, own), c, n)
      stored == t.d.lastSearch
      search == IF c.repetition = "same" THEN stored.search
                ELSE [stored.search EXCEPT !.direction = Opposite(@)]
  IN  Try(t, IF stored = None THEN Cancel(t) ELSE RunSearch(t, search, stored.target, n))

-----------------------------------------------------------------------------
(* The immediate commands.                                                  *)

IsWord(line, p) == Class[line[p + 1]] = "word"

WordBoundary(line, p, direction) ==
  IF direction = "right"
  THEN LET from == Least({q \in p..Len(line) : q = Len(line) \/ IsWord(line, q)})
       IN  Least({q \in from..Len(line) : q = Len(line) \/ ~IsWord(line, q)})
  ELSE LET from == Greatest({q \in 0..p : q = 0 \/ IsWord(line, q - 1)})
       IN  Greatest({q \in 0..from : q = 0 \/ ~IsWord(line, q - 1)})

TraverseWords(s, c, own) ==
  LET n == Repeat(s, own)
      t == TakeRepeat(s, own)
      line == t.e.line
      at == t.e.cursor
      after[i \in 0..n] == IF i = 0 THEN at ELSE WordBoundary(line, after[i - 1], c.direction)
      to == after[n]
      edit == [kind |-> c.operation, span |-> Between(at, to)]
      copy == [kind |-> "insert", text |-> Text(line, Between(at, to))]
      doubled == PrepareRecording(t, copy, 1)
  IN  IF at = (IF c.direction = "left" THEN 0 ELSE Len(line)) /\ c.operation # "toggle"
      THEN Cancel(t)
      ELSE CASE c.operation = "move" /\ t.d.operator # None -> OperateTo(t, to, FALSE)
             [] c.operation = "move" -> Schedule(Clamped([t EXCEPT !.e.cursor = to]))
             [] c.operation = "duplicate" ->
                  Try(doubled,
                      Schedule(With(doubled, ReplaceSpan(doubled.e, copy.text, at, at))))
             [] OTHER -> Perform(t, edit)

\* A position past the last word is the last unit.
WordEnd(line, p) ==
  LET from == Least({q \in p + 1..Len(line) : q = Len(line) \/ ~Space(line, q)})
  IN  IF from = Len(line) THEN Len(line) - 1 ELSE EndOfRun(line, from) - 1

MoveToWordEnd(s, own) ==
  LET n == Repeat(s, own)
      t == TakeRepeat(s, own)
      after[i \in 0..n] == IF i = 0 THEN t.e.cursor ELSE WordEnd(t.e.line, after[i - 1])
  IN  IF t.e.cursor >= Len(t.e.line) THEN Cancel(t)
      ELSE IF t.d.operator # None THEN OperateTo(t, after[n], TRUE)
      ELSE Schedule([t EXCEPT !.e.cursor = after[n]])

MoveToColumn(s, own) ==
  LET t == TakeRepeat(s, own)
      to == Lesser(Before(Repeat(s, own)), Len(t.e.line))
  IN  IF t.e.line = <<>> \/ (Len(t.e.line) = 1 /\ t.d.operator = None) THEN Cancel(t)
      ELSE IF t.d.operator # None THEN OperateTo(t, to, FALSE)
      ELSE Schedule([t EXCEPT !.e.cursor = to])

CommentAndAccept(s, c, own) ==
  LET t == TakeRepeat(s, own) IN End(With(t, ReplaceSpan(t.e, c.text, 0, 0)), "accepted")

EndIfEmpty(s, own) ==
  LET t == TakeRepeat(s, own)
  IN  IF t.e.line = <<>> THEN End(t, "end_of_input") ELSE Schedule(t)

DeleteFollowing(s, own) ==
  LET n == Repeat(s, own)
      t == TakeRepeat(s, own)
      at == t.e.cursor
      span == [from |-> at, to |-> Lesser(at + n, Len(t.e.line))]
  IN  IF t.e.line = <<>> THEN End(t, "end_of_input")
      ELSE IF at = Len(t.e.line) \/ n = 0 THEN Schedule(t)
      ELSE Perform(t, [kind |-> "delete", span |-> span])

\* When the last unit is toggled the cursor stays on it, in every keymap.
ToggleAndAdvance(s, own) ==
  LET n == Repeat(s, own)
      t == TakeRepeat(s, own)
      at == t.e.cursor
      span == [from |-> at, to |-> Lesser(at + n, Len(t.e.line))]
      c == [kind |-> "toggle", span |-> span]
      p == PrepareRecording(t, c, 1)
      e == ToggleCase(p.e, span)
  IN  IF at >= Len(t.e.line) \/ n = 0 THEN Schedule(t)
      ELSE Try(p, Schedule(With(p, IF span.to < Len(e.line) THEN e
                                   ELSE [e EXCEPT !.cursor = Len(e.line) - 1])))

DeletePrevious(s, own) ==
  Perform(TakeRepeat(s, own), [kind |-> "delete_character", direction |-> "left"])

Paste(s, c, own) ==
  LET t == TakeRepeat(s, own)
  IN  IF t.e.kill \in {None, <<>>} THEN Schedule(t)
      ELSE Perform(t, [kind |-> "yank", placement |-> c.placement])

TransposeBefore(s, own) ==
  LET t == TakeRepeat(s, own)
      p == PrepareRecording(t, [kind |-> "transpose"], 1)
      at == t.e.cursor
  IN  IF at < 2 THEN Schedule(t)
      ELSE Try(p, Schedule(With(p, Swap(p.e, at - 2, at))))

InsertInvoking(s, c, own) ==
  LET n == Repeat(s, own)
      t == TakeRepeat(s, own)
      text == Copies(c.unit, n)
      p == PrepareRecording(t, [kind |-> "insert", text |-> text], 1)
      at == p.e.cursor
  IN  IF n = 0 THEN Schedule(t)
      ELSE Try(p, CASE p.e.input = "replace_once" -> ReplaceWithUnit(p, c.unit, n)
                    [] p.e.input = "replace" /\ n # 1 ->
                         Schedule(With(p, ReplaceSpan(p.e, text, at, at)))
                    [] OTHER -> InsertCopies(p, c.unit, n))

UndoRequired(s, own) ==
  LET t == TakeRepeat(s, own)
  IN  IF t.e.undo = <<>> THEN Schedule(t) ELSE DispatchAction(t, [kind |-> "undo"], 1)
-----------------------------------------------------------------------------
(* Arguments, host commands and dispatch.                                   *)

\* apply_argument
DigitArgument(s, c) ==
  CASE c.kind = "digit_or_insert" /\ s.d.argument = None ->
         Perform(s, [kind |-> "insert", text |-> <<c.unit>>])
    [] c.kind = "digit_or_insert" /\ s.d.argument # None /\ s.d.argument.multiplied ->
         [s EXCEPT !.d.argument = Explicit(c.digit)]
    [] OTHER -> AppendDigit(s, c.digit)

StartOrArgument(s, c) ==
  LET start == [kind |-> "move", motion |-> "start"]
  IN  IF s.d.argument # None THEN AppendDigit(s, c.digit)
      ELSE IF s.d.operator # None THEN OperatorMotion(s, start, None)
      ELSE DispatchAction(s, start, 1)

\* A history command with the line the host answers with, None if it has none;
\* and the insertion of a word of the history, with its blank.
HistoryLine(s, c, own) ==
  LET t == TakeRepeat(s, own)
  IN  Schedule(IF Repeat(s, own) = 0 \/ c.answer = None THEN t
               ELSE With(t, RestoreHistory(t.e, c.answer)))

HistoryWord(s, c, own) ==
  LET t == TakeRepeat(s, own)
      at == After(t.e)
  IN  IF Repeat(s, own) = 0 THEN Schedule(t)
      ELSE Schedule(With(t, SetModes(ReplaceSpan(t.e, c.word, at, at), "insert", "vi_insert")))

\* dispatch_resolved_binding
Dispatch(s, c, own) ==
  CASE c.kind = "move" /\ s.d.operator # None -> OperatorMotion(s, c, own)
    [] c.kind \in Actions /\ ~(c.kind = "move" /\ s.d.operator # None) ->
         LET n == Repeat(s, own)
             p == PrepareRecording(TakeRepeat(s, own), c, n)
         IN  Try(p, DispatchAction(p, c, n))
    [] c.kind = "operator" -> BeginOperator(s, c, own)
    [] c.kind = "begin_insert" -> BeginInsert(s, c, own)
    [] c.kind = "command_mode" -> EnterCommandMode(s, c)
    [] c.kind = "replace_next" -> BeginReplacement(s, c, own)
    [] c.kind = "replace_mode" -> BeginReplaceMode(s, c, own)
    [] c.kind = "substitute" -> Substitute(s, c, own)
    [] c.kind = "search" -> BeginSearch(s, c, own)
    [] c.kind = "repeat_search" -> RepeatSearch(s, c, own)
    [] c.kind = "quoted_insert" -> BeginQuotedInsert(s, c, own)
    [] c.kind = "words" -> TraverseWords(s, c, own)
    [] c.kind = "end_of_word" -> MoveToWordEnd(s, own)
    [] c.kind = "column" -> MoveToColumn(s, own)
    [] c.kind = "comment" -> CommentAndAccept(s, c, own)
    [] c.kind = "end_if_empty" -> EndIfEmpty(s, own)
    [] c.kind = "delete_following" -> DeleteFollowing(s, own)
    [] c.kind = "toggle_and_advance" -> ToggleAndAdvance(s, own)
    [] c.kind = "delete_previous" -> DeletePrevious(s, own)
    [] c.kind = "paste" -> Paste(s, c, own)
    [] c.kind = "transpose_before" -> TransposeBefore(s, own)
    [] c.kind = "insert_invoking" -> InsertInvoking(s, c, own)
    [] c.kind = "undo_required" -> UndoRequired(s, own)
    [] c.kind = "start_or_argument" -> StartOrArgument(s, c)
    [] c.kind = "multiply" -> MultiplyArgument(s, c.factor)
    [] c.kind \in {"start_digit", "digit_or_insert"} -> DigitArgument(s, c)
    [] c.kind = "history_line" -> HistoryLine(s, c, own)
    [] c.kind = "history_word" -> HistoryWord(s, c, own)

\* Mutant of Consume: the unit is not recorded.
ConsumeUnrecorded(s, u) ==
  LET pending == s.d.unit
      t == [s EXCEPT !.d.unit = None]
  IN  CASE pending.kind = "quoted" -> InsertCopies(t, u, pending.count)
        [] pending.kind = "replace" -> ReplaceWithUnit(t, u, pending.count)
        [] pending.kind = "search" ->
             RunSearch([t EXCEPT !.d.lastSearch = [search |-> pending.search, target |-> u]],
                       pending.search, u, pending.count)

\* consume_unit, with the unit that was waited for.
Consume(s, u) ==
  LET pending == s.d.unit
      t == RecordStep([s EXCEPT !.d.unit = None], Continuation(u), 1)
  IN  Try(t, CASE pending.kind = "quoted" -> InsertCopies(t, u, pending.count)
               [] pending.kind = "replace" -> ReplaceWithUnit(t, u, pending.count)
               [] pending.kind = "search" ->
                    RunSearch([t EXCEPT !.d.lastSearch =
                                 [search |-> pending.search, target |-> u]],
                              pending.search, u, pending.count))

-----------------------------------------------------------------------------
(* Replay.                                                                  *)

\* Mutant of ReplayChange: every replayed command is a record of its own.
ReplayUngrouped(s, own) ==
  LET n == Repeat(s, own)
      t == TakeRepeat(s, own)
      change == s.d.lastChange
      steps[i \in 0..n] == IF i = 0 THEN <<>> ELSE steps[i - 1] \o change.steps
  IN  IF s.d.operator # None THEN Cancel([s EXCEPT !.d.argument = None])
      ELSE IF change = None THEN Schedule(t)
      ELSE IF change.cost * n > WorkLimit THEN Fail(t)
      ELSE [t EXCEPT !.d.queue = @ \o steps[n], !.d.replaying = TRUE]

\* replay_change; what stays of an operator cancels the repetition instead.
ReplayChange(s, own) ==
  LET n == Repeat(s, own)
      t == TakeRepeat(s, own)
      change == s.d.lastChange
      steps[i \in 0..n] == IF i = 0 THEN <<>> ELSE steps[i - 1] \o change.steps
  IN  IF s.d.operator # None THEN Cancel([s EXCEPT !.d.argument = None])
      ELSE IF change = None THEN Schedule(t)
      ELSE IF change.cost * n > WorkLimit THEN Fail(t)
      ELSE [t EXCEPT !.e = BeginGroup(@), !.d.queue = @ \o steps[n], !.d.replaying = TRUE]

\* Mutant of Advance: the step that is replayed stays at the head of the queue.
AdvanceInPlace(s) ==
  LET step == Head(s.d.queue)
  IN  IF s.d.queue = <<>> THEN [s EXCEPT !.e = FinishGroup(@), !.d.replaying = FALSE]
      ELSE IF step.kind = "invocation" THEN Dispatch(s, step.command, step.count)
      ELSE IF s.d.unit = None THEN Fail(s)
      ELSE Consume(s, step.unit)

\* advance_semantic_replay: the next step, or the end of the group.
Advance(s) ==
  LET step == Head(s.d.queue)
      t == [s EXCEPT !.d.queue = Tail(@)]
  IN  IF s.d.queue = <<>> THEN [s EXCEPT !.e = FinishGroup(@), !.d.replaying = FALSE]
      ELSE IF step.kind = "invocation" THEN Dispatch(t, step.command, step.count)
      ELSE IF s.d.unit = None THEN Fail(t)
      ELSE Consume(t, step.unit)

-----------------------------------------------------------------------------
(* The session.                                                             *)

\* History: what sets a command apart from a recorded edit.
Marks(c) ==
  CASE c.kind \in {"undo", "redo", "undo_required"} -> {"undone", "unrecorded"}
    [] c.kind = "history_line" -> {"restored", "unrecorded"}
    [] c.kind \in {"history_word", "end_of_word", "column", "comment", "start_or_argument"}
         \/ (c.kind = "words" /\ c.operation = "move") -> {"unrecorded"}
    [] OTHER -> {}

Becomes(t, seen) ==
  /\ editor' = t.e /\ driver' = t.d /\ outcome' = t.outcome
  /\ rest' = IF AtRest(t) THEN [e |-> t.e, search |-> t.d.lastSearch, marks |-> seen]
             ELSE [rest EXCEPT !.marks = seen]

\* Only what an abandoned read has left on the line outlasts a command.
Seen(marks) == marks \cup (IF AtRest(State) THEN rest.marks \cap {"abandoned"} ELSE rest.marks)

Ready == outcome = "reading" /\ ~driver.replaying /\ keys < MaxKeys
Pressed(t, marks) == keys' = keys + 1 /\ Becomes(t, Seen(marks))

Init == /\ editor \in Openings
        /\ driver = Idle
        /\ outcome = "reading"
        /\ keys = 0
        /\ rest = [e |-> editor, search |-> None, marks |-> {}]

\* capture_count: a digit of a count in command mode.
Digit(n) == /\ Ready /\ driver.unit = None /\ editor.keymap = "vi_command"
            /\ n # 0 \/ driver.argument # None
            /\ Pressed(AppendDigit(State, n), {})

Press(c) == /\ Ready /\ driver.unit = None
            /\ Pressed(Dispatch(State, c, None), Marks(c))

\* In any keymap: an insertion that is open does not record the replay in it.
RepeatChange ==
  LET t == ReplayChange(State, None)
  IN  /\ Ready /\ driver.unit = None
      /\ Pressed(t, IF t.d.replaying /\ t.d.recording # None THEN {"unrecorded"} ELSE {})

\* handle_unbound: a unit with no binding inserts itself, but not in command mode.
Type(u) == /\ Ready /\ driver.unit = None /\ editor.keymap # "vi_command"
           /\ Pressed(Dispatch(State, [kind |-> "insert", text |-> <<u>>], None), {})
Unbound == /\ Ready /\ driver.unit = None /\ editor.keymap = "vi_command"
           /\ Pressed([State EXCEPT !.d.argument = None], {})

Continue(u) == /\ Ready /\ driver.unit # None
               /\ Pressed(Consume(State, u), {})

Replaying == outcome = "reading" /\ driver.replaying
ReplayStep == /\ Replaying
              /\ Becomes(Advance(State),
                         Seen(IF driver.queue = <<>> /\ driver.recording = None
                              THEN {"replayed"} ELSE {}))
              /\ UNCHANGED keys

\* The input ends, or the host interrupts or fails a step.
Stop(how) == /\ outcome = "reading"
             /\ Becomes(End(State, how), Seen({})) /\ UNCHANGED keys

\* The next read, of a new line or of the same one.
Begin(reset) == /\ outcome # "reading" /\ keys < MaxKeys
                /\ keys' = keys + 1
                /\ LET e == IF reset THEN ResetLine(editor) ELSE editor
                       leaves == outcome = "abandoned" /\ ~reset
                   IN  Becomes(Reading(e, ClearTransient(driver)),
                               {"restored"} \cup (IF leaves THEN {"abandoned"} ELSE {}))

Next == \/ \E n \in Digits : Digit(n)
        \/ \E c \in Bound[editor.keymap] : Press(c)
        \/ RepeatChange
        \/ \E u \in Typed : Type(u) \/ Continue(u)
        \/ Unbound
        \/ ReplayStep
        \/ \E how \in {"end_of_input", "interrupted", "host_failed"} : Stop(how)
        \/ \E reset \in BOOLEAN : Begin(reset)

Spec == Init /\ [][Next]_vars

\* The driver advances a replay by itself, and its displays are served: weak
\* fairness of ReplayStep, with what enables it spelled out.
FairSpec == Spec /\ ([]<>~Replaying \/ []<><<ReplayStep>>_vars)
-----------------------------------------------------------------------------
(* Properties.                                                              *)

\* Positions are positions of their line (LineOK), also an operator's anchor, and
\* counts and costs are within the limit.
TypeOK ==
  /\ LineOK(editor)
  /\ CountOr(State, 0) \in 0..WorkLimit
  /\ driver.operator # None => driver.operator.anchor \in 0..Len(editor.line)
  /\ driver.recording # None => driver.recording.cost \in 0..WorkLimit
  /\ driver.lastChange # None => driver.lastChange.cost \in 0..WorkLimit
  /\ driver.replaying \in BOOLEAN /\ (driver.queue # <<>> => driver.replaying)
  /\ keys \in 0..MaxKeys

\* An edit group is open exactly while a change is recorded or replayed, once
\* for each, unless a history line has closed it or a read that was abandoned
\* has left its own on the line.
GroupsAreOwned ==
  LET Holds(b) == IF b THEN 1 ELSE 0
      depth == IF editor.group = None THEN 0 ELSE editor.group.depth
      owners == Holds(driver.recording # None) + Holds(driver.replaying)
  IN  rest.marks \cap {"restored", "abandoned"} = {} => depth = owners

\* What a replay leaves pending is finished outside its group.
LeftByReplay == "replayed" \in rest.marks /\ ~AtRest(State)

OneRecord ==
  IF editor'.line = rest.e.line
  THEN editor'.undo = rest.e.undo /\ editor'.redo = rest.e.redo
  ELSE editor'.undo = Append(rest.e.undo, Snapshot(rest.e)) /\ editor'.redo = <<>>
CommandEnds == AtRest(State)' /\ rest'.marks \cap {"undone", "restored", "abandoned"} = {}

\* In Vi a command is one undo record, however many keys, units and replayed
\* steps it takes and however it ends: none if the line is as before, else one
\* that holds the state it began in, and nothing is left to redo.
OneRecordPerCommand ==
  [][ CommandEnds /\ ~LeftByReplay /\ rest.e.keymap # "emacs" => OneRecord ]_vars

\* What repeating a change once makes of a line state.
Replay(e, search, change) ==
  LET begun == ReplayChange(Reading(e, [Idle EXCEPT !.lastChange = change,
                                                    !.lastSearch = search]), None)
      Step(s) == IF s.d.replaying THEN Advance(s) ELSE s
      after[i \in 0..Len(change.steps) + 1] == IF i = 0 THEN begun ELSE Step(after[i - 1])
  IN  after[Len(change.steps) + 1]

Visible(e) == [line |-> e.line, cursor |-> e.cursor, kill |-> e.kill, keymap |-> e.keymap]

\* A change that is remembered, repeated where it began, does what it did, if all
\* its commands are of those that are recorded (Marks) and no replay was part of it.
ReplayFaithful ==
  [][ driver'.lastChange # driver.lastChange /\ "unrecorded" \notin rest'.marks =>
        Visible(Replay(rest.e, rest.search, driver'.lastChange).e) = Visible(editor') ]_vars

\* A replay comes to its end.
ReplayEnds == driver.replaying ~> ~driver.replaying
=============================================================================
