---------------------------- MODULE HostHistory ----------------------------
(***************************************************************************)
(* The commands of a line that recall history (crates/nshedit-abi/src/     *)
(* histedit/driver.rs, host_history .. host_history_word, with their half  *)
(* in the driver, crates/nshedit/src/editor/driver/command_effect.rs).     *)
(* The application's history is a callback that is only asked for its      *)
(* newest event and for the next older one; where the line stands is the   *)
(* adapter's depth, 0 for the line being typed.  That line is kept twice:  *)
(* by the adapter when it leaves depth 0, and by the driver at the first   *)
(* such command of a read.                                                 *)
(***************************************************************************)
EXTENDS Naturals, SequencesExt

CONSTANTS
  Letters,      \* what can be typed
  Patterns,     \* what can be answered to a prompt
  Configs,      \* [editing, encoding, buffering, attached]
  Pasts,        \* the histories a first read may find
  MaxPast, MaxRecalled, MaxCount, MaxDepth   \* bounds: events, units of a line, counts, depth

ASSUME RecallAssumption == /\ MaxCount \in Nat
                           /\ \A p \in Pasts : p \in Seq({p[k] : k \in DOMAIN p})

None == <<"none">>

VARIABLES
  config,
  past,         \* the application's events, newest first
  line, cursor, keymap,    \* the editor
  depth, saved,            \* the adapter: HistoryBridge
  live, search,            \* the driver: live_line, last_history_search
  typed         \* history variable: the line when depth was last 0

editor == <<line, cursor, keymap>>
recallVars == <<config, past, editor, depth, saved, live, search, typed>>

Trimmed(text) ==
  LET Without(unit, t) == IF t # <<>> /\ Last(t) = unit THEN Front(t) ELSE t
  IN Without("sp", Without("nl", text))

HistoryItem(k) == Trimmed(past[k].line)

----------------------------------------------------------------------------
\* What the adapter answers: the depth and saved line it is left with, and the
\* line the driver is to show.

Answer(d, s, selection) == [depth |-> d, saved |-> s, selection |-> selection]
Entry(text) == [what |-> "entry", line |-> text]
Live == [what |-> "live"]
Unchanged == [what |-> "unchanged"]

LiveLineAlways == line
LiveLine == IF depth = 0 THEN line ELSE saved      \* save_history_live_line

\* The event at a depth, or the last one on the way there.
FetchHistory(d) ==
  IF past = <<>> THEN [reached |-> 0, line |-> None]
  ELSE LET reached == Min({d, Len(past)})
       IN [reached |-> reached, line |-> HistoryItem(reached)]

Older(count) ==
  LET requested == depth + count
      fetched == FetchHistory(requested)
      selected == CASE config.editing = "vi" -> depth
                    [] fetched.reached = 0 -> requested
                    [] OTHER -> fetched.reached
      retried == FetchHistory(selected)
      shown == CASE selected = 0 -> Entry(LiveLine)
                 [] selected # 0 /\ retried.reached = 0 -> Unchanged
                 [] OTHER -> Entry(retried.line)
  IN IF fetched.reached = requested THEN Answer(requested, LiveLine, Entry(fetched.line))
     ELSE Answer(selected, LiveLine, shown)

Newer(count) ==
  IF count >= depth THEN Answer(0, saved, Entry(saved))
  ELSE LET requested == depth - count
           fetched == FetchHistory(requested)
       IN IF fetched.reached = requested THEN Answer(requested, saved, Entry(fetched.line))
          ELSE Answer(IF fetched.reached = 0 THEN depth ELSE fetched.reached, saved, Unchanged)

HostHistory(direction, count) == IF direction = "previous" THEN Older(count) ELSE Newer(count)

HistoryMatches(text, pattern) ==
  \E k \in 0..Len(text) : IsPrefix(pattern, SubSeq(text, k + 1, Len(text)))

HostHistorySearch(direction, pattern) ==
  LET Matching(S) == {k \in S \cap DOMAIN past : HistoryMatches(HistoryItem(k), pattern)}
      older == Matching((depth + 1)..Len(past))
      newer == Matching(1..(depth - 1))
      At(k) == Answer(k, LiveLine, Entry(HistoryItem(k)))
  IN CASE direction = "previous" /\ older # {} -> At(Min(older))
       [] direction = "next" /\ newer # {} -> At(Max(newer))
       [] direction = "next" /\ newer = {} /\ depth # 0 /\ HistoryMatches(saved, pattern) ->
            Answer(0, saved, Live)
       [] OTHER -> Answer(depth, LiveLine, Unchanged)

\* The line being typed, as the adapter has it, with a history or without.
HostHistoryCurrent == Answer(0, saved, Entry(saved))

\* An event by its number, or the oldest; the narrow interface knows but one.
Unnumbered == 0     \* no count was typed
HostHistoryLine(position) ==
  LET Named == IF position = Unnumbered THEN {k \in DOMAIN past : k = Len(past)}
               ELSE {k \in DOMAIN past : past[k].number = position}
  IN CASE position # Unnumbered /\ config.encoding = "narrow" ->
            IF position = 1 THEN Answer(0, LiveLine, Live)
            ELSE Answer(depth, LiveLine, IF past = <<>> THEN Unchanged ELSE Entry(HistoryItem(1)))
       [] Named = {} -> Answer(depth, LiveLine, Unchanged)
       [] OTHER -> Answer(Min(Named), LiveLine, Entry(HistoryItem(Min(Named))))

Words(text) ==
  LET Take(words, unit) ==
        IF unit \in {"sp", "nl"} THEN Append(words, <<>>)
        ELSE [words EXCEPT ![Len(words)] = Append(@, unit)]
  IN SelectSeq(FoldLeft(Take, <<<<>>>>, text), LAMBDA word : word # <<>>)

----------------------------------------------------------------------------
\* The driver's half.

\* request_*: the first such command of a read keeps the line for itself.
Kept == IF live = None THEN line ELSE live

\* A read in command buffering ends with each command, and forgets it.
Remember(text) == live' = IF config.buffering = "line" THEN text ELSE None

ApplyHistoryResponse(selection, current, at) ==
  LET Show(text) == line' = text /\ cursor' = IF config.editing = "vi" THEN 0 ELSE Len(text)
  IN CASE selection = Unchanged -> line' = current /\ cursor' = at
       [] selection = Live -> Show(Kept)
       [] OTHER -> Show(selection.line)

Adopt(answer, current, at) ==
  /\ depth' = answer.depth /\ saved' = answer.saved
  /\ ApplyHistoryResponse(answer.selection, current, at)
  /\ UNCHANGED keymap

\* No history attached, or a query given up: only a beep.
Refuse(current, at) == line' = current /\ cursor' = at /\ UNCHANGED <<keymap, depth, saved>>

AnswerOr(answer, current, at) == IF config.attached THEN Adopt(answer, current, at) ELSE Refuse(current, at)

Command == Remember(Kept) /\ typed' = (IF depth = 0 THEN line ELSE typed) /\ UNCHANGED <<config, past>>

\* Without events, nothing but the bound keeps the depth of an Emacs line down.
Navigate(direction, count) ==
  /\ direction = "previous" => depth + count <= MaxDepth
  /\ AnswerOr(HostHistory(direction, count), line, cursor)
  /\ Command /\ UNCHANGED search

Store(pattern, direction) ==
  search' = IF config.attached THEN <<[pattern |-> pattern, direction |-> direction]>> ELSE search

SearchFor(pattern, direction, current, at) ==
  /\ AnswerOr(HostHistorySearch(direction, pattern), current, at)
  /\ Store(pattern, direction)
  /\ Command

SearchPrefix(direction) ==
  LET end == cursor + (IF keymap = "vi_command" /\ cursor < Len(line) THEN 1 ELSE 0)
  IN SearchFor(SubSeq(line, 1, end), direction, line, cursor)

\* The query is read over the line, which is gone whatever comes of it.
SearchPrompted(direction) ==
  \/ \E pattern \in Patterns : SearchFor(pattern, direction, <<>>, 0)
  \/ Refuse(<<>>, 0) /\ Command /\ UNCHANGED search

\* Vi command mode gives the first unit back and remembers an empty query.
SearchIncremental(direction) ==
  \/ /\ keymap # "vi_command"
     /\ \/ \E pattern \in Patterns : SearchFor(pattern, direction, line, cursor)
        \/ Refuse(line, cursor) /\ Command /\ UNCHANGED search
  \/ /\ keymap = "vi_command"
     /\ search' = <<[pattern |-> <<>>, direction |-> direction]>>
     /\ Command /\ UNCHANGED <<editor, depth, saved>>

Opposite(direction) == IF direction = "next" THEN "previous" ELSE "next"

SearchAgain(opposite) ==
  /\ search # <<>>
  /\ LET last == search[1]
     IN SearchFor(last.pattern, IF opposite THEN Opposite(last.direction) ELSE last.direction, line, cursor)

SelectLine(position) ==
  /\ AnswerOr(HostHistoryLine(position), line, cursor)
  /\ Command /\ UNCHANGED search

RestoreLine == Adopt(HostHistoryCurrent, line, cursor) /\ Command /\ UNCHANGED search

InsertWord(position) ==
  LET words == Words(HistoryItem(1))
      k == IF position = Unnumbered THEN Len(words) ELSE position
      at == cursor + (IF cursor < Len(line) THEN 1 ELSE 0)
      word == <<"sp">> \o words[k]
  IN /\ keymap = "vi_command"
     /\ IF config.attached /\ past # <<>> /\ k \in DOMAIN words
        THEN /\ Len(line) + Len(word) <= MaxRecalled
             /\ line' = SubSeq(line, 1, at) \o word \o SubSeq(line, at + 1, Len(line))
             /\ cursor' = at + Len(word) /\ keymap' = "vi_insert"
        ELSE UNCHANGED editor
     /\ live' = (IF config.buffering = "line" THEN live ELSE None)
     /\ typed' = (IF depth = 0 THEN line ELSE typed) /\ UNCHANGED <<config, past, depth, saved, search>>

\* What else is done to the line: a letter, the start of the line, command mode.
Edit ==
  /\ \/ \E unit \in Letters :
          /\ keymap # "vi_command" /\ Len(line) < MaxRecalled
          /\ line' = SubSeq(line, 1, cursor) \o <<unit>> \o SubSeq(line, cursor + 1, Len(line))
          /\ cursor' = cursor + 1 /\ UNCHANGED keymap
     \/ cursor # 0 /\ cursor' = 0 /\ UNCHANGED <<line, keymap>>
     \/ /\ keymap = "vi_insert" /\ keymap' = "vi_command"
        /\ cursor' = (IF cursor = 0 THEN 0 ELSE cursor - 1) /\ UNCHANGED line
  /\ live' = (IF config.buffering = "line" THEN live ELSE None)
  /\ typed' = (IF depth = 0 THEN line ELSE typed) /\ UNCHANGED <<config, past, depth, saved, search>>

----------------------------------------------------------------------------
FreshKeymap(editing) == IF editing = "vi" THEN "vi_insert" ELSE "emacs"

\* A read ends, the application may enter what it got, and reads again.
NextRead ==
  /\ \/ UNCHANGED past
     \/ /\ Len(past) < MaxPast
        /\ past' = <<[number |-> Len(past) + 1, line |-> Append(line, "nl")]>> \o past
  /\ line' = <<>> /\ cursor' = 0 /\ keymap' = FreshKeymap(config.editing)
  /\ depth' = 0 /\ saved' = <<>> /\ live' = None /\ typed' = <<>>
  /\ UNCHANGED <<config, search>>

RecallInit ==
  /\ config \in Configs /\ past \in Pasts
  /\ line = <<>> /\ cursor = 0 /\ keymap = FreshKeymap(config.editing)
  /\ depth = 0 /\ saved = <<>> /\ live = None /\ search = <<>> /\ typed = <<>>

Directions == {"previous", "next"}

RecallNext ==
  \/ \E direction \in Directions :
       \/ \E count \in 1..MaxCount : Navigate(direction, count)
       \/ SearchPrefix(direction) \/ SearchPrompted(direction) \/ SearchIncremental(direction)
  \/ \E opposite \in BOOLEAN : SearchAgain(opposite)
  \/ \E position \in 0..MaxCount : SelectLine(position) \/ InsertWord(position)
  \/ RestoreLine
  \/ Edit
  \/ NextRead

RecallSpec == RecallInit /\ [][RecallNext]_recallVars

----------------------------------------------------------------------------
\* A movement to another event shows that event, and the plain ways back to the
\* line being typed, down and vi-undo-line, give that line back as it was left, whatever was recalled,
\* searched or typed over a recalled line in between.
RecallFitsDepth ==
  [][/\ depth' \notin {depth, 0} /\ past # <<>> =>
          depth' \in DOMAIN past /\ line' = HistoryItem(depth')
     /\ depth # 0 /\ depth' = 0 /\ (RestoreLine \/ \E count \in 1..MaxCount : Navigate("next", count)) =>
          line' = typed]_recallVars

\* Whichever command returns to the line being typed gives it back as it was left.
LiveLineComesBack == [][depth # 0 /\ depth' = 0 => line' = typed \/ NextRead]_recallVars
=============================================================================
