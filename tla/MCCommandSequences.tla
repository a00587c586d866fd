------------------------- MODULE MCCommandSequences -------------------------
(* Small lines and keymaps for command sequences.                          *)
EXTENDS CommandSequences, TLC

Classes == ("a" :> "word") @@ ("A" :> "word") @@ (" " :> "space")
Cases == ("a" :> "A") @@ ("A" :> "a") @@ (" " :> " ")

Key(kind) == [kind |-> kind]
Keys(kinds) == {Key(kind) : kind \in kinds}
Moves(motions) == {[kind |-> "move", motion |-> m] : m \in motions}
Operators(os) == {[kind |-> "operator", operator |-> o] : o \in os}
Inserts(ps) == {[kind |-> "begin_insert", placement |-> p] : p \in ps}
Substitutes(ws) == {[kind |-> "substitute", substitution |-> w] : w \in ws}
Searches(directions, landings) ==
  {[kind |-> "search", search |-> [direction |-> d, landing |-> l]] :
     d \in directions, l \in landings}
Again(repetitions) == {[kind |-> "repeat_search", repetition |-> r] : r \in repetitions}
Words(directions, operations) ==
  {[kind |-> "words", direction |-> d, operation |-> o] :
     d \in directions, o \in operations}
At(kind, placements) == {[kind |-> kind, placement |-> p] : p \in placements}
Toward(kind, motions) == {[kind |-> kind, motion |-> m] : m \in motions}
Deletes(directions) == {[kind |-> "delete_character", direction |-> d] : d \in directions}
HistoryLines(answers) == {[kind |-> "history_line", answer |-> a] : a \in answers}

\* The keys of changes that span several commands.
Changes == [k \in Keymaps |->
  CASE k = "vi_command" ->
         Moves({"left", "next_word"}) \cup Operators({"delete", "change", "yank"}) \cup
         Inserts({"after_cursor"}) \cup Substitutes({"characters"}) \cup
         Searches({"right"}, {"on"}) \cup Again({"opposite"}) \cup
         Deletes({"right"}) \cup At("yank", {"after_cursor"}) \cup
         HistoryLines({<<"A">>}) \cup
         Keys({"undo", "redo", "replace_next", "replace_mode", "accept"})
    [] k = "vi_insert" ->
         Toward("kill_word", {"previous_word"}) \cup Keys({"command_mode", "quoted_insert"})
    [] k = "emacs" -> {}]

\* The default keymaps (line/keymap.rs), and with them the commands an
\* application may bind.
ViMotions == Moves({"left", "right", "next_word", "previous_word", "start", "end"})
Answered == HistoryLines({<<"A">>, None})
InCommandMode ==
  ViMotions \cup Deletes({"left", "right"}) \cup
  Operators({"delete", "change", "yank"}) \cup
  Inserts({"at_cursor", "after_cursor", "start", "end"}) \cup
  Substitutes({"characters", "line", "to_end"}) \cup
  Searches({"left", "right"}, {"on", "beside"}) \cup Again({"same", "opposite"}) \cup
  At("yank", {"at_cursor", "after_cursor"}) \cup Toward("kill_to", {"end"}) \cup
  Answered \cup
  {[kind |-> "history_word", word |-> <<" ", "A">>], [kind |-> "comment", text |-> <<"A">>]} \cup
  Keys({"undo", "replace_next", "replace_mode", "end_of_word", "column", "quoted_insert",
        "end_if_empty", "refresh", "accept"})
ElsewhereInCommandMode ==
  At("paste", {"after_cursor"}) \cup {[kind |-> "start_or_argument", digit |-> 0]} \cup
  Keys({"redo", "undo_required", "toggle_and_advance", "delete_following", "delete_previous"})
InInsertMode ==
  Deletes({"left"}) \cup Toward("kill_word", {"previous_word"}) \cup
  Keys({"command_mode", "quoted_insert", "end_if_empty", "accept"})
InEmacs ==
  Moves({"left", "right", "start", "end"}) \cup Deletes({"left"}) \cup
  Toward("kill_to", {"start", "end"}) \cup At("yank", {"at_cursor"}) \cup
  Words({"left"}, {"move", "kill"}) \cup Words({"right"}, {"move", "toggle"}) \cup
  Answered \cup
  Keys({"delete_or_end", "transpose", "undo", "accept", "refresh", "quoted_insert"})
ElsewhereInEmacs ==
  Words({"left", "right"}, {"delete", "duplicate"}) \cup
  {[kind |-> "multiply", factor |-> 2], [kind |-> "insert_invoking", unit |-> "a"],
   [kind |-> "start_digit", digit |-> 2],
   [kind |-> "digit_or_insert", unit |-> "a", digit |-> 2]} \cup
  Keys({"set_mark", "exchange_mark", "kill_region", "copy_region", "toggle_input_mode",
        "end_of_input", "redo", "transpose_before"})
Complete == [k \in Keymaps |->
  CASE k = "vi_command" -> InCommandMode \cup ElsewhereInCommandMode
    [] k = "vi_insert" -> InInsertMode
    [] k = "emacs" -> InEmacs \cup ElsewhereInEmacs]

Word == <<"a", " ", "a">>
InCommands == {Opened(Word, 0, "vi_command")}
InEveryMode == {Opened(Word, 1, k) : k \in Keymaps}

\* The keys that outgrow a recording, and what reads after that do.
Overlong == [k \in Keymaps |->
  CASE k = "vi_command" ->
         Operators({"change"}) \cup Substitutes({"characters"}) \cup Deletes({"right"}) \cup
         Keys({"undo", "accept"})
    [] k = "vi_insert" -> Keys({"command_mode"})
    [] k = "emacs" -> {}]

\* Long sessions of a few commands; the first commands of a session from the
\* whole default keymaps; and sessions whose reads run out of work.
VARIABLE commands

Every == INSTANCE CommandSequences WITH
           Bound <- Complete, Openings <- InEveryMode, Digits <- {0, 2}, MaxKeys <- 4
Limited == INSTANCE CommandSequences WITH Bound <- Overlong, WorkLimit <- 2

MCInit == \/ commands = "few" /\ Init
          \/ commands = "every" /\ Every!Init
          \/ commands = "overlong" /\ Limited!Init
MCNext == /\ UNCHANGED commands
          /\ \/ commands = "few" /\ Next
             \/ commands = "every" /\ Every!Next
             \/ commands = "overlong" /\ Limited!Next
MCSpec == /\ MCInit /\ [][MCNext]_<<vars, commands>>
          /\ []<>~Replaying \/ []<><<ReplayStep>>_vars
=============================================================================
