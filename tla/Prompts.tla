------------------------------ MODULE Prompts ------------------------------
(***************************************************************************)
(* The prompt an application of the readline layer sets, saves, replaces   *)
(* by a message and restores, and how the adapter reads it: what stands    *)
(* between START and END takes no room on the screen                       *)
(* (crates/nshedit-abi/src/readline.rs and histedit/driver.rs).            *)
(*                                                                         *)
(* A prompt is a sequence of bytes: START and END, "c3" and "x8" for the   *)
(* two bytes of a character, and any other for a character of its own.     *)
(***************************************************************************)
EXTENDS Naturals, Sequences, SequencesExt

CONSTANT MaxMessage    \* the longest message, MAX_MESSAGE - 1

Null == <<"null">>
NoPrompt == [prompt |-> Null, saved |-> Null]

\* Mutant: one byte too few is taken out of the text.
CollapseShort(text) ==
  LET step(t, k) ==
        LET i == SelectInSeq(t, LAMBDA b : b = "END")
        IN CASE i = 0 -> t
             [] i # 0 /\ i < Len(t) /\ t[i + 1] = "START" -> RemoveAt(t, i)
             [] OTHER -> [t EXCEPT ![i] = "START"]
  IN FoldLeft(step, text, [k \in DOMAIN text |-> k])

\* The first END and a START right behind it go, or it becomes a START; then the next.
Collapse(text) ==
  LET step(t, k) ==
        LET i == SelectInSeq(t, LAMBDA b : b = "END")
        IN CASE i = 0 -> t
             [] i # 0 /\ i < Len(t) /\ t[i + 1] = "START" -> SubSeq(t, 1, i - 1) \o SubSeq(t, i + 2, Len(t))
             [] OTHER -> [t EXCEPT ![i] = "START"]
  IN FoldLeft(step, text, [k \in DOMAIN text |-> k])

\* A prompt that is there already is left alone.
SetPrompt(p, text) == IF p.prompt = text THEN p ELSE [p EXCEPT !.prompt = Collapse(text)]
Message(p, text) == SetPrompt(p, SubSeq(text, 1, IF Len(text) < MaxMessage THEN Len(text) ELSE MaxMessage))
SavePrompt(p) == [p EXCEPT !.saved = p.prompt]
RestorePrompt(p) == IF p.saved = Null THEN p ELSE [prompt |-> p.saved, saved |-> Null]

\* text_from_bytes: characters, and the bytes that are in none, each by itself.
TextFromBytes(bytes) ==
  LET Led(i) == i > 1 /\ bytes[i] = "x8" /\ bytes[i - 1] = "c3"
      unit(i) == IF i < Len(bytes) /\ Led(i + 1) THEN <<bytes[i], bytes[i + 1]>> ELSE <<bytes[i]>>
      starts == SelectSeq([i \in DOMAIN bytes |-> i], LAMBDA i : ~Led(i))
  IN [k \in DOMAIN starts |-> unit(starts[k])]

\* prompt_from_units: the parts between the marks are in turn text and literals.
PromptFromUnits(units, marked) ==
  IF ~marked THEN <<[literal |-> FALSE, units |-> units]>>
  ELSE LET mark == SelectSeq([i \in DOMAIN units |-> i], LAMBDA i : units[i] = <<"START">>)
           edges == <<0>> \o mark \o <<Len(units) + 1>>
       IN [k \in 1..(Len(edges) - 1) |->
            [literal |-> k % 2 = 0, units |-> SubSeq(units, edges[k] + 1, edges[k + 1] - 1)]]

\* host_prompt by way of _get_prompt; no prompt is an empty one.
HostPrompt(p) == PromptFromUnits(TextFromBytes(IF p.prompt = Null THEN <<>> ELSE p.prompt), TRUE)

Execute(p, command) ==
  CASE command.does = "set" -> SetPrompt(p, command.text)
    [] command.does = "message" -> Message(p, command.text)
    [] command.does = "save" -> SavePrompt(p)
    [] command.does = "restore" -> RestorePrompt(p)

-----------------------------------------------------------------------------
\* What a text means: each byte that is no mark, and whether it stands between marks.
Meaning(text) ==
  LET within(i) ==
        LET last == SelectLastInSubSeq(text, 1, i, LAMBDA b : b \in {"START", "END"})
        IN last # 0 /\ text[last] = "START"
      bytes == SelectSeq([i \in DOMAIN text |-> i], LAMBDA i : text[i] \notin {"START", "END"})
  IN [k \in DOMAIN bytes |-> [byte |-> text[bytes[k]], literal |-> within(bytes[k])]]

\* The text of the prompt in force, as the application gave it, and what is shown.
Meant(commands) ==
  LET plain(s, command) ==
        CASE command.does = "set" -> [s EXCEPT !.text = command.text]
          [] command.does = "message" ->
               [s EXCEPT !.text = SubSeq(command.text, 1, IF Len(command.text) < MaxMessage
                                                           THEN Len(command.text) ELSE MaxMessage)]
          [] command.does = "save" -> [s EXCEPT !.saved = s.text]
          [] command.does = "restore" -> IF s.saved = Null THEN s ELSE [text |-> s.saved, saved |-> Null]
      text == FoldLeft(plain, [text |-> Null, saved |-> Null], commands).text
  IN IF text = Null THEN <<>> ELSE text

Shown(commands) ==
  LET shown == HostPrompt(FoldLeft(Execute, NoPrompt, commands))
      bytes(part) == LET flat == FlattenSeq(part.units)
                     IN [k \in DOMAIN flat |-> [byte |-> flat[k], literal |-> part.literal]]
  IN FlattenSeq([k \in DOMAIN shown |-> bytes(shown[k])])

EndsInLiteral(text) ==
  LET start == SelectLastInSeq(text, LAMBDA b : b = "START")
  IN start # 0 /\ \A i \in (start + 1)..(Len(text) - 1) : text[i] # "END"

\* What is shown is what the prompt in force means, byte for byte: what was marked as
\* taking no room and nothing else is sent as it is, also when marked stretches abut,
\* when a message came and went, and when a save was repeated or a restore had none.
\* Of a literal at the end nothing is said here: docs/errata.md (ERR-terminal-58) has it
\* dropped, and the code hands it on.
ShowsItsText(commands) ==
  LET text == Meant(commands)
  IN ~EndsInLiteral(text) => Shown(commands) = Meaning(text)
=============================================================================
