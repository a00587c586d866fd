-------------------------- MODULE ReadlineSession --------------------------
(***************************************************************************)
(* The process-global session of the readline layer (crates/nshedit-abi/   *)
(* src/readline.rs and readline/runtime.rs): readline(), the callback      *)
(* interface, and what the application may call from its hooks, its bound  *)
(* commands and its line handler while one of them is running.  el_gets is *)
(* here by what it does to the line and to the terminal, one key at a      *)
(* time; every mode change succeeds, and the cursor stays at the end of    *)
(* what was typed.                                                         *)
(***************************************************************************)
EXTENDS Naturals, SequencesExt

CONSTANTS Units,                       \* what is typed
          MaxKeys, MaxLine, MaxPushed    \* bounds

\* What is typed into a line is told from the keys that do something else.
ASSUME UnitsAssumption == {"nl", "eot", "erase", "bound"} \cap Units = {}

Null == <<"null">>
Newline == "nl"
EndOfText == "eot"

VARIABLES
  frames,      \* what runs of the layer, innermost last
  text,        \* the editor's line up to its cursor
  trailing,    \* whether the newline of an accepted line is left behind the cursor
  buffering, mode, reader,     \* the editor's session
  pushed,      \* el_push: input read before the keyboard
  done, aborting, handler, hooked, usedHook,
               \* rl_done, abort_pending, rl_linefunc, rl_event_hook, used_event_hook
  keys,        \* how many keys were typed
  entry,       \* history variable: what was entered of text
  asked,       \* history variable: somebody asked for the end of this input
  prepared,    \* history variable: the terminal was raised outside of any read
  handed       \* history variable: the line the application was given last, until
               \* it calls again

editor == <<text, trailing, buffering, mode, reader, pushed>>
flags == <<done, aborting, handler, hooked, usedHook>>
ghosts == <<keys, entry, asked, prepared, handed>>

----------------------------------------------------------------------------
Frame(in, phase) == [in |-> in, phase |-> phase]
Top == Last(frames)
InPhase(phase) == frames # <<>> /\ Top.phase = phase
Phase(phase) == frames' = Append(Front(frames), [Top EXCEPT !.phase = phase])
Calls(in) == frames' = Append(frames, Frame(in, IF in = "readline" THEN "startup" ELSE "editing"))
Leave == frames' = Front(frames)

\* Where the application's own code runs.
AtRest == frames = <<>>
InHook == InPhase("startup") \/ InPhase("pre_input")
InCommand == InPhase("command")
InEventHook == InPhase("editing") /\ reader = "event" /\ hooked
InHandler == InPhase("handler")
ApplicationRuns == AtRest \/ InHook \/ InCommand \/ InHandler

Line(t, n) == IF n THEN Append(t, Newline) ELSE t
EndsInNewline == trailing \/ (text # <<>> /\ Last(text) = Newline)

Session == [b |-> buffering, l |-> text, n |-> trailing, e |-> entry, m |-> mode]
Becomes(s) ==
  buffering' = s.b /\ text' = s.l /\ trailing' = s.n /\ entry' = s.e /\ mode' = s.m
Emptied(s) == [b |-> s.b, l |-> <<>>, n |-> FALSE, e |-> <<>>, m |-> s.m]

\* set_unbuffered_reading: what becomes of a session.
\* Mutant of Unbuffered: a session that already reads by the key starts again.
UnbufferedAlways(s) == [s EXCEPT !.b = "command", !.m = "editing", !.l = <<>>, !.n = FALSE]
Unbuffered(s) ==
  IF s.b = "command" THEN s ELSE [Emptied(s) EXCEPT !.b = "command", !.m = "editing"]

Buffered(s) ==
  [b |-> "line", l |-> s.l, n |-> s.n, e |-> s.e, m |-> IF s.b = "command" THEN "cooked" ELSE s.m]

----------------------------------------------------------------------------
\* readline()

Nothing == [by |-> "none", text |-> <<>>, entered |-> <<>>, byKey |-> FALSE, asked |-> FALSE]

CallReadline ==
  /\ AtRest \/ InHandler
  /\ Calls("readline") /\ handed' = Nothing
  /\ UNCHANGED <<editor, flags, keys, entry, asked, prepared>>

\* The top of the loop, where _rl_abort_internal leads back to.
TryAgain == aborting' = FALSE /\ Phase("pre_input")

StartupReturns ==
  /\ InPhase("startup")
  /\ mode' = "editing" /\ done' = FALSE
  /\ TryAgain
  /\ asked' = FALSE
  /\ UNCHANGED <<text, trailing, buffering, reader, pushed, handler, hooked, usedHook, keys, entry, prepared, handed>>

\* el_gets begins: in line buffering it starts a line, in command buffering it
\* goes on with the one there is.
GetsBegins ==
  Becomes([(IF buffering = "line" THEN Emptied(Session) ELSE Session) EXCEPT !.m = "editing"])

\* The reader of the event hook comes and goes with it.
PreInputReturns ==
  /\ InPhase("pre_input")
  /\ reader' = (IF hooked THEN "event" ELSE IF usedHook THEN "terminal" ELSE reader)
  /\ usedHook' = hooked
  /\ GetsBegins
  /\ Phase("editing")
  /\ UNCHANGED <<pushed, done, aborting, handler, hooked, keys, asked, prepared, handed>>

\* The application is given a line, while the session is s.
Hand(line, s) ==
  handed' = [by |-> Top.in, text |-> line, entered |-> Line(s.e, s.n),
             byKey |-> buffering = "command", asked |-> asked]

\* readline() behind its el_gets: a pending abort drops what it got and
\* starts over; one trailing newline is cut off; tty_end lowers the terminal.
\* Mutant of Cut: the newline stays.
CutNothing(ret) == ret
Cut(ret) == IF ret # Null /\ Last(ret) = Newline THEN Front(ret) ELSE ret

ReadlineGot(ret, s) ==
  /\ UNCHANGED <<reader, pushed, done, handler, hooked, usedHook, keys>>
  /\ IF aborting
     THEN /\ TryAgain
          /\ Becomes(s) /\ prepared' = (prepared /\ s.m = "editing")
          /\ UNCHANGED <<asked, handed>>
     ELSE /\ Hand(Cut(ret), s)
          /\ Leave
          /\ Becomes([s EXCEPT !.m = "cooked"]) /\ prepared' = FALSE
          /\ asked' = FALSE /\ UNCHANGED aborting

----------------------------------------------------------------------------
\* The callback interface

\* The application answers a readable terminal while a handler is installed.
CallReadChar ==
  /\ AtRest /\ handler
  /\ GetsBegins /\ asked' = FALSE
  /\ Calls("read_char") /\ handed' = Nothing
  /\ UNCHANGED <<reader, pushed, flags, keys, prepared>>

Finished(ret) ==
  CASE ret = Null -> "no"
    [] Last(ret) = Newline -> "line"
    [] ret = <<EndOfText>> -> "end"
    [] OTHER -> "no"

\* rl_callback_read_char behind its el_gets.  A handler removed by a command
\* of this very read leaves the terminal raised.
CallbackGot(ret, s) ==
  LET again == Unbuffered(s)
      finished == Finished(ret)
      back == Buffered(again)
  IN /\ asked' = FALSE /\ UNCHANGED <<reader, pushed, flags, keys>>
     /\ IF finished # "no" /\ handler
        THEN /\ Becomes(back) /\ prepared' = (prepared /\ back.m = "editing")
             /\ Hand(IF finished = "line" THEN Front(ret) ELSE Null, s)
             /\ Phase("handler")
        ELSE /\ Becomes(again) /\ prepared' = (again.m = "editing" /\ (prepared \/ ~handler))
             /\ Leave
             /\ UNCHANGED handed

HandlerReturns == InHandler /\ Leave /\ UNCHANGED <<editor, flags, ghosts>>

\* The application may install and remove a handler wherever it runs.
Installs(installed, s) ==
  /\ ApplicationRuns \/ InEventHook
  /\ handler' = installed
  /\ Becomes(s) /\ prepared' = (prepared /\ s.m = "editing")
  /\ UNCHANGED <<frames, reader, pushed, done, aborting, hooked, usedHook, keys, asked, handed>>

InstallHandler == Installs(TRUE, Unbuffered(Session))

\* Mutant of RemoveHandler: only the handler is forgotten.
RemoveOnlyHandler == Installs(FALSE, Session)
RemoveHandler == Installs(FALSE, Buffered(Session))

----------------------------------------------------------------------------
\* el_gets, a key at a time.  A phase "got ..." is its result.

ResultPhase == [line |-> "got_line", end |-> "got_end", command |-> "got_command", failure |-> "got_failure"]
Result(result) == Phase(ResultPhase[result])
\* In command buffering el_gets returns behind every key.
Goes == IF buffering = "command" THEN Result("command") ELSE UNCHANGED frames

\* What was pushed is read before the keyboard; no other input is left out of it.
Erase == /\ text # <<>> /\ text' = Front(text)
         /\ entry' = IF Last(text) = EndOfText THEN entry ELSE Front(entry)
         /\ UNCHANGED trailing
InsertKey(k) == text' = Append(text, k) /\ entry' = Append(entry, k) /\ UNCHANGED trailing
Room == Len(text) + Len(pushed) < MaxLine
Take(k) ==
  IF pushed # <<>> THEN k = Head(pushed) /\ pushed' = Tail(pushed) /\ UNCHANGED keys
  ELSE /\ reader = "event" => hooked
       /\ keys < MaxKeys /\ keys' = keys + 1 /\ UNCHANGED pushed

Key ==
  /\ InPhase("editing")
  /\ \E k \in Units \cup {Newline, "erase", EndOfText, "bound"} :
       /\ Take(k)
       /\ CASE k \in Units -> (pushed # <<>> \/ Room) /\ InsertKey(k) /\ Goes /\ UNCHANGED asked
            [] k = "erase" /\ text # <<>> -> Erase /\ Goes /\ UNCHANGED asked
            [] k = Newline -> Result("line") /\ UNCHANGED <<text, trailing, entry, asked>>
            [] k = EndOfText /\ text = <<>> /\ ~trailing ->
                 Result("end") /\ asked' = TRUE /\ UNCHANGED <<text, trailing, entry>>
            [] k = EndOfText /\ trailing ->
                 trailing' = FALSE /\ Goes /\ UNCHANGED <<text, entry, asked>>
            [] k = "bound" -> Phase("command") /\ UNCHANGED <<text, trailing, entry, asked>>
            [] OTHER -> Goes /\ UNCHANGED <<text, trailing, entry, asked>>
  /\ UNCHANGED <<buffering, mode, reader, flags, prepared, handed>>

\* rl_bind_wrapper behind the application's command.
CommandReturns ==
  /\ InCommand
  /\ IF done THEN Result("end") ELSE IF buffering = "command" THEN Result("command") ELSE Phase("editing")
  /\ UNCHANGED <<editor, flags, ghosts>>

\* _rl_event_read_char finds no hook left: it takes itself away and reads nothing.
HookIsGone ==
  /\ InPhase("editing") /\ pushed = <<>> /\ reader = "event" /\ ~hooked
  /\ buffering = "command" => Room
  /\ reader' = "terminal" /\ asked' = TRUE
  /\ Result("end")
  /\ UNCHANGED <<text, trailing, buffering, mode, pushed, flags, keys, entry, prepared, handed>>

ReadFails ==
  /\ InPhase("editing") /\ pushed = <<>>
  /\ Result("failure") /\ asked' = TRUE
  /\ UNCHANGED <<editor, flags, keys, entry, prepared, handed>>

\* What el_gets leaves of the session: an accepted line ends in a newline, which
\* finish_accepted_line leaves behind the cursor; the end of the input goes into
\* a line that is read by the key; complete lowers the terminal unless single
\* keys are read.
Left(result) ==
  LET byKey == buffering = "command"
      s == [Session EXCEPT !.m = IF byKey /\ result # "failure" THEN mode ELSE "cooked"]
  IN CASE result = "line" -> [s EXCEPT !.n = trailing \/ ~EndsInNewline]
       [] result = "end" /\ byKey ->
            [b |-> s.b, l |-> Append(Line(text, trailing), EndOfText), n |-> FALSE,
             e |-> Line(entry, trailing), m |-> s.m]
       [] OTHER -> s

Reply(result, s) ==
  IF result = "failure" \/ (result = "end" /\ buffering = "line") \/ Line(s.l, s.n) = <<>>
  THEN Null ELSE Line(s.l, s.n)

Returns ==
  \E result \in {"line", "end", "command", "failure"} :
    LET s == Left(result) IN
    /\ InPhase(ResultPhase[result])
    /\ IF Top.in = "readline" THEN ReadlineGot(Reply(result, s), s) ELSE CallbackGot(Reply(result, s), s)

----------------------------------------------------------------------------
\* What the application may call

SetDone ==
  /\ InCommand \/ InEventHook \/ InHook
  /\ done' = TRUE /\ asked' = TRUE
  /\ UNCHANGED <<frames, editor, aborting, handler, hooked, usedHook, keys, entry, prepared, handed>>

Abort ==
  /\ InCommand \/ InEventHook \/ InHook
  /\ aborting' = TRUE /\ done' = TRUE
  /\ UNCHANGED <<frames, editor, handler, hooked, usedHook, ghosts>>

\* rl_insert_text and rl_stuff_char, rl_replace_line, rl_delete_text.
EditLine ==
  /\ InCommand \/ InHook
  /\ \/ \E k \in Units : Room /\ InsertKey(k)
     \/ \E k \in Units : pushed = <<>> /\ text' = <<k>> /\ entry' = <<k>> /\ trailing' = FALSE
     \/ Erase
  /\ UNCHANGED <<frames, buffering, mode, reader, pushed, flags, keys, asked, prepared, handed>>

\* rl_insert and rl_newline are el_push.
PushInput ==
  /\ ApplicationRuns /\ Room /\ Len(pushed) < MaxPushed
  /\ \E k \in Units \cup {Newline} : pushed' = Append(pushed, k)
  /\ UNCHANGED <<frames, text, trailing, buffering, mode, reader, flags, ghosts>>

PrepTerminal ==
  /\ ApplicationRuns
  /\ mode' = "editing" /\ prepared' = TRUE
  /\ UNCHANGED <<frames, text, trailing, buffering, reader, pushed, flags, keys, entry, asked, handed>>

DeprepTerminal ==
  /\ ApplicationRuns
  /\ mode' = "cooked" /\ prepared' = FALSE
  /\ UNCHANGED <<frames, text, trailing, buffering, reader, pushed, flags, keys, entry, asked, handed>>

SetEventHook ==
  /\ ApplicationRuns \/ InEventHook
  /\ hooked' = ~hooked
  /\ UNCHANGED <<frames, editor, done, aborting, handler, usedHook, ghosts>>

\* rl_initialize: a new session; the application's flags survive.
Initialize ==
  /\ AtRest
  /\ Becomes([Emptied(Session) EXCEPT !.b = "line", !.m = "cooked"])
  /\ reader' = "terminal" /\ pushed' = <<>> /\ prepared' = FALSE
  /\ UNCHANGED <<frames, flags, keys, asked, handed>>

----------------------------------------------------------------------------
SessionInit ==
  /\ frames = <<>>
  /\ text = <<>> /\ trailing = FALSE /\ buffering = "line" /\ mode = "cooked" /\ reader = "terminal" /\ pushed = <<>>
  /\ done = FALSE /\ aborting = FALSE /\ handler = FALSE /\ hooked = FALSE /\ usedHook = FALSE
  /\ keys = 0 /\ entry = <<>> /\ asked = FALSE /\ prepared = FALSE
  /\ handed = Nothing

SessionNext ==
  \/ CallReadline \/ StartupReturns \/ PreInputReturns
  \/ CallReadChar \/ HandlerReturns \/ InstallHandler \/ RemoveHandler
  \/ Key \/ CommandReturns \/ HookIsGone \/ ReadFails \/ Returns
  \/ SetDone \/ Abort \/ EditLine \/ PushInput
  \/ PrepTerminal \/ DeprepTerminal \/ SetEventHook \/ Initialize

SessionSpec == SessionInit /\ [][SessionNext]_<<frames, editor, flags, ghosts>>

----------------------------------------------------------------------------
\* e is s without its ^Ds.
WithoutEnd(e, s) ==
  \E from \in [DOMAIN e -> {p \in DOMAIN s : s[p] # EndOfText}] :
    /\ \A i, j \in DOMAIN e : i < j => from[i] < from[j]
    /\ \A p \in DOMAIN s : s[p] # EndOfText => \E i \in DOMAIN e : from[i] = p
    /\ \A i \in DOMAIN e : e[i] = s[from[i]]

\* A line the application is given, by readline() in either buffering or by the
\* callback interface, is what was entered since that line was begun, but for
\* the newline that ended it and for the ^Ds of ended inputs: wherever commands,
\* single keys, aborts and handlers installed and removed cut the entering into
\* calls.
LinesAreHandedWhole ==
  LET line == handed.text IN
  line # Null =>
    \/ WithoutEnd(handed.entered, Append(line, Newline))
    \/ WithoutEnd(handed.entered, line) /\ (line # <<>> => Last(line) # Newline)

\* Between its reads, and in its line handler, the application finds the
\* terminal as it was, unless a handler waits for single keys or the
\* terminal was raised outside of a read (rl_prep_terminal, or behind the
\* handler's removal by a command of the read).
TerminalIsGivenBack ==
  (AtRest \/ InHandler) /\ mode = "editing" => (handler /\ buffering = "command") \/ prepared

\* readline() reports the end of input only when it was asked for: the end, a
\* failure, or rl_done set by the application.  An abort is none of these, for
\* it "sets rl_done, which readline()'s loop consumes".  A key that leaves an
\* empty line, where single keys are read, is no end of the input either.
EndIsAsked ==
  handed.by = "readline" /\ handed.text = Null /\ ~handed.byKey => handed.asked
============================================================================
