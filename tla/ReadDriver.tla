----------------------------- MODULE ReadDriver -----------------------------
(***************************************************************************)
(* crates/nshedit/src/editor/driver.rs and driver/{signal,command_effect}: *)
(* the resumable read driver.  The driver never blocks: every call runs    *)
(* until it must ask the host for something, hands out one continuation    *)
(* (`step`), and goes on when the host resumes it.                         *)
(*                                                                         *)
(* Each resume_* function is an action.  ReadDriver::advance, which the    *)
(* code calls in tail position and recursively, is an action of its own    *)
(* taken while `running` holds; nothing of the host's is enabled then.     *)
(*                                                                         *)
(* The text of the line is left out: what a bound action does to it only   *)
(* matters here as far as it ends the read.  Repeat counts, Vi operators   *)
(* and change replay are left out too.                                     *)
(*                                                                         *)
(* Bounds: MaxUnits units come from the host in all, in chunks of at most  *)
(* MaxChunk; MaxSignals signals arrive; MaxFailures terminal-mode changes  *)
(* fail; the history keeps the first MaxLog commands recognised.           *)
(***************************************************************************)
EXTENDS Naturals, Sequences, FiniteSets

CONSTANTS
  Keys,        \* input units
  Printable,   \* the ones that insert themselves when nothing is bound
  Meta,        \* what each of them is after meta-next
  Bindings,    \* the keymap: from key sequences to [does, text]
  Aliases,     \* the host's alias texts, by selector
  Configs,     \* the policies the host may configure
  Outcomes,    \* which of the host's answers are considered
  MaxChunk,    \* the longest chunk of units one read delivers
  WorkLimit, MaxUnits, MaxSignals, MaxFailures, MaxLog

Commands == {"action", "accept", "end", "quoted", "meta", "lead in", "alias",
             "effect", "user", "edit", "macro"}
Signals == {"resize", "continue", "suspend", "interrupt"}
HostFailures == {"unavailable", "cancelled", "ended", "interrupted", "failed"}

ASSUME DriverAssumption ==
  /\ Printable \subseteq Keys
  /\ Meta \in [Keys -> Keys]
  /\ \A s \in DOMAIN Bindings : s \in Seq(Keys) /\ s # <<>>
  /\ \A s \in DOMAIN Bindings :
       Bindings[s].does \in Commands /\ Bindings[s].text \in Seq(Keys)
  /\ \A u \in DOMAIN Aliases : u \in Keys /\ Aliases[u] \in Seq(Keys)
  /\ Configs \subseteq [buffering : {"line", "command", "character"},
                        ignore : BOOLEAN]
  /\ Outcomes \subseteq {"chunk", "unit", "timeout", "end"} \cup HostFailures
  /\ {MaxChunk, WorkLimit, MaxUnits, MaxSignals, MaxFailures, MaxLog} \subseteq Nat

VARIABLES
  config,      \* the session policy
  configured,  \* whether a display has been configured
  mode,        \* the terminal mode the editor has committed
  step,        \* the continuation the host holds
  running,     \* the driver is inside advance
  input,       \* what is still to be parsed
  parse,       \* where the parser stands; clear_transient resets all of it
  result,      \* how the last read ended, and under which buffering
  units, signals, failures  \* the bounded counters

counters == <<units, signals, failures>>
vars == <<config, configured, mode, step, running, input, parse, result, counters>>

NoStep == [kind |-> "none", of |-> "none"]
NoKeys == [sequence |-> <<>>, timed |-> FALSE, bound |-> 0]

\* `heard` is history: the units the host supplied since the parser was last
\* thrown back, with a Break where a timeout or a signal cut a command short.
Break == "break"
NoInput == [replay |-> <<>>, ready |-> <<>>, eof |-> FALSE, heard |-> <<>>]

\* `log` and `asked` are history: the commands recognised since then, and the
\* kind of read a signal interrupted that has not been issued again.
Fresh == [keys |-> NoKeys, waiting |-> "none", meta |-> FALSE, expanded |-> 0,
          completion |-> "none", log |-> <<>>, asked |-> "none"]

Init == /\ config \in Configs
        /\ configured = FALSE
        /\ mode = "editing"            \* as Editor::new leaves it
        /\ step = NoStep
        /\ running = FALSE
        /\ input = NoInput
        /\ parse = Fresh
        /\ result = [kind |-> "none", buffering |-> "none"]
        /\ units = 0 /\ signals = 0 /\ failures = 0

AtRest == step = NoStep /\ ~running

Held(kind) == step.kind = kind
Token(does, keys) == [does |-> does, keys |-> keys]
Logged(p, does, keys) ==
  IF Len(p.log) < MaxLog THEN [p EXCEPT !.log = Append(@, Token(does, keys))] ELSE p

-----------------------------------------------------------------------------
(* Where a call can end.  p and in are the parser and the input it leaves.  *)

\* Editor::set_terminal_mode: a no-op in the same mode, else it may fail and
\* then leaves the committed mode as it was.
Set(m) == mode' = m /\ UNCHANGED failures
CannotSet(m) == /\ mode # m /\ failures < MaxFailures
                /\ failures' = failures + 1
                /\ UNCHANGED mode
SameMode == UNCHANGED <<mode, failures>>

Go(p, in) == /\ parse' = p /\ input' = in
             /\ running' = TRUE /\ step' = NoStep
             /\ UNCHANGED result

Ask(kind, of, p, in) == /\ parse' = p /\ input' = in
                        /\ running' = FALSE /\ step' = [kind |-> kind, of |-> of]
                        /\ UNCHANGED result

Ended(kind) == result' = [kind |-> kind, buffering |-> config.buffering]

\* The parser's history starts again from the input it has kept.
Unheard(in) == [in EXCEPT !.heard = in.replay \o in.ready]

\* complete: Line buffering puts the terminal back and drops the input; the
\* other two keep both.
Complete(kind, in) ==
  /\ running' = FALSE /\ step' = NoStep
  /\ parse' = IF kind = "command" /\ config.buffering # "line"
              THEN [Fresh EXCEPT !.log = parse.log] ELSE Fresh
  /\ IF config.buffering = "line"
     THEN /\ input' = NoInput
          /\ \/ Set("cooked") /\ Ended(kind)
             \/ CannotSet("cooked") /\ Ended("error")
     ELSE /\ input' = IF kind = "command" THEN in ELSE Unheard(in)
          /\ SameMode
          /\ Ended(kind)

\* Mutant of Abandon: a failed read leaves the terminal as it was.
AbandonRaw(n) == /\ running' = FALSE /\ step' = NoStep
                 /\ parse' = Fresh /\ input' = NoInput
                 /\ Ended("error")
                 /\ failures' = failures + n
                 /\ UNCHANGED mode

\* fail, after n mode changes that failed: drop everything and try to put the
\* terminal back.
Abandon(n) == /\ running' = FALSE /\ step' = NoStep
              /\ parse' = Fresh /\ input' = NoInput
              /\ Ended("error")
              /\ \/ mode' = "cooked" /\ failures' = failures + n
                 \/ /\ mode # "cooked" /\ failures + n < MaxFailures
                    /\ failures' = failures + n + 1
                    /\ UNCHANGED mode
Fail == Abandon(0)

\* A mode change on the way somewhere; a failed one fails the read.
SetOrFail(m, Then) == \/ Set(m) /\ Then
                      \/ mode # m /\ failures < MaxFailures /\ Abandon(1)

\* complete_command_after_display.
Finishing(p) == IF config.buffering = "command" /\ p.completion = "none"
                THEN [p EXCEPT !.completion = "command"] ELSE p

\* schedule_command_display; a refresh asks for both prompts first.
CommandDisplay(p, in) == Ask("prompt", "left", Finishing(p), in)
BeepDisplay(p, in) == Ask("display", "beep", Finishing(p), in)
FinishLine(kind, p, in) ==
  Ask("display", "finish", [p EXCEPT !.completion = kind], in)

-----------------------------------------------------------------------------
(* The keymap, and what a dispatched command does.                          *)

Bound(s) == s \in DOMAIN Bindings
Extended(s) == \E t \in DOMAIN Bindings :
                 Len(t) > Len(s) /\ SubSeq(t, 1, Len(s)) = s

Queue(in) == in.replay \o in.ready

\* The queue without its head: replay first, then the decoder.
Rest(in) == IF in.replay # <<>> THEN [in EXCEPT !.replay = Tail(@)]
                                ELSE [in EXCEPT !.ready = Tail(@)]
\* Mutant of PushFront: units pushed back queue up behind the replay.
PushBack(in, s) == [in EXCEPT !.replay = @ \o s]

\* What a macro, an alias or a fallback pushes back goes before all the rest.
PushFront(in, s) == [in EXCEPT !.replay = s \o @]

\* Mutant of EndInput: the end is displayed and nothing is completed.
EndInputAgain(p, in) ==
  SameMode /\ Ask("display", "finish", [p EXCEPT !.keys = NoKeys, !.waiting = "none"], in)

\* handle_eof's last part, and cancel_pending_sequence.
EndInput(p, in) ==
  LET ended == [p EXCEPT !.keys = NoKeys, !.waiting = "none", !.meta = FALSE]
  IN IF p.waiting = "quoted" THEN SetOrFail("editing", FinishLine("end", ended, in))
                             ELSE SameMode /\ FinishLine("end", ended, in)

WithinLimit(text, p) == p.expanded + Len(text) <= WorkLimit

\* Mutant of Charged: only the latest expansion counts against the limit.
ChargedAfresh(text, p) == [p EXCEPT !.expanded = Len(text)]

Charged(text, p) == [p EXCEPT !.expanded = @ + Len(text)]

\* expand_macro with one repetition.
Expand(text, p, Then) == \/ WithinLimit(text, p) /\ SameMode /\ Then
                         \/ ~WithinLimit(text, p) /\ Fail

\* await_alias_selector.
SelectAlias(u, p, in) ==
  SameMode /\ Ask("alias", u, Logged(p, "selector", <<u>>), in)

AwaitSelector(p, in) ==
  \/ Queue(in) # <<>> /\ SelectAlias(Head(Queue(in)), p, Rest(in))
  \/ Queue(in) = <<>> /\ in.eof /\ EndInput(p, in)
  \/ Queue(in) = <<>> /\ ~in.eof
     /\ SameMode /\ Ask("read", "alias selector", p, in)

\* dispatch_effect_command and dispatch_user_command: an effect waits for the
\* host, unless its count or the line gives it nothing to ask for.
DispatchEffect(command, p, in) ==
  \/ command = "effect" /\ CommandDisplay(p, in)
  \/ command = "effect" /\ Ask("history", "none", p, in)
  \/ command = "effect" /\ Ask("query", "none", p, in)
  \/ command = "user" /\ Ask("user", "none", p, in)

\* dispatch_binding on a recognised key sequence.
Dispatch(s, parser, in) ==
  LET p == Logged([parser EXCEPT !.keys = NoKeys], "bound", s)
      command == Bindings[s].does
  IN \/ /\ command = "macro"
        /\ LET text == Bindings[s].text
           IN Expand(text, p, Go(Charged(text, p), PushFront(in, text)))
     \/ /\ command \in {"action", "end"}
        /\ SameMode /\ CommandDisplay(p, in)
     \/ /\ command = "end"                  \* the line was empty
        /\ SameMode /\ FinishLine("end", p, in)
     \/ /\ command = "accept"
        /\ SameMode /\ Ask("record", "none", p, in)
     \/ /\ command = "quoted"
        /\ SetOrFail("quoted", Go([p EXCEPT !.waiting = "quoted"], in))
     \/ /\ command = "meta"
        /\ SameMode /\ Go([p EXCEPT !.meta = TRUE], in)
     \/ /\ command = "lead in"
        /\ SameMode /\ Go([p EXCEPT !.waiting = "lead in"], in)
     \/ /\ command = "alias"
        /\ AwaitSelector(p, in)
     \/ /\ command \in {"effect", "user"}
        /\ SameMode /\ DispatchEffect(command, p, in)
     \/ /\ command = "edit"
        /\ SetOrFail("cooked", Ask("edit", "none", p, in))

\* Mutant of Prefix: the prefix has no deadline.
PrefixUnarmed(p, s) == [p EXCEPT !.keys.sequence = s]

\* The pushed key sequence, with its deadline armed.
Prefix(p, s) == [p EXCEPT !.keys.sequence = s, !.keys.timed = TRUE]

\* process_unit after the pending unit and meta have been taken care of.
Lookup(u, parser, in) ==
  LET keys == parser.keys
      s == Append(keys.sequence, u)
      p == Prefix(parser, s)
      over == [parser EXCEPT !.keys = NoKeys]
  IN \/ /\ Bound(s) /\ ~Extended(s)
        /\ Dispatch(s, parser, in)
     \/ /\ Bound(s) /\ Extended(s)
        /\ SameMode /\ Go([p EXCEPT !.keys.bound = Len(s)], in)
     \/ /\ ~Bound(s) /\ Extended(s)
        /\ SameMode /\ Go(p, in)
     \/ /\ ~Bound(s) /\ ~Extended(s) /\ keys.bound # 0
        /\ Dispatch(SubSeq(s, 1, keys.bound), parser,
                    PushFront(in, SubSeq(s, keys.bound + 1, Len(s))))
     \/ /\ ~Bound(s) /\ ~Extended(s) /\ keys.bound = 0
        /\ SameMode
        /\ IF Len(s) = 1 /\ u \in Printable
           THEN CommandDisplay(Logged(over, "insert", s), in)
           ELSE BeepDisplay(Logged(over, "discard", s), in)

\* process_unit.
Process(u, p, in) ==
  \/ /\ config.buffering = "character"
     /\ Complete("character", in)
  \/ /\ config.buffering # "character"
     /\ p.waiting = "quoted"
     /\ SetOrFail("editing",
          CommandDisplay(Logged([p EXCEPT !.waiting = "none"], "literal", <<u>>), in))
  \/ /\ config.buffering # "character"
     /\ p.waiting # "quoted"
     /\ Lookup(IF p.meta THEN Meta[u] ELSE u,
               [p EXCEPT !.waiting = "none", !.meta = FALSE], in)

\* handle_eof; the ambiguous binding goes first.
HandleEof(p, in) ==
  IF p.keys.bound # 0
  THEN Dispatch(SubSeq(p.keys.sequence, 1, p.keys.bound), p, in)
  ELSE EndInput(p, in)

\* advance.
Advance ==
  /\ running
  /\ \/ /\ parse.completion # "none"
        /\ Complete(parse.completion, input)
     \/ /\ parse.completion = "none" /\ Queue(input) # <<>>
        /\ Process(Head(Queue(input)), parse, Rest(input))
     \/ /\ parse.completion = "none" /\ Queue(input) = <<>> /\ input.eof
        /\ HandleEof(parse, input)
     \/ /\ parse.completion = "none" /\ Queue(input) = <<>> /\ ~input.eof
        /\ SameMode
        /\ Ask("read", IF parse.keys.sequence = <<>> THEN "input" ELSE "key sequence",
               parse, input)
  /\ UNCHANGED <<config, configured, units, signals>>

-----------------------------------------------------------------------------
(* Calls from the host.  Answer(f) is a HostFailure answer it may give.     *)

Answer(f) == f \in Outcomes /\ UNCHANGED <<config, configured, units, signals>>
Answered == UNCHANGED <<config, configured, units, signals>>

Configure == /\ ~configured
             /\ configured' = TRUE
             /\ UNCHANGED <<config, mode, step, running, input, parse, result, counters>>

\* Between any two calls; the driver looks at the policy when it needs it.
Reconfigure == /\ ~running
               /\ config' \in Configs \ {config}
               /\ UNCHANGED <<configured, mode, step, running, input, parse, result,
                              counters>>

\* begin; refused as Busy, with no effect, while a read is live.
Begin ==
  /\ AtRest
  /\ \/ ~configured /\ Fail
     \/ /\ configured
        /\ \/ /\ Set("editing")
              /\ LET line == config.buffering = "line"
                 IN Ask("resize", "prepare",
                        [Fresh EXCEPT !.log = IF line THEN <<>> ELSE parse.log],
                        IF line THEN NoInput ELSE input)
           \/ CannotSet("editing") /\ Ended("error")
              /\ UNCHANGED <<step, running, input, parse>>
  /\ UNCHANGED <<config, configured, units, signals>>

\* The answers every host step shares: the input ended, or the host was
\* interrupted, or it failed.
Ending(interruptible) ==
  \/ Answer("ended") /\ Complete("end", input)
  \/ interruptible /\ Answer("interrupted") /\ Complete("interrupted", input)
  \/ Answer("failed") /\ Fail

ResumeResize ==
  /\ Held("resize")
  /\ \/ /\ Answered /\ SameMode          \* Ok and Unavailable
        /\ IF step.of = "signal" THEN Ask("signal", "resize", parse, input)
                                 ELSE Ask("prompt", "left", parse, input)
     \/ Answer("cancelled") /\ Fail
     \/ Ending(TRUE)

ResumePrompt ==
  /\ Held("prompt")
  /\ \/ /\ Answered /\ SameMode          \* Ok, Unavailable and Cancelled
        /\ IF step.of = "left" THEN Ask("prompt", "right", parse, input)
                               ELSE Ask("display", "refresh", parse, input)
     \/ Ending(TRUE)

Display == /\ Held("display")
           /\ \/ Answered /\ SameMode /\ Go(parse, input)
              \/ Answer("failed") /\ Fail

\* resume_history and resume_completion.
ResumeHistory == /\ Held("history")
                 /\ \/ Answered /\ SameMode /\ CommandDisplay(parse, input)
                    \/ Ending(TRUE)

\* resume_history_search, _line and _word and resume_editor_command; a history
\* line may have been selected for external editing.
ResumeQuery ==
  /\ Held("query")
  /\ \/ Answered /\ SameMode /\ CommandDisplay(parse, input)
     \/ Answered /\ SetOrFail("cooked", Ask("edit", "none", parse, input))
     \/ Ending(TRUE)

\* A user command may also accept the line or end the input.
ResumeUserCommand ==
  /\ Held("user")
  /\ \/ Answered /\ SameMode /\ CommandDisplay(parse, input)
     \/ Answered /\ SameMode /\ Ask("record", "none", parse, input)
     \/ Answered /\ SameMode /\ FinishLine("end", parse, input)
     \/ Ending(TRUE)

ResumeAlias ==
  /\ Held("alias")
  /\ \/ /\ step.of \in DOMAIN Aliases
        /\ Answered
        /\ LET text == Aliases[step.of]
               p == Charged(text, parse)
               in == PushFront(input, text)
           IN Expand(text, parse, IF config.buffering = "command"
                                  THEN CommandDisplay(p, in) ELSE Go(p, in))
     \/ /\ step.of \notin DOMAIN Aliases    \* Missing, Unavailable, Cancelled
        /\ Answered /\ SameMode /\ CommandDisplay(parse, input)
     \/ Ending(TRUE)

ResumeExternalEdit ==
  /\ Held("edit")
  /\ \/ Answered /\ SameMode /\ Ask("record", "none", parse, input)
     \/ Answer("unavailable") /\ SetOrFail("editing", CommandDisplay(parse, input))
     \/ Answer("cancelled") /\ SetOrFail("editing", CommandDisplay(parse, input))
     \/ Ending(TRUE)

ResumeHistoryRecord ==
  /\ Held("record")
  /\ \/ Answered /\ SameMode /\ FinishLine("accepted", parse, input)
     \/ Answer("cancelled") /\ Fail
     \/ Answer("interrupted") /\ Fail
     \/ Ending(FALSE)

-----------------------------------------------------------------------------
(* Input and signals.                                                       *)

Chunks == UNION {[1..n -> Keys] : n \in 1..MaxChunk}

Heard(us) == [input EXCEPT !.ready = @ \o us, !.heard = @ \o us]
CutShort == [input EXCEPT !.heard = Append(@, Break)]

\* What a read answers restarts the macro budget.
Reading == [parse EXCEPT !.asked = "none"]
Refilled == [Reading EXCEPT !.expanded = 0]

Supplied(us) == /\ units + Len(us) <= MaxUnits
                /\ units' = units + Len(us)
                /\ UNCHANGED <<config, configured, signals>>

ReadBytes ==
  /\ Held("read") /\ "chunk" \in Outcomes
  /\ \E us \in Chunks :
       /\ Supplied(us)
       /\ IF step.of = "alias selector" THEN AwaitSelector(Refilled, Heard(us))
                                        ELSE SameMode /\ Go(Refilled, Heard(us))

ReadUnit ==
  /\ Held("read") /\ "unit" \in Outcomes
  /\ \E u \in Keys :
       /\ Supplied(<<u>>)
       /\ LET in == [input EXCEPT !.heard = Append(@, u)]
          IN IF step.of = "alias selector" THEN SelectAlias(u, Refilled, in)
                                           ELSE Process(u, Refilled, in)

\* handle_timeout; a timeout of any other read is an error.
ReadTimedOut ==
  /\ Held("read") /\ Answer("timeout")
  /\ LET keys == parse.keys
     IN \/ step.of # "key sequence" /\ Fail
        \/ /\ step.of = "key sequence" /\ keys.bound # 0
           /\ Dispatch(SubSeq(keys.sequence, 1, keys.bound), Reading, CutShort)
        \/ /\ step.of = "key sequence" /\ keys.bound = 0
           /\ SameMode
           /\ BeepDisplay(Logged([Reading EXCEPT !.keys = NoKeys], "discard",
                                 keys.sequence), CutShort)

ReadEnded ==
  /\ Held("read")
  /\ Answer("end") \/ Answer("ended")
  /\ LET in == [input EXCEPT !.eof = TRUE]
     IN IF step.of = "alias selector" THEN AwaitSelector(Reading, in)
                                      ELSE SameMode /\ Go(Reading, in)

ReadFailed ==
  /\ Held("read")
  /\ \/ Answer("cancelled") /\ Complete("interrupted", input)
     \/ Answer("interrupted") /\ Complete("interrupted", input)
     \/ Answer("unavailable") /\ Fail
     \/ Answer("failed") /\ Fail

\* Mutant of Interrupted: a signal throws the pending prefix away.
InterruptedAfresh == [parse EXCEPT !.asked = step.of, !.keys = NoKeys]

\* A signal keeps the parser as it is; the history notes the read it cut off.
Interrupted == [parse EXCEPT !.asked = step.of]

\* handle_signal.
ReadSignal(s) ==
  /\ Held("read") /\ signals < MaxSignals
  /\ signals' = signals + 1
  /\ LET p == Interrupted
         in == IF step.of = "alias selector" THEN CutShort ELSE input
     IN \/ config.ignore /\ Complete("interrupted", input)
        \/ /\ ~config.ignore /\ s = "resize"
           /\ SameMode /\ Ask("resize", "signal", p, in)
        \/ /\ ~config.ignore /\ s = "continue"
           /\ SetOrFail("editing", Ask("signal", s, p, in))
        \/ /\ ~config.ignore /\ s \in {"suspend", "interrupt"}
           /\ SetOrFail("cooked", Ask("signal", s, p, in))
  /\ UNCHANGED <<config, configured, units>>

ResumeSignal ==
  /\ Held("signal")
  /\ \/ /\ Answered
        /\ \/ step.of = "resize" /\ SameMode /\ Ask("prompt", "left", parse, input)
           \/ step.of = "suspend"
              /\ SetOrFail("editing", Ask("signal", "continue", parse, input))
           \/ step.of = "continue" /\ SameMode
              /\ Ask("resize", "resume", parse, input)
           \/ step.of = "interrupt" /\ Complete("interrupted", input)
     \/ (Answer("unavailable") \/ Answer("cancelled")) /\ Fail
     \/ Ending(TRUE)

-----------------------------------------------------------------------------
Resume == \/ ResumeResize \/ ResumePrompt \/ Display \/ ResumeHistory \/ ResumeQuery
          \/ ResumeUserCommand \/ ResumeAlias \/ ResumeExternalEdit
          \/ ResumeHistoryRecord \/ ResumeSignal

Input == \/ ReadBytes \/ ReadUnit \/ ReadTimedOut \/ ReadEnded \/ ReadFailed
         \/ \E s \in Signals : ReadSignal(s)

Next == Configure \/ Reconfigure \/ Begin \/ Advance \/ Resume \/ Input

Spec == Init /\ [][Next]_vars

(* advance is the driver's own code, and the host services every step it is *)
(* handed; it is not obliged to ever supply input.                          *)
FairSpec == Spec /\ WF_vars(Advance) /\ WF_vars(Resume)

-----------------------------------------------------------------------------
Kinds == {"none", "prompt", "display", "resize", "read", "history", "query", "user",
          "alias", "edit", "record", "signal"}
Results == {"none", "error", "accepted", "end", "interrupted", "command", "character"}

TypeOK ==
  /\ config \in Configs /\ configured \in BOOLEAN /\ running \in BOOLEAN
  /\ mode \in {"editing", "cooked", "quoted"}
  /\ step.kind \in Kinds
  /\ running => step = NoStep
  /\ input.replay \in Seq(Keys) /\ input.ready \in Seq(Keys) /\ input.eof \in BOOLEAN
  /\ parse.keys.sequence \in Seq(Keys) /\ parse.keys.timed \in BOOLEAN
  /\ parse.waiting \in {"none", "quoted", "lead in"} /\ parse.meta \in BOOLEAN
  /\ parse.expanded \in 0..WorkLimit
  /\ parse.completion \in Results
  /\ result.kind \in Results
  /\ units \in 0..MaxUnits
  /\ signals \in 0..MaxSignals /\ failures \in 0..MaxFailures

(* A pending key sequence always has its deadline (advance panics without  *)
(* one), can still grow into a binding, and remembers the longest binding  *)
(* inside it to fall back on: across repaints, signals and split chunks.   *)
PrefixPending ==
  LET keys == parse.keys IN
  /\ keys.timed = (keys.sequence # <<>>)
  /\ keys.sequence # <<>> => Extended(keys.sequence)
  /\ keys.bound <= Len(keys.sequence)
  /\ \A n \in 1..Len(keys.sequence) :
       Bound(SubSeq(keys.sequence, 1, n)) => n <= keys.bound
  /\ keys.bound # 0 => Bound(SubSeq(keys.sequence, 1, keys.bound))

(* Whatever happens on the way, the host is only asked for input with the  *)
(* terminal raw, is handed stopping signals and the external editor with   *)
(* it cooked, and continues with it raw again.                             *)
ModeFitsStep ==
  /\ step.kind = "read" => mode \in {"editing", "quoted"}
  /\ step.kind = "edit" => mode = "cooked"
  /\ step.kind = "signal" /\ step.of \in {"suspend", "interrupt"} => mode = "cooked"
  /\ step.kind = "signal" /\ step.of = "continue" => mode = "editing"

(* The terminal passes characters literally only while quoted insert waits *)
(* for one, unless an unbuffered read was interrupted there or a mode      *)
(* change failed: no other exit leaves it deaf to the signal keys.         *)
QuotedWhileQuoting ==
  mode = "quoted" => \/ parse.waiting = "quoted"
                     \/ AtRest /\ result.buffering # "line"
                     \/ failures > 0

(* However a line-buffered read ends, and however any read fails, the      *)
(* terminal is cooked, unless a mode change failed.                        *)
CookedAtRest ==
  AtRest /\ failures = 0 /\ result.kind # "none"
         /\ (result.buffering = "line" \/ result.kind = "error")
    => mode = "cooked"

(* Together: the terminal follows the driver through every step, failure   *)
(* and interruption.                                                       *)
TerminalFollowsDriver == ModeFitsStep /\ QuotedWhileQuoting /\ CookedAtRest

(* A resize or a resumption during a read is followed by the same read:    *)
(* the prefix being typed is still pending afterwards.                     *)
ReadIsResumed ==
  step.kind = "read" /\ parse.asked \in {"input", "key sequence"}
    => step.of = parse.asked

(* A host that serves its steps always gets back to a read or to the end   *)
(* of it: macros and aliases that expand into themselves are stopped.      *)
AsksAgain == running \/ step.kind \notin {"none", "read"}
               ~> step.kind = "read" \/ AtRest

(* Once the input has ended the read ends, whatever is still queued or     *)
(* pending, and without asking for input again.                            *)
EndOfInputEnds == input.eof /\ ~AtRest ~> AtRest
=============================================================================
