------------------------------ MODULE HostRead ------------------------------
(***************************************************************************)
(* crates/nshedit-abi/src/histedit/driver.rs and driver/signal.rs: the     *)
(* three readers of the C handle (el_wgets editing, el_wgets not editing,  *)
(* el_wgetc) and the signals that arrive while they wait, run commands or  *)
(* hand a signal on.  crates/nshedit/src/editor/driver/signal.rs is the    *)
(* core driver's side of the same conversation.                            *)
(*                                                                         *)
(* The pending slot and the armed dispositions are what SignalMailbox and  *)
(* SignalHandlers promise for one guard: the slot holds the latest         *)
(* delivery of an armed signal, and any other signal goes to the caller's  *)
(* own disposition, which nothing here sees.  The caller's dispositions    *)
(* return; a Suspend stops the process or not, and a stopped process goes  *)
(* on by a Continue.  Of the driver only the steps between two reads are   *)
(* kept: prompt, display, a command that calls the host, completion.       *)
(* EL_SIGNAL may change inside any callback, EL_UNBUFFERED between reads.  *)
(*                                                                         *)
(* Bounds: MaxSends deliveries reach the slot and MaxFailures calls fail.  *)
(***************************************************************************)
EXTENDS Naturals

CONSTANTS Interrupts,  \* Interrupt, Quit, Hangup and Terminate
          Suspend, Continue, Resize, NoSignal, MaxSends, MaxFailures

Stopping == Interrupts \cup {Suspend}
Signals == Stopping \cup {Continue, Resize}

ASSUME HostReadAssumption ==
  /\ Suspend \notin {Continue, Resize, NoSignal}
  /\ Continue \notin {Resize, NoSignal} /\ Resize # NoSignal
  /\ Interrupts \cap {Suspend, Continue, Resize, NoSignal} = {}
  /\ MaxSends \in Nat /\ MaxFailures \in Nat

VARIABLES
  hasCallback,  \* EL_GETCFN: input comes from a function of the caller
  safe,         \* EL_SAFEREAD
  isTty,
  handling,     \* EL_SIGNAL
  unbuffered,   \* EL_UNBUFFERED
  mode,         \* the terminal mode committed by the editor
  guard,        \* whose SignalHandlers guard is live: the read's or the handle's
  armed,        \* the signals whose disposition the guard has displaced
  slot,         \* the pending delivery
  kind,         \* which reader runs, or ran last
  pc,           \* where it stands
  result,       \* what the last read of a character gave
  signal,       \* the delivery being worked off
  by,           \* ... by the driver, or directly, behind the driver's back
  back,         \* ... and where the reader goes on after that
  broken,       \* a delivery broke into the blocking call
  told,         \* history: the last signal but Resize this read handed on ...
  toldIn,       \* history: ... and the terminal mode at that moment
  sends, failures

handle == <<hasCallback, safe, isTty, handling, unbuffered>>
scope == <<guard, armed>>
work == <<signal, by, back>>
history == <<told, toldIn>>
bounds == <<sends, failures>>
vars == <<handle, mode, scope, slot, kind, pc, result, work, broken, history, bounds>>

Kinds == {"edited", "unedited", "getc"}

Init ==
  /\ hasCallback \in BOOLEAN /\ safe \in BOOLEAN /\ isTty \in BOOLEAN
  /\ handling \in BOOLEAN /\ unbuffered = FALSE
  /\ mode = "cooked" /\ guard = "none" /\ armed = {} /\ slot = NoSignal
  /\ kind = "edited" /\ pc = "rest" /\ result = "none"
  /\ signal = NoSignal /\ by = "driver" /\ back = "rest" /\ broken = FALSE
  /\ told = NoSignal /\ toldIn = mode /\ sends = 0 /\ failures = 0

Goto(label) == pc' = label
Fails == failures < MaxFailures /\ failures' = failures + 1

\* Giving up the guard drops whatever is pending in it.
Disarm == guard' = "none" /\ armed' = {} /\ slot' = NoSignal
Arm(whose) == guard' = whose /\ armed' = Signals /\ slot' = NoSignal

-----------------------------------------------------------------------------
(* The caller's settings, and the signals that arrive.                      *)

InCallback == pc \in {"prompt", "command"} \/ (pc = "source" /\ hasCallback)

SetHandleSignals ==
  /\ pc = "rest" \/ InCallback
  /\ handling' = ~handling
  /\ CASE handling' /\ unbuffered /\ guard = "none" -> Arm("kept")
       [] ~handling' /\ guard = "kept" -> Disarm
       [] OTHER -> UNCHANGED <<scope, slot>>
  /\ UNCHANGED <<hasCallback, safe, isTty, unbuffered, mode, kind, pc, result,
                 work, broken, history, bounds>>

\* set_unbuffered_reading; the terminal calls may fail and nobody looks.
SetUnbuffered ==
  /\ pc = "rest"
  /\ unbuffered' = ~unbuffered
  /\ \/ /\ mode' = IF unbuffered' THEN "editing" ELSE "cooked"
        /\ UNCHANGED failures
     \/ Fails /\ UNCHANGED mode
     \/ unbuffered' /\ UNCHANGED <<mode, failures>>       \* editing is off
  /\ CASE unbuffered' /\ handling -> Arm("kept")
       [] ~unbuffered' /\ guard = "kept" -> Disarm
       [] OTHER -> UNCHANGED <<scope, slot>>
  /\ UNCHANGED <<hasCallback, safe, isTty, handling, kind, pc, result, work,
                 broken, history, sends>>

\* The trampoline records an armed signal over whatever was pending.
Deliver(s) ==
  /\ sends < MaxSends /\ sends' = sends + 1
  /\ s \in armed
  /\ slot' = s
  /\ broken' \in (IF pc = "source" /\ ~hasCallback THEN {broken, TRUE} ELSE {broken})
  /\ UNCHANGED <<handle, mode, scope, kind, pc, result, work, history, failures>>

-----------------------------------------------------------------------------
(* The readers' ends.                                                       *)

\* A reader returns: the guard it owns is dropped, the handle's is kept.
Return(outcome) ==
  /\ Goto("rest")
  /\ result' = outcome
  /\ broken' = FALSE
  /\ IF guard = "scoped" THEN Disarm ELSE UNCHANGED <<scope, slot>>

\* ReadDriver::complete: the terminal is cooked again unless unbuffered.
Complete ==
  \/ /\ mode' = IF unbuffered THEN mode ELSE "cooked"
     /\ Goto("finish")
     /\ UNCHANGED <<scope, slot, result, broken, failures>>
  \/ ~unbuffered /\ Fails /\ UNCHANGED mode /\ Return("error")

\* ReadDriver::fail: an attempt at cooked mode, and drive_read returns.
FailDriver == /\ mode' = "cooked"
              /\ Return("error")

\* The reader gives up: the driver by its own rules, the others at once.
GiveUp == IF kind = "edited" THEN FailDriver ELSE Return("error") /\ UNCHANGED mode

-----------------------------------------------------------------------------
(* Starting a read.                                                         *)

StartEdited ==
  /\ pc = "rest" /\ isTty
  /\ kind' = "edited"
  /\ told' = NoSignal /\ toldIn' = mode
  /\ CASE handling /\ unbuffered /\ guard = "none" -> Arm("kept")
       [] handling /\ ~unbuffered -> Arm("scoped")
       [] OTHER -> UNCHANGED <<scope, slot>>
  /\ mode' = "editing"
  /\ Goto("prepare")
  /\ UNCHANGED <<handle, result, work, broken, bounds>>

\* begin fails to take the terminal: a guard of the read is dropped again.
StartFails ==
  /\ pc = "rest" /\ isTty /\ Fails
  /\ IF handling /\ unbuffered /\ guard = "none" THEN Arm("kept")
                                                ELSE UNCHANGED <<scope, slot>>
  /\ result' = "error"
  /\ UNCHANGED <<handle, mode, kind, pc, work, broken, history, sends>>

StartUnedited ==
  /\ pc = "rest"
  /\ kind' = "unedited"
  /\ told' = NoSignal /\ toldIn' = mode
  /\ CASE handling /\ unbuffered /\ guard = "none" -> Arm("kept")
       [] handling /\ ~unbuffered /\ isTty -> Arm("scoped")
       [] OTHER -> UNCHANGED <<scope, slot>>
  /\ Goto("look")
  /\ UNCHANGED <<handle, mode, result, work, broken, bounds>>

\* el_wgetc claims nothing: it sees only the guard kept on the handle, and a
\* pushed-back unit is given out before the terminal is touched.
StartGetc ==
  /\ pc = "rest"
  /\ kind' = "getc"
  /\ told' = NoSignal /\ toldIn' = mode
  /\ \/ /\ Goto("behind")
        /\ result' = "pushed"
        /\ UNCHANGED mode
     \/ /\ isTty
        /\ mode' = "editing"
        /\ Goto(IF hasCallback THEN "source" ELSE "look")
        /\ UNCHANGED result
  /\ UNCHANGED <<handle, scope, slot, work, broken, bounds>>

\* ResizeEffect::Prepare and ::Resume, then the prompts and the display; any
\* of them may fail the read.
Prepare ==
  /\ pc = "prepare"
  /\ \/ Goto("prompt") /\ UNCHANGED <<mode, scope, slot, result, broken, failures>>
     \/ Fails /\ FailDriver
  /\ UNCHANGED <<handle, kind, work, history, sends>>

Display ==
  /\ pc = "prompt"
  /\ \/ Goto("look") /\ UNCHANGED <<mode, scope, slot, result, broken, failures>>
     \/ Fails /\ FailDriver
  /\ UNCHANGED <<handle, kind, work, history, sends>>

-----------------------------------------------------------------------------
(* One read of input.                                                       *)

\* Start working off the pending delivery, and go on at `next` after it.
Take(who, next) ==
  /\ signal' = slot /\ slot' = NoSignal
  /\ by' = who /\ back' = next
  /\ Goto("mode")

\* Before the read: the driver is told of the delivery in place of input,
\* the other readers work it off themselves.
Look ==
  /\ pc = "look"
  /\ IF slot = NoSignal
     THEN Goto("source") /\ UNCHANGED <<slot, work>>
     ELSE IF kind = "edited" THEN Take("driver", "prompt") ELSE Take("direct", "source")
  /\ broken' = FALSE
  /\ UNCHANGED <<handle, mode, scope, kind, result, history, bounds>>

\* A character, a chunk, a pushed-back unit, the end; a callback's failure.
Yields ==
  /\ pc = "source" /\ ~broken
  /\ result' \in {"unit", "last", "end"} \cup (IF hasCallback THEN {"error"} ELSE {})
  /\ Goto("behind")
  /\ broken' = FALSE
  /\ UNCHANGED <<handle, mode, scope, slot, kind, work, history, bounds>>

Broken ==
  /\ pc = "source" /\ broken
  /\ result' = "broken"
  /\ Goto("failed")
  /\ broken' = FALSE
  /\ UNCHANGED <<handle, mode, scope, slot, kind, work, history, bounds>>

\* The wait inside a key sequence runs out: a delivery comes first.
TimesOut ==
  /\ pc = "source" /\ ~broken /\ kind = "edited"
  /\ IF slot = NoSignal THEN Goto("settle") /\ UNCHANGED <<slot, work>>
                        ELSE Take("driver", "prompt")
  /\ result' = "unit"
  /\ broken' = FALSE
  /\ UNCHANGED <<handle, mode, scope, kind, history, bounds>>

ReadFails ==
  /\ pc = "source" /\ ~broken /\ ~hasCallback /\ Fails
  /\ result' = "error"
  /\ Goto("failed")
  /\ broken' = FALSE
  /\ UNCHANGED <<handle, mode, scope, slot, kind, work, history, sends>>

\* resume_pending_direct behind a result, and once more in finish.
Behind ==
  /\ pc \in {"behind", "finish"}
  /\ LET next == IF pc = "behind" THEN "settle" ELSE "restore"
     IN IF slot = NoSignal THEN Goto(next) /\ UNCHANGED <<slot, work>>
                           ELSE Take("direct", next)
  /\ UNCHANGED <<handle, mode, scope, kind, result, broken, history, bounds>>

\* After a failed read the delivery that broke it comes first, then EL_SAFEREAD.
Failed ==
  /\ pc = "failed"
  /\ \/ /\ slot # NoSignal
        /\ Take(IF kind = "edited" THEN "driver" ELSE "direct",
                IF kind = "edited" THEN "prompt" ELSE "look")
        /\ UNCHANGED <<mode, scope, result, broken>>
     \/ /\ slot = NoSignal /\ result = "broken" /\ safe
        /\ Goto("look")
        /\ UNCHANGED <<mode, scope, slot, result, work, broken>>
     \/ /\ slot = NoSignal /\ ~(result = "broken" /\ safe)
        /\ GiveUp
        /\ UNCHANGED work
  /\ UNCHANGED <<handle, kind, history, bounds>>

\* What the reader makes of the result.
Settle ==
  /\ pc = "settle"
  /\ \/ /\ result = "unit"
        /\ \E next \in IF kind = "edited" THEN {"look", "prompt", "command"} ELSE {"look"} :
             Goto(next)
        /\ UNCHANGED <<mode, scope, slot, result, broken, failures>>
     \/ /\ result \in {"last", "end"} /\ kind = "edited"
        /\ Complete
     \/ /\ result \in {"last", "end"} /\ kind = "unedited"
        /\ Goto("finish")
        /\ UNCHANGED <<mode, scope, slot, result, broken, failures>>
     \/ /\ result \in {"last", "end", "pushed"} /\ kind = "getc"
        /\ Return(result)
        /\ UNCHANGED <<mode, failures>>
     \/ result = "error" /\ GiveUp /\ UNCHANGED failures
  /\ UNCHANGED <<handle, kind, work, history, sends>>

\* A command that called the host is over.
CommandReturns ==
  /\ pc = "command"
  /\ \/ Goto("prompt") /\ UNCHANGED <<mode, scope, slot, result, broken, failures>>
     \/ Complete
  /\ UNCHANGED <<handle, kind, work, history, sends>>

\* ReadSignals::finish: restoring the dispositions may fail, and is then a
\* failed read with the guard gone all the same.
Restore ==
  /\ pc = "restore"
  /\ \/ Return("done") /\ UNCHANGED failures
     \/ guard = "scoped" /\ Fails /\ Return("error")
  /\ UNCHANGED <<handle, mode, kind, work, history, sends>>

-----------------------------------------------------------------------------
(* Working a delivery off: terminal mode, the caller's disposition, rearm.  *)
(* Whatever fails on the way takes the read with it.                        *)

Abandoned(how) == Fails /\ Goto(how)

\* Mutant: a suspension leaves the terminal as it is.
ModeForSuspendLeft(s) == IF s = Continue THEN "editing"
                         ELSE IF s \in Interrupts THEN "cooked" ELSE mode

\* The terminal mode a signal asks for before it is handed on.
ModeFor(s) == CASE s = Resize -> mode
                [] s = Continue -> "editing"
                [] s \in Stopping -> "cooked"

\* handle_signal and the head of resume_direct.  With EL_SIGNAL switched off
\* in a callback the driver does not hand the delivery on: the read ends.
SetMode ==
  /\ pc = "mode"
  /\ \/ by = "driver" /\ ~handling /\ Complete
     \/ /\ by = "direct" \/ handling
        /\ \/ mode' = ModeFor(signal) /\ Goto("tell") /\ UNCHANGED failures
           \/ Abandoned("abandon") /\ UNCHANGED mode
        /\ UNCHANGED <<scope, slot, result, broken>>
  /\ UNCHANGED <<handle, kind, work, history, sends>>

\* propagate: give back the displaced disposition and raise.  A process that
\* stops goes on by a Continue, over which a later delivery may be recorded.
Tell ==
  /\ pc = "tell" /\ signal \in armed
  /\ armed' = armed \ {signal}
  /\ IF signal = Resize THEN UNCHANGED history ELSE told' = signal /\ toldIn' = mode
  /\ slot' \in IF signal = Suspend THEN {slot, Continue, Resize} ELSE {slot}
  /\ Goto(IF signal \in Interrupts THEN "told" ELSE "rearm")
  /\ UNCHANGED <<handle, mode, guard, kind, result, work, broken, bounds>>

\* The disposition was handed on before (NotArmed), or a call fails.
TellFails ==
  /\ pc = "tell"
  /\ \/ signal \notin armed /\ Goto("abandon") /\ UNCHANGED failures
     \/ Abandoned("abandon")
  /\ UNCHANGED <<handle, mode, scope, slot, kind, result, work, broken, history, sends>>

\* The tail of propagate_platform: behind a Suspend the next delivery must be
\* the Continue; then everything handed on before is armed again.
Rearm ==
  /\ pc = "rearm"
  /\ slot' = IF signal = Suspend THEN NoSignal ELSE slot
  /\ \/ /\ signal = Suspend => slot = Continue
        /\ \/ /\ armed' = Signals
              /\ Goto(IF signal = Suspend THEN "wake" ELSE "told")
              /\ UNCHANGED failures
           \/ Abandoned("abandon") /\ UNCHANGED armed
     \/ /\ signal = Suspend /\ slot # Continue
        /\ Goto(IF slot = NoSignal THEN "interrupted" ELSE "abandon")
        /\ UNCHANGED <<armed, failures>>
  /\ UNCHANGED <<handle, mode, guard, kind, result, work, broken, history, sends>>

\* What is handed on behind a Suspend, once the terminal is editing again.
FollowUp == Continue

\* Mutant: the Continue is handed on without taking the terminal back.
WakeCooked ==
  /\ pc = "wake"
  /\ Goto("tell") /\ signal' = FollowUp
  /\ UNCHANGED <<handle, mode, scope, slot, kind, result, by, back, broken, history, bounds>>

\* Mutant: the terminal is taken back, the Continue not handed on.
WakeUntold ==
  /\ pc = "wake"
  /\ mode' = "editing" /\ signal' = FollowUp /\ Goto("told")
  /\ UNCHANGED <<handle, scope, slot, kind, result, by, back, broken, history, bounds>>

\* resume_signal and the tail of resume_direct.
Wake ==
  /\ pc = "wake"
  /\ \/ mode' = "editing" /\ Goto("tell") /\ UNCHANGED failures
     \/ Abandoned("abandon") /\ UNCHANGED mode
  /\ signal' = FollowUp
  /\ UNCHANGED <<handle, scope, slot, kind, result, by, back, broken, history, sends>>

\* Mutant: the driver draws its line again whatever the signal was.
ToldDrawsAgain ==
  /\ pc = "told"
  /\ Goto(IF by = "direct" THEN back ELSE IF signal = Continue THEN "prepare" ELSE "prompt")
  /\ UNCHANGED <<handle, mode, scope, slot, kind, result, work, broken, history, bounds>>

\* The caller has been told.  The driver ends the read or draws its line
\* again; a direct reader goes on, or gives up where its read was broken.
Told ==
  /\ pc = "told"
  /\ \/ by = "driver" /\ signal \in Interrupts /\ Complete
     \/ /\ by = "driver" /\ signal \notin Interrupts
        /\ Goto(IF signal = Resize THEN "prompt" ELSE "prepare")
        /\ UNCHANGED <<mode, scope, slot, result, broken, failures>>
     \/ /\ by = "direct" /\ back = "look" /\ signal \in Interrupts
        /\ GiveUp /\ UNCHANGED failures
     \/ /\ by = "direct" /\ ~(back = "look" /\ signal \in Interrupts)
        /\ Goto(back)
        /\ UNCHANGED <<mode, scope, slot, result, broken, failures>>
  /\ UNCHANGED <<handle, kind, work, history, sends>>

\* A failure behind a result loses the result, except el_wgetc's from a
\* callback or pushed back; the driver takes a missing Continue for an end.
Abandon ==
  /\ pc \in {"abandon", "interrupted"}
  /\ CASE back = "restore" -> Return("error") /\ UNCHANGED <<mode, failures>>
       [] back = "settle" /\ kind = "getc" /\ (hasCallback \/ result = "pushed") ->
            Return(result) /\ UNCHANGED <<mode, failures>>
       [] back # "restore" /\ kind = "edited" /\ pc = "interrupted" -> Complete
       [] OTHER -> GiveUp /\ UNCHANGED failures
  /\ UNCHANGED <<handle, kind, work, history, sends>>

-----------------------------------------------------------------------------

\* The reader's own steps; the caller's callbacks and the input are not.
Step == \/ Prepare \/ Display \/ Look \/ Broken \/ Behind \/ Failed \/ Settle
        \/ CommandReturns \/ Restore \/ SetMode \/ Tell \/ TellFails \/ Rearm
        \/ Wake \/ Told \/ Abandon

Next == \/ StartEdited \/ StartFails \/ StartUnedited \/ StartGetc
        \/ Step \/ Yields \/ TimesOut \/ ReadFails
        \/ SetHandleSignals \/ SetUnbuffered
        \/ \E s \in Signals : Deliver(s)

\* Once called, the reader runs; nothing is assumed of the user or of input.
Spec == Init /\ [][Next]_vars /\ WF_vars(Step)

-----------------------------------------------------------------------------

TypeOK ==
  /\ {hasCallback, safe, isTty, handling, unbuffered, broken} \subseteq BOOLEAN
  /\ mode \in {"cooked", "editing"} /\ toldIn \in {"cooked", "editing"}
  /\ guard \in {"none", "scoped", "kept"} /\ armed \subseteq Signals
  /\ {slot, signal, told} \subseteq Signals \cup {NoSignal}
  /\ kind \in Kinds /\ by \in {"driver", "direct"}
  /\ sends \in 0..MaxSends /\ failures \in 0..MaxFailures

\* A signal that ends or stops the process reaches the caller's disposition
\* only with the terminal cooked: resume_direct and handle_signal put it back
\* first, on every path and in every order of deliveries.
CallerSeesCooked == told \in Stopping => toldIn = "cooked"

\* A reader that waits for input again after a Suspend has handed the
\* Continue on since: no path leaves the caller's job control half told.
ContinueFollowsSuspend == pc \in {"look", "source", "prompt"} => told # Suspend

\* The driver and el_wgetc wait for input with the terminal in editing mode,
\* except behind an interrupting signal that was worked off beside a result:
\* the result stands, the read goes on, and nothing sets the mode again.
EditsWhileReading ==
  /\ pc \in {"look", "source"} /\ kind \in {"edited", "getc"}
  /\ mode = "cooked"
  => told \in Interrupts

\* An interrupting signal that breaks into an edited read ends the read, if
\* no other delivery comes after it.
InterruptEndsRead ==
  (pc = "source" /\ broken /\ kind = "edited" /\ slot \in Interrupts /\ sends = MaxSends)
    ~> pc = "rest"

=============================================================================
