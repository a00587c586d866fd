--------------------------- MODULE TerminalModes ---------------------------
(***************************************************************************)
(* The terminal attributes of an editing session: what `el_init` finds on  *)
(* the terminal, the attributes of the three input modes derived from it,  *)
(* the changes `setty` makes to them, and what `el_end` puts back          *)
(* (nshedit-abi's AbiTerminal and EditLine::set_tty_modes, nshedit's       *)
(* Editor, nshedit-plat's TerminalAttributes).                             *)
(*                                                                         *)
(* Attributes are the set of flags that are on and the meaning of the      *)
(* control characters.  Of the flags the code knows there are four here,   *)
(* one of each way the modes differ by; of the control characters one that *)
(* editing turns off and one it leaves alone.  Arguments are read: the     *)
(* names and the spelling of characters are left out, and so is the        *)
(* listing that setty prints without arguments.                            *)
(***************************************************************************)
EXTENDS Naturals, Sequences, SequencesExt

CONSTANTS Terminals,    \* the attributes a terminal may have when the session opens
          Settings,     \* the arguments one setty may be given, a set of sequences
          MaxSettings   \* bound on the settys of a behaviour

Modes == {"cooked", "editing", "quoted"}
Flags == {"canonical", "signals", "flow", "return"}
ControlCharacters == {"eof", "intr"}
Attributes == [flags : SUBSET Flags, chars : [ControlCharacters -> {"found", "off", "given"}]]

ForEditing(a) ==
  [flags |-> (a.flags \cup {"signals"}) \ {"canonical", "return"},
   chars |-> [a.chars EXCEPT !["eof"] = "off"]]
ForQuotedInput(a) == [a EXCEPT !.flags = @ \ {"flow", "signals"}]

NoAttributes == <<>>   \* nothing was captured: the session has no terminal

InitialOverrides ==
  LET Of(on, off) == [x \in Flags \cup ControlCharacters |->
                       IF x \in on THEN "+" ELSE IF x \in off THEN "-" ELSE " "]
  IN [cooked |-> Of({"signals", "canonical"}, {"return"}),
      editing |-> Of({"signals"}, {"canonical", "return"}),
      quoted |-> Of({}, {"signals", "flow"})]

VARIABLES session,      \* "none", "open" or "ended"
          found,        \* what the terminal had before the session (history)
          device,       \* what it has now
          attributes,   \* of each mode, or NoAttributes
          active,       \* TerminalState::active_mode
          entered,      \* Editor::terminal_mode
          overrides,    \* of each mode: "+", "-" or " " for each name
          settings,     \* how many settys there were
          behind        \* the last change meant for the terminal did not reach it (history)

ttyVars == <<session, found, device, attributes, active, entered, overrides, settings, behind>>

Init ==
  /\ session = "none" /\ found \in Terminals /\ device = found
  /\ attributes = NoAttributes /\ active = "cooked" /\ entered = "editing"
  /\ overrides = InitialOverrides /\ settings = 0 /\ behind = FALSE

Captured == [cooked |-> device, editing |-> ForEditing(device),
             quoted |-> ForQuotedInput(ForEditing(device))]

\* A change of the terminal the system refuses leaves the terminal alone.
Applied(to, done) == /\ device' = IF done THEN to ELSE device
                     /\ behind' = ~done

\* The output is no terminal, or the input's attributes cannot be read.
OpenWithoutTerminal ==
  /\ session = "none" /\ session' = "open" /\ entered' = "cooked"
  /\ UNCHANGED <<found, device, attributes, active, overrides, settings, behind>>

\* The editing attributes are applied, then the session goes to cooked mode.
OpenOnTerminal(done) ==
  /\ session = "none" /\ session' = "open"
  /\ attributes' = Captured /\ active' = "cooked"
  /\ entered' = IF done THEN "cooked" ELSE "editing"
  /\ device' = IF done THEN device ELSE ForEditing(device)
  /\ behind' = ~done
  /\ UNCHANGED <<found, overrides, settings>>

\* They cannot be applied: no session, and one attempt to restore.
OpenFails ==
  /\ session = "none" /\ session' = "ended"
  /\ attributes' = Captured /\ active' = "cooked"
  /\ UNCHANGED <<found, device, entered, overrides, settings, behind>>

EnterMode(mode, done) ==
  /\ session = "open" /\ mode # entered
  /\ IF attributes = NoAttributes
     THEN done /\ UNCHANGED <<device, behind>>
     ELSE Applied(attributes[mode], done)
  /\ active' = IF done THEN mode ELSE active
  /\ entered' = IF done THEN mode ELSE entered
  /\ UNCHANGED <<session, found, attributes, overrides, settings>>

\* A mode as setty sees it, and one argument.  ControlCharacters are set at once, flags by
\* way of the overrides.
View(mode) == [attributes |-> IF attributes = NoAttributes THEN NoAttributes ELSE attributes[mode],
               overrides |-> overrides[mode]]

Argument(view, arg) ==
  CASE arg.kind = "character" /\ view.attributes # NoAttributes ->
         [view EXCEPT !.attributes.chars[arg.name] = "given"]
    [] arg.kind = "override" -> [view EXCEPT !.overrides[arg.name] = arg.sign]
    [] OTHER -> view

\* An argument nobody knows ends the command; what came before it stays.
FirstUnknown(args) == SelectInSeq(args, LAMBDA arg : arg.kind = "unknown")
Known(args) == FirstUnknown(args) = 0
Understood(args) == IF Known(args) THEN args ELSE SubSeq(args, 1, FirstUnknown(args) - 1)

WithOverrides(a, over) ==
  [a EXCEPT !.flags = {f \in Flags : over[f] = "+" \/ (over[f] = " " /\ f \in a.flags)}]

Given(mode, args) == FoldLeft(Argument, View(mode), Understood(args))
AsSet(mode, args) ==
  LET given == Given(mode, args)
  IN IF Known(args) THEN WithOverrides(given.attributes, given.overrides) ELSE given.attributes

\* Mutant: setty changes the terminal whatever mode it is in.
InForceAlways(mode) == TRUE

InForce(mode) == mode = active

\* Without arguments it only lists.
SetTty(mode, args, done) ==
  /\ args # <<>> /\ session = "open" /\ settings < MaxSettings
  /\ settings' = settings + 1
  /\ overrides' = [overrides EXCEPT ![mode] = Given(mode, args).overrides]
  /\ IF attributes = NoAttributes
     THEN done /\ UNCHANGED <<attributes, device, behind>>
     ELSE /\ attributes' = [attributes EXCEPT ![mode] = AsSet(mode, args)]
          /\ CASE ~InForce(mode) -> done /\ UNCHANGED <<device, behind>>
               [] InForce(mode) /\ Known(args) -> Applied(attributes'[mode], done)
               [] OTHER -> done /\ device' = device
                           /\ behind' = (behind \/ attributes'[mode] # attributes[mode])
  /\ UNCHANGED <<session, found, active, entered>>

\* el_end: the attributes of cooked mode are put back, once.
Restore(done) ==
  /\ session = "open" /\ session' = "ended"
  /\ IF attributes = NoAttributes
     THEN done /\ UNCHANGED <<device, behind>>
     ELSE Applied(attributes["cooked"], done)
  /\ UNCHANGED <<found, attributes, active, entered, overrides, settings>>

Next ==
  \/ OpenWithoutTerminal \/ OpenFails
  \/ \E done \in BOOLEAN :
       \/ OpenOnTerminal(done) \/ Restore(done)
       \/ \E mode \in Modes : EnterMode(mode, done)
       \/ \E mode \in Modes, args \in Settings : SetTty(mode, args, done)

Spec == Init /\ [][Next]_ttyVars

-----------------------------------------------------------------------------
\* The terminal has the attributes of the mode in force, whatever was set for
\* it and when: what `setty` changes in another mode waits until that mode is
\* entered, and what it changes in this one is there at once
\* (AbiTerminal::set_mode, EditLine::set_tty_modes).
DeviceShowsMode ==
  session = "open" /\ attributes # NoAttributes /\ ~behind => device = attributes[active]

\* When the session ends, the terminal is as it was found (TerminalControl::restore:
\* "Restore the state that preceded the activation attempt.").
TerminalIsAsFound == session = "ended" /\ ~behind => device = found
=============================================================================
