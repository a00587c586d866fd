---------------------------- MODULE TerminalView ----------------------------
(***************************************************************************)
(* What a C handle knows of its terminal (crates/nshedit-abi/src/adapter/  *)
(* terminal_io/profile.rs, with settc of commands.rs and resize_display of *)
(* terminal_io.rs): the capabilities of a description, as settc and the    *)
(* window have overridden them, and what the editor's renderer was given   *)
(* of them.  Capabilities go by their termcap codes, a value is a text;    *)
(* the baud rate, and all capabilities that nothing here reads, are left   *)
(* out, and the terminal's keys are those of KeyBindings.                  *)
(***************************************************************************)
EXTENDS Integers

CONSTANTS
  StringCodes,    \* the string capabilities that settc knows
  DrawnWith,      \* the string capabilities that the renderer draws with
  WithoutThem,    \* what it sends for one that is absent, Blank for nothing
  CapabilityTexts, Blank,   \* the values settc is given, and the empty one
  SevenBytes,     \* as much of a value as is read
  Spelled,        \* the number that spells, of the values that spell one
  TerminalNames, Descriptions,   \* the names, and the descriptions of some
  WindowSizes     \* what the kernel may say the size of the window is

FlagCodes == {"am", "pt", "km", "xn"}
SizeCodes == {"li", "co"}
NumberCodes == SizeCodes \cup {"xt", "MT"}
Yes == "yes"
No == "no"

ASSUME ViewAssumption ==
  /\ DOMAIN Spelled \subseteq CapabilityTexts /\ \A t \in DOMAIN Spelled : Spelled[t] \in Int
  /\ \A n \in DOMAIN Descriptions : \A c \in DOMAIN Descriptions[n].numbers :
       Descriptions[n].numbers[c] \in Int
  /\ WindowSizes \subseteq [rows : Nat, columns : Nat]

VARIABLES
  view,       \* TerminalCapabilities
  shown,      \* the editor's display: the profile and the size it was configured with
  enabled,    \* whether editing is
  window      \* the size of the window; 0 by 0 where there is none

viewVars == <<view, shown, enabled, window>>

Put(f, c, value) == [k \in DOMAIN f \cup {c} |-> IF k = c THEN value ELSE f[k]]
Drop(f, c) == [k \in DOMAIN f \ {c} |-> f[k]]
AtLeast(n, least) == IF n < least THEN least ELSE n

Flag(v, code) == code \in DOMAIN v.bools /\ v.bools[code]
Number(v, code) ==
  CASE code \in DOMAIN v.numbers -> v.numbers[code]
    [] code \notin DOMAIN v.numbers /\ Flag(v, code) -> 1
    [] code \notin DOMAIN v.numbers /\ ~Flag(v, code) -> 0

RefreshDerivedFlags(v) ==
  [v EXCEPT !.destructiveTabs = Number(v, "xt") # 0, !.metaExtension = Number(v, "MT") # 0]

\* A number of rows or columns that no screen has becomes the usual one.
UsualRows(n) == IF n < 1 THEN 24 ELSE n
UsualColumns(n) == IF n < 2 THEN 80 ELSE n

Sized(v, rows, columns) ==
  [v EXCEPT !.rows = rows, !.columns = columns, !.numbers = Put(Put(@, "li", rows), "co", columns)]
SetSize(v, rows, columns) == Sized(v, AtLeast(rows, 1), AtLeast(columns, 2))

HasSize(w) == w.rows # 0 /\ w.columns # 0

NewCapabilities(name, entry, w) ==
  LET told == [name |-> name, bools |-> entry.bools, numbers |-> entry.numbers, strings |-> entry.strings,
               destructiveTabs |-> FALSE, metaExtension |-> FALSE, rows |-> 0, columns |-> 0]
      number(code) == IF code \in DOMAIN entry.numbers THEN entry.numbers[code] ELSE 0
  IN  RefreshDerivedFlags(
        IF HasSize(w) THEN Sized(told, w.rows, w.columns)
        ELSE Sized(told, UsualRows(number("li")), UsualColumns(number("co"))))

\* What outlives a name that has no description; xt takes the value of MT.
PreserveFailedLookupValues(v, previous) ==
  LET meta == Number(previous, "MT")
      margins == Put(Put(v.bools, "am", Flag(previous, "am")), "xn", Flag(previous, "xn"))
  IN  RefreshDerivedFlags([v EXCEPT !.bools = Put(Put(margins, "MT", meta # 0), "xt", meta # 0),
                                    !.numbers = Put(Put(@, "MT", meta), "xt", meta)])

\* TerminalProfile::from_terminfo: what the renderer takes of it all.
Profile(v) ==
  [name |-> v.name, flow |-> Flag(v, "xo"),
   drawing |-> [c \in DrawnWith |-> IF c \in DOMAIN v.strings /\ v.strings[c] # Blank
                                    THEN v.strings[c] ELSE WithoutThem[c]]]

Configured(v) == [profile |-> Profile(v), rows |-> v.rows, columns |-> v.columns]
Display(v) == view' = v /\ shown' = Configured(v)     \* configure_terminal_display

-----------------------------------------------------------------------------
NoDescription == [bools |-> [c \in {} |-> FALSE], numbers |-> [c \in {} |-> 0], strings |-> [c \in {} |-> Blank]]
Described(name) == IF name \in DOMAIN Descriptions THEN Descriptions[name] ELSE NoDescription

SetTerminalName(name) ==
  /\ LET fresh == NewCapabilities(name, Described(name), window)
     IN  Display(IF name \in DOMAIN Descriptions THEN fresh ELSE PreserveFailedLookupValues(fresh, view))
  /\ enabled' = (enabled /\ name # "emacs")
  /\ UNCHANGED window

\* el_resize, and the first half of the driver's resize.  The display is given the size as it is.
ResizeDisplay ==
  /\ HasSize(window)
  /\ view' = SetSize(view, window.rows, window.columns)
  /\ shown' = [shown EXCEPT !.rows = window.rows, !.columns = window.columns]
  /\ UNCHANGED <<enabled, window>>

\* Mutant: settc of a string does not configure the display again.
SetStringUnshown(code, value) ==
  /\ view' = RefreshDerivedFlags(
       [view EXCEPT !.strings = IF value = Blank THEN Drop(@, code) ELSE Put(@, code, SevenBytes[value])])
  /\ UNCHANGED shown

\* The driver's own resize, at the start of a read, for a signal or after a suspension.
ResumeResize ==
  /\ shown' = [shown EXCEPT !.rows = view.rows, !.columns = view.columns]
  /\ UNCHANGED <<view, enabled, window>>

\* settc: an empty string takes the capability away.
SetString(code, value) ==
  Display(RefreshDerivedFlags(
    [view EXCEPT !.strings = IF value = Blank THEN Drop(@, code) ELSE Put(@, code, SevenBytes[value])]))

SetFlag(code, value) ==
  Display(RefreshDerivedFlags([view EXCEPT !.bools = Put(@, code, value = Yes)]))

\* The derived flags stay as they were.
SetNumber(code, value) ==
  LET n == Spelled[value]
      written == [view EXCEPT !.numbers = Put(@, code, n),
                              !.bools = IF code \in SizeCodes THEN @ ELSE Put(@, code, n # 0)]
  IN  Display(CASE code = "li" -> SetSize(written, UsualRows(n), view.columns)
                [] code = "co" -> SetSize(written, view.rows, UsualColumns(n))
                [] code \notin SizeCodes -> written)

\* Any other code or value is refused.
SetCapability(code, value) ==
  /\ \/ code \in StringCodes /\ SetString(code, value)
     \/ code \in FlagCodes /\ value \in {Yes, No} /\ SetFlag(code, value)
     \/ code \in NumberCodes /\ value \in DOMAIN Spelled /\ SetNumber(code, value)
  /\ UNCHANGED <<enabled, window>>

SetEditingEnabled(to) == enabled' = to /\ UNCHANGED <<view, shown, window>>

WindowChanges == window' \in WindowSizes /\ UNCHANGED <<view, shown, enabled>>

\* A handle starts with the terminal its environment names.
ViewInit ==
  /\ window \in WindowSizes /\ enabled = TRUE
  /\ \E name \in TerminalNames : view = NewCapabilities(name, Described(name), window)
  /\ shown = Configured(view)

ViewNext ==
  \/ \E name \in TerminalNames : SetTerminalName(name)
  \/ \E code \in StringCodes \cup FlagCodes \cup NumberCodes, value \in CapabilityTexts :
       SetCapability(code, value)
  \/ ResizeDisplay
  \/ ResumeResize
  \/ \E to \in BOOLEAN : SetEditingEnabled(to)
  \/ WindowChanges

ViewSpec == ViewInit /\ [][ViewNext]_viewVars

\* What the application is told of its terminal is what is drawn with: the screen's size
\* is the one EL_GETTC reports, and every capability that was set, taken away or found in
\* a description is the renderer's, whatever was refused or not found in between.  Only
\* a window of one column is reported as having two.
DisplayShowsView ==
  /\ shown.profile = Profile(view) /\ shown.rows = view.rows
  /\ view.columns \in {shown.columns, AtLeast(shown.columns, 2)}
  /\ Number(view, "li") = view.rows /\ Number(view, "co") = view.columns
  /\ shown.rows > 0 /\ shown.columns > 0
=============================================================================
