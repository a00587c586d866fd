---------------------------- MODULE KeyBindings ----------------------------
(***************************************************************************)
(* The keymaps of crates/nshedit/src/editor/line/keymap.rs, and the bind   *)
(* command and the terminal's logical keys that write them                 *)
(* (crates/nshedit-abi/src/adapter/binding.rs).  A key sequence is a       *)
(* sequence of units, a binding the name of what it runs.  Of the built-in *)
(* bindings one of each shape is kept.  A name that is none is refused      *)
(* before all this.  How a sequence is written for bind and listed by it   *)
(* comes last.                                                             *)
(***************************************************************************)
EXTENDS Integers, Sequences, SequencesExt, Functions, FiniteSets, FiniteSetsExt

CONSTANTS
  LogicalKeys,    \* the terminal's logical keys, in the order they are installed
  FallbackOf,     \* the sequences each of them sends on most terminals
  LeadOf,         \* the first unit of its name
  MaxBindingUnits

Modes == {"emacs", "vi insert", "vi command"}
Unassigned == "ed-unassigned"
Empty == [s \in {} |-> Unassigned]

Bound(map, s, binding) == [t \in DOMAIN map \cup {s} |-> IF t = s THEN binding ELSE map[t]]
Without(map, S) == Restrict(map, DOMAIN map \ S)

\* The built-in bindings: in emacs ESC is bound and the start of longer sequences.
DefaultEmacs == Bound(Bound(Bound(Empty, <<"ESC">>, "em-meta-next"), <<"ESC", "b">>, "ed-prev-word"),
                      <<"\t">>, "ed-complete")
DefaultViInsert == Bound(Bound(Empty, <<"ESC">>, "vi-command-mode"), <<"\n">>, "ed-newline")
DefaultViCommand == Bound(Bound(Empty, <<"ESC">>, "em-meta-next"), <<"b">>, "vi-prev-word")
DefaultMaps == [m \in Modes |-> CASE m = "emacs" -> DefaultEmacs
                                  [] m = "vi insert" -> DefaultViInsert
                                  [] m = "vi command" -> DefaultViCommand]

Lookup(map, s) ==
  LET prefix == \E t \in DOMAIN map : t # s /\ IsPrefix(s, t)
  IN IF s \in DOMAIN map THEN [found |-> IF prefix THEN "ambiguous" ELSE "exact", binding |-> map[s]]
     ELSE [found |-> IF prefix THEN "prefix" ELSE "unbound", binding |-> Unassigned]

-----------------------------------------------------------------------------
(* The session: its maps, whether it edits in vi, what each logical key is *)
(* bound to (<<>> is nothing) and the sequence the terminal's description  *)
(* has for it (<<>> when it has none).                                     *)

BindAll(b, mode, S, binding) ==
  [b EXCEPT !.maps[mode] = [s \in DOMAIN @ \cup S |-> IF s \in S THEN binding ELSE @[s]]]

InstallTerminalBindings(b) ==
  LET mode == IF b.vi THEN "vi command" ELSE "emacs"
      install(x, key) ==
        LET S == FallbackOf[key] \cup ({b.sends[key]} \ {<<>>})
        IN IF x.logical[key] = <<>> THEN [x EXCEPT !.maps[mode] = Without(@, S)]
           ELSE BindAll(x, mode, S, x.logical[key][1])
  IN FoldLeft(install, b, LogicalKeys)

\* A meta character that the locale cannot show is bound, any other is an ordinary one.
LocaleMeta(b) ==
  [b EXCEPT !.maps["emacs"] = IF b.showsMeta THEN Without(@, {<<"meta">>})
                              ELSE Bound(@, <<"meta">>, "em-copy-prev-word")]

ResetBindings(b, vi) ==
  LET fresh == [b EXCEPT !.maps = DefaultMaps, !.vi = vi]
  IN InstallTerminalBindings(
       IF vi THEN fresh ELSE LocaleMeta([fresh EXCEPT !.maps["vi command"] = Empty]))

NewSession(sends, showsMeta) ==
  ResetBindings([maps |-> DefaultMaps, vi |-> FALSE, sends |-> sends, showsMeta |-> showsMeta,
                 logical |-> [k \in ToSet(LogicalKeys) |-> <<"ed-" \o k>>]], FALSE)

SetTerminalName(b, sends) == InstallTerminalBindings([b EXCEPT !.sends = sends])

BindingMode(b, alternate) ==
  IF alternate THEN "vi command" ELSE IF b.vi THEN "vi insert" ELSE "emacs"

\* Mutant: only the longer sequences are taken out.
ReplaceLonger(map, s, binding) ==
  Bound(Without(map, {t \in DOMAIN map : t # s /\ IsPrefix(s, t)}), s, binding)

BindReplacingConflicts(map, s, binding) ==
  Bound(Without(map, {t \in DOMAIN map : t # s /\ (IsPrefix(s, t) \/ IsPrefix(t, s))}), s, binding)

\* bind -r: a single unit takes everything that begins with it along.
RemoveBinding(map, s) ==
  Without(map, {t \in DOMAIN map : t = s \/ (Len(s) = 1 /\ IsPrefix(s, t))})

\* A command is [what, alternate, seq, binding, key, sends, vi], as far as it has them.
\* bind -k changes what a logical key is bound to from the next installation on; for a
\* macro it takes the first unit of the key's name out of use.
BindCommand(b, c) ==
  LET mode == BindingMode(b, c.alternate)
  IN CASE c.what = "bind" -> [b EXCEPT !.maps[mode] = BindReplacingConflicts(@, c.seq, c.binding)]
       [] c.what = "remove" -> [b EXCEPT !.maps[mode] = RemoveBinding(@, c.seq)]
       [] c.what = "bind key" -> [b EXCEPT !.logical[c.key] = <<c.binding>>]
       [] c.what = "bind key macro" ->
            [b EXCEPT !.logical[c.key] = <<c.binding>>,
                      !.maps[mode] = BindReplacingConflicts(@, <<LeadOf[c.key]>>, Unassigned)]
       [] c.what = "remove key" -> [b EXCEPT !.logical[c.key] = <<>>]

Do(b, c) ==
  CASE c.what = "reset" -> ResetBindings(b, c.vi)
    [] c.what = "terminal" -> SetTerminalName(b, c.sends)
    [] OTHER -> BindCommand(b, c)

-----------------------------------------------------------------------------
(* What a caller relies on, said of the commands and not of the maps. *)

Comparable(s, t) == IsPrefix(s, t) \/ IsPrefix(t, s)

\* The maps a command writes and the sequences it writes there, for all it says.
ViBefore(commands, k) ==
  LET resets == {j \in 1..(k - 1) : commands[j].what = "reset"}
  IN resets # {} /\ commands[CHOOSE j \in resets : \A i \in resets : i <= j].vi
Mode(commands, k) == BindingMode([vi |-> ViBefore(commands, k)], commands[k].alternate)

Disturbs(commands, j, k) ==
  LET c == commands[j]
      same == Mode(commands, j) = Mode(commands, k)
  IN CASE c.what \in {"reset", "terminal"} -> TRUE
       [] c.what = "bind" -> same /\ Comparable(c.seq, commands[k].seq)
       [] c.what = "remove" -> same /\ IsPrefix(c.seq, commands[k].seq)
       [] c.what = "bind key macro" -> same /\ commands[k].seq[1] = LeadOf[c.key]
       [] OTHER -> FALSE

\* What bind was given is reached by typing it: nothing on the way there is bound, and
\* there is nothing longer to wait for, until a command writes the same map at that
\* sequence or the maps are built anew.
BoundIsFound(session, commands) ==
  LET maps == FoldLeft(Do, session, commands).maps
  IN \A k \in DOMAIN commands :
       commands[k].what = "bind" /\ (\A j \in (k + 1)..Len(commands) : ~Disturbs(commands, j, k))
         => LET map == maps[Mode(commands, k)]
                s == commands[k].seq
            IN /\ Lookup(map, s) = [found |-> "exact", binding |-> commands[k].binding]
               /\ \A i \in 1..(Len(s) - 1) : Lookup(map, SubSeq(s, 1, i)).found = "prefix"

-----------------------------------------------------------------------------
(***************************************************************************)
(* Key sequences as text (adapter/binding/codec.rs).  A character and a    *)
(* unit are code points; a unit below zero is a byte that was not decoded. *)
(***************************************************************************)

Escape == 27
Quote == 34
Plus == 43
Dash == 45
Zero == 48
Question == 63
LargeA == 65
LargeM == 77
LargeU == 85
Backslash == 92
Caret == 94
Delete == 127
Named == [c \in {97, 98, 116, 110, 118, 102, 114, 101} |->    \* a b t n v f r e
           CASE c = 97 -> 7 [] c = 98 -> 8 [] c = 116 -> 9 [] c = 110 -> 10 [] c = 118 -> 11
             [] c = 102 -> 12 [] c = 114 -> 13 [] c = 101 -> Escape]
NoCharacter == -1

OctalValue(c) == IF c \in Zero..(Zero + 7) THEN c - Zero ELSE NoCharacter
HexValue(c) ==
  CASE c \in Zero..(Zero + 9) -> c - Zero
    [] c \in LargeA..(LargeA + 5) -> c - LargeA + 10
    [] OTHER -> NoCharacter
IsScalar(u) == u \in 0..1114111 /\ u \notin 55296..57343
OctalValues(input) == [k \in DOMAIN input |-> OctalValue(input[k])]
HexValues(input) == [k \in DOMAIN input |-> HexValue(input[k])]
InRadix(radix, digits) == FoldLeft(LAMBDA v, d : radix * v + d, 0, digits)

\* As many of the values from k on as are those of digits, but no more than limit.
DigitsFrom(values, k, limit) ==
  LET runs == {n \in 0..limit : k + n - 1 <= Len(values) /\ \A j \in k..(k + n - 1) : values[j] # NoCharacter}
  IN  SubSeq(values, k, k + Max(runs) - 1)

BadEscape == [is |-> NoCharacter, takes |-> 1]

\* Mutant: an octal escape has two digits.
EscapedShort(input, k) ==
  LET octal == DigitsFrom(OctalValues(input), k + 1, 2)
  IN  IF octal # <<>> THEN [is |-> InRadix(8, octal), takes |-> 1 + Len(octal)] ELSE BadEscape

\* The escape that the backslash at k begins.
Escaped(input, k) ==
  LET c == IF k < Len(input) THEN input[k + 1] ELSE NoCharacter
      octal == DigitsFrom(OctalValues(input), k + 1, 3)
      hex == DigitsFrom(HexValues(input), k + 3, 5)
      plus == k + 2 <= Len(input) /\ input[k + 2] = Plus
  IN CASE c = NoCharacter -> BadEscape
       [] c \in DOMAIN Named -> [is |-> Named[c], takes |-> 2]
       [] octal # <<>> ->
            IF InRadix(8, octal) > 255 THEN BadEscape
            ELSE [is |-> InRadix(8, octal), takes |-> 1 + Len(octal)]
       [] c = LargeU ->
            IF ~plus \/ Len(hex) < 4 \/ InRadix(16, hex) > 1114111 THEN BadEscape
            ELSE [is |-> InRadix(16, hex), takes |-> 3 + Len(hex)]
       [] OTHER -> [is |-> c, takes |-> 2]

\* The unit written at k: M- is the escape character before what follows it.
UnitAt(input, k) ==
  LET at(j) == IF j <= Len(input) THEN input[j] ELSE NoCharacter
      next == at(k + 1)
  IN CASE at(k) = LargeM /\ next = Dash /\ at(k + 2) # NoCharacter -> [is |-> Escape, takes |-> 2]
       [] at(k) = Caret ->
            IF next = NoCharacter THEN BadEscape
            ELSE [is |-> IF next = Question THEN Delete ELSE (next % 32) + 128 * ((next \div 128) % 2),
                  takes |-> 2]
       [] at(k) = Backslash -> Escaped(input, k)
       [] OTHER -> [is |-> at(k), takes |-> 1]

\* The text that is written, or that there is none.
DecodeKeySequence(input) ==
  LET read(s, k) ==
        LET unit == UnitAt(input, k)
        IN IF k # s.next \/ ~s.good THEN s
           ELSE [next |-> k + unit.takes, text |-> Append(s.text, unit.is),
                 good |-> Len(s.text) < MaxBindingUnits /\ unit # BadEscape]
      all == FoldLeft(read, [next |-> 1, text |-> <<>>, good |-> TRUE], [k \in DOMAIN input |-> k])
  IN  [good |-> all.good, text |-> IF all.good THEN all.text ELSE <<>>]

Hexadecimal(n) ==
  LET least == IF n < 16 ^ 5 THEN 5 ELSE Max({d \in 6..8 : n >= 16 ^ (d - 1)})
      digit(d) == (n \div 16 ^ (least - d)) % 16
  IN  [d \in 1..least |-> IF digit(d) < 10 THEN Zero + digit(d) ELSE LargeA + digit(d) - 10]

\* What is no character is listed as a \U+ escape.
ListedByNumber(unit) == unit > 31 /\ ~IsScalar(unit)

Visual(unit, quoted) ==
  CASE unit = Delete -> <<Caret, Question>>
    [] unit \in 0..31 -> <<Caret, unit + 64>>
    [] unit = Quote /\ quoted -> <<Backslash, Quote>>
    [] unit = Backslash -> <<Backslash, Backslash>>
    [] unit < 0 -> <<Backslash, Zero + ((-unit) \div 64), Zero + (((-unit) \div 8) % 8), Zero + ((-unit) % 8)>>
    [] ListedByNumber(unit) -> <<Backslash, LargeU, Plus>> \o Hexadecimal(unit)
    [] OTHER -> <<unit>>
VisualText(text, quoted) == FlattenSeq([k \in DOMAIN text |-> Visual(text[k], quoted)])

\* What is listed as something that means another thing to bind.
ListedAmbiguously(text) ==
  \E k \in DOMAIN text : text[k] = Caret \/ (k + 2 <= Len(text) /\ text[k] = LargeM /\ text[k + 1] = Dash)

\* A sequence that bind lists can be given to bind again, between quotes or not; a byte
\* that was not decoded becomes the character of its value.  A caret and an M before a
\* dash do not come back; what is longer than a binding may be is refused.  Of \U+
\* escapes nothing is said here: docs/errata.md (ERR-input-37) has them take the character
\* behind them along, and the code keeps it.
ListedReadsBack(text) ==
  ~ListedAmbiguously(text) /\ (\A k \in DOMAIN text : ~ListedByNumber(text[k])) =>
    \A quoted \in BOOLEAN :
      DecodeKeySequence(VisualText(text, quoted)) =
        IF Len(text) > MaxBindingUnits THEN [good |-> FALSE, text |-> <<>>]
        ELSE [good |-> TRUE, text |-> [k \in DOMAIN text |-> IF text[k] < 0 THEN -text[k] ELSE text[k]]]
=============================================================================
