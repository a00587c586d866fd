-------------------------- MODULE ParameterStrings --------------------------
(***************************************************************************)
(* expand of crates/nshterm/src/parm.rs: a parameterized capability of     *)
(* terminfo(5) is a program for a stack machine, run character by          *)
(* character in one pass; a branch not taken is skipped by counting the    *)
(* conditionals in it.  Capabilities are sequences of characters.  Strings *)
(* as parameters are left out.  The printf conversions of a number come    *)
(* first: the specification `%[flags][width][.precision]` read byte by     *)
(* byte, and a number put out as it asks.                                  *)
(***************************************************************************)
EXTENDS Integers, Sequences, SequencesExt, FiniteSets, FiniteSetsExt, Functions, TLC

CONSTANTS Half,         \* half of the range of an i32
          MaxFormat     \* MAX_FORMAT_VALUE

Numerals == <<"0", "1", "2", "3", "4", "5", "6", "7", "8", "9", "a", "b", "c", "d", "e", "f">>
Capitals == <<"0", "1", "2", "3", "4", "5", "6", "7", "8", "9", "A", "B", "C", "D", "E", "F">>
DigitChars == SubSeq(Numerals, 1, 10)
DigitOf(c) == (CHOOSE d \in 1..10 : DigitChars[d] = c) - 1
IsDigit(c) == c \in ToSet(DigitChars)

Magnitude(n) == IF n < 0 THEN -n ELSE n

-----------------------------------------------------------------------------
(* Reading a specification: its flags, and what the next byte may belong to. *)

NoPrecision == -1
NoFlags == [marks |-> {}, width |-> 0, precision |-> NoPrecision, part |-> "flags", fits |-> TRUE]

WithDigit(value, c) == 10 * value + DigitOf(c)

ReadFormatByte(flags, c) ==
  CASE flags.part = "flags" /\ c = ":" -> flags
    [] flags.part = "flags" /\ c \in {"#", "-", "+", " ", "0"} -> [flags EXCEPT !.marks = @ \cup {c}]
    [] flags.part = "flags" /\ IsDigit(c) /\ c # "0" ->
         [flags EXCEPT !.width = DigitOf(c), !.part = "width"]
    [] flags.part = "width" /\ IsDigit(c) ->
         [flags EXCEPT !.width = WithDigit(@, c), !.fits = WithDigit(flags.width, c) <= MaxFormat]
    [] flags.part \in {"flags", "width"} /\ c = "." ->
         [flags EXCEPT !.precision = 0, !.part = "precision"]
    [] flags.part = "precision" /\ IsDigit(c) ->
         [flags EXCEPT !.precision = WithDigit(@, c), !.fits = WithDigit(flags.precision, c) <= MaxFormat]
    [] OTHER -> [flags EXCEPT !.fits = FALSE]

-----------------------------------------------------------------------------
(* Putting out a number. *)

Times(c, n) == [k \in 1..Max({n, 0}) |-> c]

Base(op) == CASE op = "d" -> 10 [] op = "o" -> 8 [] OTHER -> 16

\* Octal and hexadecimal show the bits of the number.
Shown(n, op) == IF op = "d" THEN Magnitude(n) ELSE n % (2 * Half)

Digits(value, op) ==
  LET count == CHOOSE k \in 1..11 : value < Base(op) ^ k /\ (k = 1 \/ value >= Base(op) ^ (k - 1))
      chars == IF op = "X" THEN Capitals ELSE Numerals
  IN  [k \in 1..count |-> chars[((value \div Base(op) ^ (count - k)) % Base(op)) + 1]]

\* The digits a precision asks for; of zero, none when it asks for none.
Precise(n, op, precision) ==
  LET digits == Digits(Shown(n, op), op)
  IN  IF n = 0 /\ precision = 0 THEN <<>> ELSE Times("0", precision - Len(digits)) \o digits

\* The sign of a decimal number, or the base of a hexadecimal one.
Prefix(n, op, marks) ==
  CASE op = "d" -> (CASE n < 0 -> <<"-">>
                      [] n >= 0 /\ "+" \in marks -> <<"+">>
                      [] n >= 0 /\ "+" \notin marks /\ " " \in marks -> <<" ">>
                      [] OTHER -> <<>>)
    [] op \in {"x", "X"} /\ "#" \in marks /\ n # 0 -> <<"0", op>>
    [] OTHER -> <<>>

\* The alternate octal form begins with a zero.
Alternate(digits, op, marks) ==
  IF op = "o" /\ "#" \in marks /\ (digits = <<>> \/ digits[1] # "0") THEN <<"0">> \o digits ELSE digits

\* Mutant: the zeros go in front of the sign.
PadInFront(prefix, digits, flags) ==
  LET missing == flags.width - Len(prefix \o digits)
  IN  CASE "-" \in flags.marks -> prefix \o digits \o Times(" ", missing)
        [] "-" \notin flags.marks /\ "0" \in flags.marks /\ flags.precision = NoPrecision ->
             Times("0", missing) \o prefix \o digits
        [] OTHER -> Times(" ", missing) \o prefix \o digits

\* Up to the width: blanks behind, zeros behind the prefix, or blanks in front.
Pad(prefix, digits, flags) ==
  LET missing == flags.width - Len(prefix \o digits)
  IN  CASE "-" \in flags.marks -> prefix \o digits \o Times(" ", missing)
        [] "-" \notin flags.marks /\ "0" \in flags.marks /\ flags.precision = NoPrecision ->
             prefix \o Times("0", missing) \o digits
        [] OTHER -> Times(" ", missing) \o prefix \o digits

Format(n, op, flags) ==
  Pad(Prefix(n, op, flags.marks),
      Alternate(Precise(n, op, flags.precision), op, flags.marks), flags)

-----------------------------------------------------------------------------
(***************************************************************************)
(* What printf(3) promises of what is put out, by taking it apart: blanks  *)
(* around a sign or a base and digits.                                     *)
(***************************************************************************)

Blanks(out) == {k \in DOMAIN out : out[k] = " "}
Behind(out) == {k \in DOMAIN out : \A j \in DOMAIN out : j >= k => out[j] = " "}
Ahead(out) == {k \in DOMAIN out : \A j \in DOMAIN out : j <= k => out[j] = " "}
ValueOf(digits, op) ==
  FoldLeft(LAMBDA v, c : Base(op) * v + (CHOOSE d \in 1..16 : c \in {Numerals[d], Capitals[d]}) - 1,
           0, digits)

PrintedAsAsked(out, n, op, flags) ==
  LET core == SelectSeq(out, LAMBDA c : c # " ")
      signed == core # <<>> /\ core[1] \in {"+", "-"}
      based == op \in {"x", "X"} /\ Len(core) > 1 /\ core[2] = op
      digits == SubSeq(core, CASE signed -> 2 [] based -> 3 [] OTHER -> 1, Len(core))
      blankSign == op = "d" /\ n >= 0 /\ " " \in flags.marks /\ "+" \notin flags.marks
      least == Len(Digits(Shown(n, op), op))
      filled == Len(out) = flags.width
      toLeft == "-" \in flags.marks
      zeros == "0" \in flags.marks /\ ~toLeft /\ flags.precision = NoPrecision
  IN /\ ToSet(digits) \subseteq ToSet(Numerals) \cup ToSet(Capitals)
     /\ ValueOf(digits, op) = Shown(n, op)
     /\ signed <=> op = "d" /\ (n < 0 \/ "+" \in flags.marks)
     /\ signed => core[1] = IF n < 0 THEN "-" ELSE "+"
     /\ based <=> op \in {"x", "X"} /\ "#" \in flags.marks /\ n # 0
     /\ op = "o" /\ "#" \in flags.marks => digits # <<>> /\ digits[1] = "0"
     /\ Len(digits) >= flags.precision
     /\ digits = <<>> => n = 0 /\ flags.precision = 0
     /\ Len(out) >= flags.width
     /\ Blanks(out) = Ahead(out) \cup Behind(out)
     /\ blankSign => 1 \in Blanks(out)
     /\ ~filled => Cardinality(Blanks(out)) = IF blankSign THEN 1 ELSE 0
     /\ core # <<>> /\ toLeft => Ahead(out) = IF blankSign THEN {1} ELSE {}
     /\ core # <<>> /\ ~toLeft => Behind(out) = {}
     /\ zeros => Ahead(out) = IF blankSign THEN {1} ELSE {}
     /\ Len(digits) > least /\ Len(digits) > flags.precision =>
          (zeros /\ filled) \/ (op = "o" /\ "#" \in flags.marks)

-----------------------------------------------------------------------------
(* The operators of the stack machine. *)

LOCAL Wrap(n) == ((n + Half) % (2 * Half)) - Half

Variables == {"a", "A"}
Code(c) == IF c = "?" THEN 3 ELSE 2     \* the code of a character

\* C's division: towards zero.
Quotient(x, y) == (IF (x < 0) = (y < 0) THEN 1 ELSE -1) * (Magnitude(x) \div Magnitude(y))
Remainder(x, y) == x - y * Quotient(x, y)

\* The bits of a number in two's complement that are set, and the number of such bits.
Bits(x) == {p \in {2 ^ k : k \in 0..10} : p < 2 * Half /\ ((x % (2 * Half)) \div p) % 2 = 1}
FromBits(ps) == Wrap(SumSet(ps))

BinaryOp(op, x, y) ==
  CASE op = "+" -> Wrap(x + y)
    [] op = "-" -> Wrap(x - y)
    [] op = "*" -> Wrap(x * y)
    [] op = "/" -> IF y = 0 THEN 0 ELSE Wrap(Quotient(x, y))
    [] op = "m" -> IF y = 0 THEN 0 ELSE Remainder(x, y)
    [] op = "|" -> FromBits(Bits(x) \cup Bits(y))
    [] op = "&" -> FromBits(Bits(x) \cap Bits(y))
    [] op = "^" -> FromBits((Bits(x) \cup Bits(y)) \ (Bits(x) \cap Bits(y)))
Arithmetic == {"+", "-", "*", "/", "m", "|", "&", "^"}

Truth(b) == IF b THEN 1 ELSE 0
Comparison(op, x, y) ==
  Truth(CASE op = "=" -> x = y
          [] op = ">" -> x > y
          [] op = "<" -> x < y
          [] op = "A" -> x > 0 /\ y > 0
          [] op = "O" -> x > 0 \/ y > 0)
Comparisons == {"=", ">", "<", "A", "O"}

UnaryOp(op, x) == IF op = "!" THEN Truth(x <= 0) ELSE Wrap(-x - 1)

-----------------------------------------------------------------------------
(* The machine.  state is "nothing" or what the next character is read as. *)

NewMachine(params) ==
  [state |-> "nothing", level |-> 0, number |-> 0, stack |-> <<>>, params |-> params,
   vars |-> [v \in Variables |-> 0], out |-> <<>>, flags |-> NoFlags, error |-> "none"]

To(m, state) == [m EXCEPT !.state = state]
Idle(m) == To(m, "nothing")
Fail(m, error) == [m EXCEPT !.error = error]
Put(m, c) == Idle([m EXCEPT !.out = Append(@, c)])
PushNumber(m, n) == [m EXCEPT !.stack = Append(@, n)]
Pop(m, k) == [m EXCEPT !.stack = SubSeq(@, 1, Len(@) - k)]
Top(m, k) == m.stack[Len(m.stack) - k]

\* What wants k operands takes them off the stack, and fails without them.
With(m, k, then) == IF Len(m.stack) < k THEN Fail(m, "stack underflow") ELSE then

Byte(n) == IF n = 0 THEN 128 ELSE n % 256     \* %c never puts out a NUL

\* A number is printed, or the specification of how goes on.
Conversions == {"d", "o", "x", "X", "s"}
Printed(m, op) ==
  With(m, 1, IF op = "s" THEN Fail(m, "type mismatch")
             ELSE Idle([Pop(m, 1) EXCEPT !.out = @ \o Format(Top(m, 0), op, m.flags)]))
FormatByte(m, c) ==
  IF c \in Conversions THEN Printed(m, c)
  ELSE LET flags == ReadFormatByte(m.flags, c)
       IN  IF flags.fits THEN [To(m, "format") EXCEPT !.flags = flags] ELSE Fail(m, "unrecognized")

\* The character behind a percent sign.
Operation(m, c) ==
  CASE c = "%" -> Put(m, c)
    [] c = "c" -> With(m, 1, Put(Pop(m, 1), Byte(Top(m, 0))))
    [] c = "l" -> With(m, 1, Fail(m, "type mismatch"))
    [] c \in Conversions \cup {":", "#", " ", "."} \cup ToSet(DigitChars) ->
         FormatByte([m EXCEPT !.flags = NoFlags], c)
    [] c = "p" -> To(m, "param")
    [] c = "P" -> To(m, "set")
    [] c = "g" -> To(m, "get")
    [] c = "'" -> To(m, "char")
    [] c = "{" -> [To(m, "int") EXCEPT !.number = 0]
    [] c \in Arithmetic ->
         With(m, 2, Idle(PushNumber(Pop(m, 2), BinaryOp(c, Top(m, 1), Top(m, 0)))))
    [] c \in Comparisons ->
         With(m, 2, Idle(PushNumber(Pop(m, 2), Comparison(c, Top(m, 1), Top(m, 0)))))
    [] c \in {"!", "~"} -> With(m, 1, Idle(PushNumber(Pop(m, 1), UnaryOp(c, Top(m, 0)))))
    [] c = "i" -> Idle([m EXCEPT !.params[1] = Wrap(@ + 1), !.params[2] = Wrap(@ + 1)])
    [] c \in {"?", ";"} -> Idle(m)
    [] c = "t" -> With(m, 1, IF Top(m, 0) = 0 THEN [To(Pop(m, 1), "else") EXCEPT !.level = 0]
                             ELSE Idle(Pop(m, 1)))
    [] c = "e" -> [To(m, "end") EXCEPT !.level = 0]
    [] OTHER -> Fail(m, "unrecognized")

Operand(m, c) ==
  CASE m.state = "param" ->
         IF c \in {"1", "2"} THEN Idle(PushNumber(m, m.params[DigitOf(c)])) ELSE Fail(m, "parameter")
    [] m.state = "set" ->
         IF c \notin Variables THEN Fail(m, "variable")
         ELSE With(m, 1, Idle([Pop(m, 1) EXCEPT !.vars[c] = Top(m, 0)]))
    [] m.state = "get" -> IF c \in Variables THEN Idle(PushNumber(m, m.vars[c])) ELSE Fail(m, "variable")
    [] m.state = "char" -> To(PushNumber(m, Code(c)), "close")
    [] m.state = "close" -> IF c = "'" THEN Idle(m) ELSE Fail(m, "character")
    [] m.state = "int" ->
         CASE c = "}" -> Idle(PushNumber(m, m.number))
           [] IsDigit(c) -> IF 10 * m.number + DigitOf(c) >= Half THEN Fail(m, "overflow")
                            ELSE [m EXCEPT !.number = 10 * @ + DigitOf(c)]
           [] OTHER -> Fail(m, "integer")

\* Mutant: the else of a conditional inside the branch skipped ends the skipping.
SkipToAnyElse(m, c) ==
  CASE m.state \in {"else", "end"} -> IF c = "%" THEN To(m, m.state \o "%") ELSE m
    [] m.state = "else%" /\ c = "e" -> Idle(m)
    [] c = ";" /\ m.level = 0 -> Idle(m)
    [] OTHER -> [To(m, IF m.state = "else%" THEN "else" ELSE "end") EXCEPT
                   !.level = CASE c = ";" -> @ - 1 [] c = "?" -> @ + 1 [] OTHER -> @]

\* Looking for the %e or %; of the conditional whose branch is skipped.
Skip(m, c) ==
  CASE m.state \in {"else", "end"} -> IF c = "%" THEN To(m, m.state \o "%") ELSE m
    [] m.level = 0 /\ (c = ";" \/ (m.state = "else%" /\ c = "e")) -> Idle(m)
    [] OTHER -> [To(m, IF m.state = "else%" THEN "else" ELSE "end") EXCEPT
                   !.level = CASE c = ";" -> @ - 1 [] c = "?" -> @ + 1 [] OTHER -> @]

Step(m, c) ==
  CASE m.error # "none" -> m
    [] m.error = "none" /\ m.state = "nothing" -> IF c = "%" THEN To(m, "percent") ELSE Put(m, c)
    [] m.error = "none" /\ m.state = "percent" -> Operation(m, c)
    [] m.error = "none" /\ m.state \in {"else", "else%", "end", "end%"} -> Skip(m, c)
    [] m.error = "none" /\ m.state = "format" -> FormatByte(m, c)
    [] OTHER -> Operand(m, c)

Expand(cap, params) == FoldLeft(Step, NewMachine(params), cap)

-----------------------------------------------------------------------------
(***************************************************************************)
(* The older strings of termcap(5), as echotc sends them: their operations *)
(* take a row and a column in turn, and a string that has none of          *)
(* terminfo's parameters is expanded as one, and then as a program without *)
(* parameters.  Behind it all come the delays, realised as padding.        *)
(***************************************************************************)

Ascii == [c \in {" ", "!", "%", "+", "d"} |->
           CASE c = " " -> 32 [] c = "!" -> 33 [] c = "%" -> 37 [] c = "+" -> 43 [] c = "d" -> 100]
Chr(n) == LET named == {c \in DOMAIN Ascii : Ascii[c] = n % 256}
          IN  IF named # {} THEN CHOOSE c \in named : TRUE ELSE "byte " \o ToString(n % 256)

\* Mutant: the second character of a pair may begin another one.
CountEveryPair(cap) ==
  Cardinality({k \in 1..(Len(cap) - 1) : cap[k] = "%" /\ cap[k + 1] \in {"d", "2", "3", ".", "+"}})

RequiredParameters(cap) ==
  LET at(k) == IF k <= Len(cap) THEN cap[k] ELSE "none"
      step(s, k) ==
        CASE k < s.next -> s
          [] k >= s.next /\ (at(k) # "%" \/ k = Len(cap)) -> [s EXCEPT !.next = k + 1]
          [] OTHER ->
               CASE at(k + 1) = "p" /\ IsDigit(at(k + 2)) ->
                      [s EXCEPT !.named = Max({@, DigitOf(at(k + 2))}), !.next = k + 3]
                 [] at(k + 1) \in {"d", "2", "3", ".", "+"} ->
                      [s EXCEPT !.taken = @ + 1, !.next = k + IF at(k + 1) = "+" THEN 3 ELSE 2]
                 [] OTHER -> [s EXCEPT !.next = k + 2]
      all == FoldLeft(step, [named |-> 0, taken |-> 0, next |-> 1], [k \in DOMAIN cap |-> k])
  IN  IF all.named = 0 THEN all.taken ELSE all.named

\* m.held is what is read of an operation; m.taken counts the values used up.
TermcapStep(m, c) ==
  LET at == Min({m.taken + 1, 2})
      value == m.values[at]
      say(text) == [m EXCEPT !.held = <<>>, !.out = @ \o text]
      take(text) == [say(text) EXCEPT !.taken = @ + 1]
      become(n) == [say(<<>>) EXCEPT !.values[at] = Wrap(n)]
  IN CASE m.held = <<>> -> IF c = "%" THEN [m EXCEPT !.held = <<c>>] ELSE say(<<c>>)
       [] m.held = <<"%">> ->
            CASE c = "%" -> say(<<c>>)
              [] c = "d" -> take(Format(value, "d", NoFlags))
              [] c \in {"2", "3"} ->
                   take(Format(value, "d", [NoFlags EXCEPT !.marks = {"0"}, !.width = DigitOf(c)]))
              [] c = "." -> take(<<Chr(value)>>)
              [] c \in {"+", ">"} -> [m EXCEPT !.held = Append(@, c)]
              [] c = "i" -> [say(<<>>) EXCEPT !.values = [k \in 1..2 |-> Wrap(@[k] + 1)]]
              [] c = "r" -> [say(<<>>) EXCEPT !.values = Reverse(@)]
              [] c = "n" -> [say(<<>>) EXCEPT !.values = [k \in 1..2 |-> BinaryOp("^", @[k], 96)]]
              [] c = "B" -> become(16 * Quotient(value, 10) + Remainder(value, 10))
              [] c = "D" -> become(value - 2 * Remainder(value, 16))
              [] OTHER -> say(<<"%", c>>)
       [] m.held = <<"%", "+">> -> take(<<Chr(value + Ascii[c])>>)
       [] m.held = <<"%", ">">> -> [m EXCEPT !.held = Append(@, c)]
       [] OTHER -> IF value > Ascii[m.held[3]] THEN become(value + Ascii[c]) ELSE say(<<>>)

ExpandTermcapSequence(cap, column, row) ==
  LET m == FoldLeft(TermcapStep, [values |-> <<row, column>>, taken |-> 0, held |-> <<>>, out |-> <<>>], cap)
  IN  m.out \o m.held

\* A delay is a number of milliseconds with at most one decimal, for each line
\* affected, or even where the line controls the flow.
NoDelay == [tenths |-> 0, marks |-> {"none"}]
ParseDelay(body) ==
  LET whole == Max({k \in 0..Len(body) : \A j \in 1..k : IsDigit(body[j])})
      dotted == whole < Len(body) /\ body[whole + 1] = "."
      tenth == dotted /\ whole + 2 <= Len(body) /\ IsDigit(body[whole + 2])
      marks == SubSeq(body, whole + (IF dotted THEN 3 ELSE 1), Len(body))
  IN IF whole = 0 \/ dotted # tenth \/ ~(ToSet(marks) \subseteq {"*", "/"}) \/ ~IsInjective(marks)
     THEN NoDelay
     ELSE [tenths |-> 10 * FoldLeft(WithDigit, 0, SubSeq(body, 1, whole))
                        + (IF tenth THEN DigitOf(body[whole + 2]) ELSE 0),
           marks |-> ToSet(marks)]

\* line is [rate, pad, flow], in bits per second.
Padding(delay, line, lines) ==
  IF line.flow /\ "/" \notin delay.marks THEN <<>>
  ELSE Times(line.pad, ((delay.tenths * (IF "*" \in delay.marks THEN lines ELSE 1)) * line.rate) \div 100000)

AppendPadded(bytes, line, lines) ==
  LET step(s, k) ==
        LET closes == {j \in (k + 2)..Len(bytes) : bytes[j] = ">"}
            delay == ParseDelay(SubSeq(bytes, k + 2, Min(closes) - 1))
        IN CASE k < s.next -> s
             [] k >= s.next /\ (k = Len(bytes) \/ bytes[k] # "$" \/ bytes[k + 1] # "<" \/ closes = {}) ->
                  [out |-> Append(s.out, bytes[k]), next |-> k + 1]
             [] OTHER -> [out |-> s.out \o (IF delay = NoDelay THEN SubSeq(bytes, k, Min(closes))
                                             ELSE Padding(delay, line, lines)),
                          next |-> Min(closes) + 1]
  IN FoldLeft(step, [out |-> <<>>, next |-> 1], [k \in DOMAIN bytes |-> k]).out

\* echotc.  A word that is empty, and one that is no number, are below zero.
EmptyWord == -2
BadWord == -1
RefusedEcho == [sent |-> FALSE, out |-> <<>>]
EchoTerminalCapability(cap, words, line) ==
  LET needed == RequiredParameters(cap)
      column == IF needed >= 2 THEN words[1] ELSE 0
      row == IF needed = 0 THEN 0 ELSE words[Min({needed, 2})]
      programmed == \E k \in 1..(Len(cap) - 1) : cap[k] = "%" /\ cap[k + 1] = "p"
      m == IF programmed THEN Expand(cap, <<row, column>>)
           ELSE Expand(ExpandTermcapSequence(cap, column, row), <<0, 0>>)
      extra == Len(words) > needed /\ words[needed + 1] # EmptyWord
  IN IF cap = <<>> \/ extra \/ Len(words) < needed \/ \E k \in 1..needed : words[k] < 0 THEN RefusedEcho
     ELSE IF m.error # "none" THEN RefusedEcho
     ELSE [sent |-> TRUE, out |-> AppendPadded(m.out, line, IF needed >= 2 THEN row ELSE 1)]

-----------------------------------------------------------------------------
(***************************************************************************)
(* The language by its structure.  An expression is <<op, operands...>>, a *)
(* statement puts out text or a number, keeps a number in a variable,      *)
(* counts the parameters from one, or chooses among alternatives, pairs of *)
(* a condition and statements, the last of which may have no condition.    *)
(***************************************************************************)

RECURSIVE WrittenExpr(_)
WrittenExpr(e) ==
  CASE e[1] = "param" -> <<"%", "p", DigitChars[e[2] + 1]>>
    [] e[1] = "const" -> <<"%", "{">> \o <<DigitChars[e[2] + 1], "}">>
    [] e[1] = "char" -> <<"%", "'", e[2], "'">>
    [] e[1] = "var" -> <<"%", "g", e[2]>>
    [] e[1] \in {"!", "~"} -> WrittenExpr(e[2]) \o <<"%", e[1]>>
    [] OTHER -> WrittenExpr(e[2]) \o WrittenExpr(e[3]) \o <<"%", e[1]>>

RECURSIVE Written(_)
WrittenStatement(s) ==
  CASE s[1] = "text" -> s[2]
    [] s[1] = "percent" -> <<"%", "%">>
    [] s[1] = "put" -> WrittenExpr(s[2]) \o <<"%", "d">>
    [] s[1] = "set" -> WrittenExpr(s[3]) \o <<"%", "P", s[2]>>
    [] s[1] = "one-based" -> <<"%", "i">>
    [] s[1] = "if" ->
         LET branch(k) ==
               (IF k > 1 THEN <<"%", "e">> ELSE <<>>)
               \o (IF s[2][k][1] = <<"always">> THEN <<>> ELSE WrittenExpr(s[2][k][1]) \o <<"%", "t">>)
               \o Written(s[2][k][2])
         IN <<"%", "?">> \o FlattenSeq([k \in DOMAIN s[2] |-> branch(k)]) \o <<"%", ";">>
Written(program) == FlattenSeq([k \in DOMAIN program |-> WrittenStatement(program[k])])

RECURSIVE Value(_, _)
Value(e, env) ==
  CASE e[1] = "param" -> env.params[e[2]]
    [] e[1] = "const" -> e[2]
    [] e[1] = "char" -> Code(e[2])
    [] e[1] = "var" -> env.vars[e[2]]
    [] e[1] \in {"!", "~"} -> UnaryOp(e[1], Value(e[2], env))
    [] e[1] \in Comparisons -> Comparison(e[1], Value(e[2], env), Value(e[3], env))
    [] OTHER -> BinaryOp(e[1], Value(e[2], env), Value(e[3], env))

RECURSIVE Meaning(_, _)
StatementMeaning(s, env) ==
  CASE s[1] = "text" -> [env EXCEPT !.out = @ \o s[2]]
    [] s[1] = "percent" -> [env EXCEPT !.out = Append(@, "%")]
    [] s[1] = "put" -> [env EXCEPT !.out = @ \o Format(Value(s[2], env), "d", NoFlags)]
    [] s[1] = "set" -> [env EXCEPT !.vars[s[2]] = Value(s[3], env)]
    [] s[1] = "one-based" -> [env EXCEPT !.params = [k \in DOMAIN @ |-> Wrap(@[k] + 1)]]
    [] s[1] = "if" ->
         LET taken == {k \in DOMAIN s[2] : s[2][k][1] = <<"always">> \/ Value(s[2][k][1], env) # 0}
         IN IF taken = {} THEN env ELSE Meaning(s[2][Min(taken)][2], env)
Meaning(program, env) == FoldLeft(LAMBDA x, s : StatementMeaning(s, x), env, program)

\* Run in one pass, a capability puts out what it means.
ExpandsAsStructured(program, params) ==
  LET m == Expand(Written(program), params)
      meant == Meaning(program, [params |-> params, vars |-> [v \in Variables |-> 0], out |-> <<>>])
  IN /\ m.error = "none" /\ m.state = "nothing" /\ m.stack = <<>>
     /\ m.out = meant.out /\ m.vars = meant.vars /\ m.params = meant.params

\* A specification as terminfo(5) writes it: a colon keeps `-` and `+` from
\* being operators.
Specification(flags) ==
  (IF flags.marks \cap {"-", "+"} # {} THEN <<":">> ELSE <<>>)
  \o SetToSeq(flags.marks)
  \o (IF flags.width = 0 THEN <<>> ELSE Digits(flags.width, "d"))
  \o (IF flags.precision = NoPrecision THEN <<>> ELSE <<".">> \o Digits(flags.precision, "d"))

\* A number is printed as its specification asks, or the specification refused.
NumberIsPrinted(n, op, flags) ==
  LET m == Expand(<<"%", "p", "1", "%">> \o Specification(flags) \o <<op>>, <<n, 0>>)
  IN  IF flags.width > MaxFormat \/ flags.precision > MaxFormat THEN m.error = "unrecognized"
      ELSE m.error = "none" /\ m.state = "nothing" /\ PrintedAsAsked(m.out, n, op, flags)

-----------------------------------------------------------------------------
(* Termcap strings by their structure: text, conversions of the next value, *)
(* changes of the values, and delays.                                       *)

Converts == {"number", "two", "three", "char", "plus"}
WrittenItem(s) ==
  CASE s[1] = "text" -> s[2]
    [] s[1] = "percent" -> <<"%", "%">>
    [] s[1] \in {"plus", "above"} -> <<"%", IF s[1] = "plus" THEN "+" ELSE ">">> \o s[2]
    [] s[1] = "delay" -> <<"$", "<">> \o Digits(s[2].tenths \div 10, "d")
         \o (IF s[2].tenths % 10 = 0 THEN <<>> ELSE <<".">> \o Digits(s[2].tenths % 10, "d"))
         \o SetToSeq(s[2].marks) \o <<">">>
    [] OTHER -> <<"%", CASE s[1] = "number" -> "d" [] s[1] = "two" -> "2" [] s[1] = "three" -> "3"
                         [] s[1] = "char" -> "." [] s[1] = "one-based" -> "i" [] s[1] = "swap" -> "r"
                         [] s[1] = "toggle" -> "n" [] s[1] = "decimal" -> "B" [] s[1] = "reverse" -> "D">>
WrittenTermcap(program) == FlattenSeq([k \in DOMAIN program |-> WrittenItem(program[k])])

\* What the item at k does to the values, of which the next one is at place at.
Changed(s, values, at) ==
  LET v == values[at]
  IN CASE s[1] = "one-based" -> <<values[1] + 1, values[2] + 1>>
       [] s[1] = "swap" -> <<values[2], values[1]>>
       [] s[1] = "toggle" -> <<BinaryOp("^", values[1], 96), BinaryOp("^", values[2], 96)>>
       [] s[1] = "decimal" -> [values EXCEPT ![at] = 16 * Quotient(v, 10) + Remainder(v, 10)]
       [] s[1] = "reverse" -> [values EXCEPT ![at] = v - 2 * Remainder(v, 16)]
       [] s[1] = "above" -> IF v > Ascii[s[2][1]] THEN [values EXCEPT ![at] = v + Ascii[s[2][2]]] ELSE values
       [] OTHER -> values

TermcapMeaning(program, words, line) ==
  LET needed == Cardinality({k \in DOMAIN program : program[k][1] \in Converts})
      row == IF needed = 0 THEN 0 ELSE words[Min({needed, 2})]
      before(k) == Cardinality({j \in 1..(k - 1) : program[j][1] \in Converts})
      at(k) == IF before(k) = 0 THEN 1 ELSE 2
      values[k \in 1..(Len(program) + 1)] ==
        IF k = 1 THEN <<row, IF needed >= 2 THEN words[1] ELSE 0>>
        ELSE Changed(program[k - 1], values[k - 1], at(k - 1))
      shown(k) ==
        LET v == values[k][at(k)]  s == program[k]
        IN CASE s[1] = "text" -> s[2]
             [] s[1] = "percent" -> <<"%">>
             [] s[1] = "number" -> Format(v, "d", NoFlags)
             [] s[1] = "two" -> (IF v \in 0..9 THEN <<"0">> ELSE <<>>) \o Format(v, "d", NoFlags)
             [] s[1] = "three" -> Format(v, "d", [NoFlags EXCEPT !.marks = {"0"}, !.width = 3])
             [] s[1] = "char" -> <<Chr(v)>>
             [] s[1] = "plus" -> <<Chr(v + Ascii[s[2][1]])>>
             [] s[1] = "delay" -> Padding(s[2], line, IF needed >= 2 THEN row ELSE 1)
             [] OTHER -> <<>>
  IN [needed |-> needed, out |-> FlattenSeq([k \in DOMAIN program |-> shown(k)])]

\* echotc wants a word for every value a termcap string shows, no more, and sends the
\* values where the string has them and its delays as padding.  Only a percent sign
\* that it comes to show begins an operation of terminfo instead.
EchoesAsMeant(program, values, line) ==
  LET cap == WrittenTermcap(program)
      meant == TermcapMeaning(program, values, line)
      words == SubSeq(values, 1, meant.needed)
  IN cap # <<>> /\ meant.needed <= Len(values) =>
       /\ "%" \notin ToSet(meant.out) =>
            EchoTerminalCapability(cap, words, line) = [sent |-> TRUE, out |-> meant.out]
       /\ EchoTerminalCapability(cap, Append(words, 0), line) = RefusedEcho
       /\ meant.needed > 0 =>
            /\ EchoTerminalCapability(cap, Front(words), line) = RefusedEcho
            /\ \A bad \in {EmptyWord, BadWord} :
                 EchoTerminalCapability(cap, Append(Front(words), bad), line) = RefusedEcho
=============================================================================
