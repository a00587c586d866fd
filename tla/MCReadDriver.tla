---------------------------- MODULE MCReadDriver ----------------------------
(***************************************************************************)
(* Small keymaps for the read driver, and what its key parser should       *)
(* recognise of the units they bind.  The driver takes units one by one as *)
(* they arrive, keeps a pending prefix between reads, repaints and         *)
(* signals, and pushes units back; Munch looks at everything the host      *)
(* supplied at once and cuts the longest bound prefix off its front, again *)
(* and again.                                                              *)
(***************************************************************************)
EXTENDS ReadDriver, SequencesExt, FiniteSetsExt

Does(command) == [does |-> command, text |-> <<>>]
Macro(text) == [does |-> "macro", text |-> text]
Policy(buffering, ignore) == [buffering |-> buffering, ignore |-> ignore]

\* "a" alone and "a b a" are bound, "a b" is a prefix between them.
PrefixBindings ==
  (<<"a">> :> Does("action")) @@ (<<"a", "b", "a">> :> Does("action")) @@
  (<<"b", "b">> :> Macro(<<"a", "b">>)) @@ (<<"q">> :> Does("quoted")) @@
  (<<"m">> :> Does("meta")) @@ (<<"s">> :> Does("alias"))

\* One key for every kind of step, and a prefix.
StepBindings ==
  (<<"a">> :> Does("accept")) @@ (<<"q">> :> Does("quoted")) @@
  (<<"e">> :> Does("effect")) @@ (<<"u">> :> Does("user")) @@
  (<<"v">> :> Does("edit")) @@ (<<"s">> :> Does("alias")) @@
  (<<"d">> :> Does("end")) @@ (<<"l", "l">> :> Does("lead in")) @@
  (<<"l">> :> Does("action"))

PrefixAliases == ("a" :> <<"a", "b", "x", "x">>) @@ ("b" :> <<"b", "b", "b">>)
\* An alias that expands into itself.
StepAliases == "q" :> <<"s", "q">>

PrefixKeys == {"a", "b", "q", "m", "s", "x"}
StepKeys == {"a", "q", "e", "u", "v", "s", "d", "l", "x"}
OnlyX == {"x"}

\* Meta turns x into a and leaves the rest alone.
MetaX == [u \in Keys |-> IF u = "x" THEN "a" ELSE u]

Line == {Policy("line", FALSE)}
Command == {Policy("command", FALSE)}
LineAndCommand == Line \cup Command
Mixed == LineAndCommand \cup {Policy("line", TRUE), Policy("character", FALSE)}

Chunked == {"chunk", "timeout", "end"}
Everything == {"unit", "timeout", "end"} \cup HostFailures

-----------------------------------------------------------------------------
\* The units before the first Break.
Typed(s) == LET breaks == {i \in DOMAIN s : s[i] = Break}
            IN IF breaks = {} THEN s ELSE SubSeq(s, 1, Min(breaks) - 1)

Longest(s, P(_)) == Max({0} \cup {k \in 1..Len(s) : P(SubSeq(s, 1, k))})

From(s, n) == SubSeq(s, n, Len(s))
Before(token, parsed) == [parsed EXCEPT !.log = <<token>> \o @]
Disputed(when, parsed) == [parsed EXCEPT !.clear = @ /\ ~when]

\* ahead of the units were pushed back or expanded; an expansion goes in front
\* of those.
Inputs == [units : Seq(Keys \cup {Break}), ahead : Nat,
           next : {"key", "literal", "meta", "selector"}]

\* The commands in p.units, the prefix left pending, and what the unit after
\* it will be taken for.  Two things the code does are disputed, and leave the
\* answer not clear: a prefix that is cut off behind a shorter binding loses the
\* units that follow the binding, and an expansion inside of what was pushed
\* back goes in front of the rest of it.
Munch[p \in Inputs] ==
  LET s == p.units
      Left(n) == Max({p.ahead - n, 0})
      Parse(rest, ahead, next) == Munch[[p EXCEPT !.units = rest, !.ahead = ahead, !.next = next]]
      typed == Typed(s)
      reach == Longest(typed, Extended)
      cut == Len(typed) = reach
      bound == Longest(SubSeq(typed, 1, Min({reach + 1, Len(typed)})), Bound)
      prefix == SubSeq(s, 1, bound)
      after == IF cut THEN From(s, reach + 2) ELSE From(s, bound + 1)
      left == IF cut THEN Left(reach + 1) ELSE Max({Left(bound), reach + 1 - bound})
      does == Bindings[prefix].does
      Expanded(text, rest, ahead) ==
        Disputed(text # <<>> /\ ahead > 0,
          Parse(text \o rest, ahead + Len(text), "key"))
  IN CASE s = <<>> -> [log |-> <<>>, tail |-> <<>>, next |-> p.next, clear |-> TRUE]
       [] s # <<>> /\ Head(s) = Break -> Parse(Tail(s), p.ahead, "key")
       [] s # <<>> /\ Head(s) # Break /\ p.next = "literal" ->
            Before(Token("literal", <<Head(s)>>), Parse(Tail(s), Left(1), "key"))
       [] s # <<>> /\ Head(s) # Break /\ p.next = "meta" ->
            Parse(<<Meta[Head(s)]>> \o Tail(s), p.ahead, "key")
       [] s # <<>> /\ Head(s) # Break /\ p.next = "selector" ->
            Before(Token("selector", <<Head(s)>>),
                   Expanded(IF Head(s) \in DOMAIN Aliases THEN Aliases[Head(s)] ELSE <<>>,
                            Tail(s), Left(1)))
       [] OTHER ->
            IF reach = Len(s) THEN [log |-> <<>>, tail |-> s, next |-> "key", clear |-> TRUE]
            ELSE IF bound # 0
            THEN Disputed(cut /\ bound < reach, Before(Token("bound", prefix),
                   CASE does = "macro" -> Expanded(Bindings[prefix].text, after, left)
                     [] does = "quoted" -> Parse(after, left, "literal")
                     [] does = "meta" -> Parse(after, left, "meta")
                     [] does = "alias" -> Parse(after, left, "selector")
                     [] OTHER -> Parse(after, left, "key")))
            ELSE IF cut THEN Before(Token("discard", typed),
                                    Parse(From(s, reach + 2), Left(reach + 1), "key"))
            ELSE Before(Token(IF reach = 0 /\ s[1] \in Printable THEN "insert" ELSE "discard",
                              SubSeq(s, 1, reach + 1)),
                        Parse(From(s, reach + 2), Left(reach + 1), "key"))

Reference == Munch[[units |-> input.heard, ahead |-> 0, next |-> "key"]]

Parsing == /\ step.kind = "read" /\ step.of # "alias selector"
           /\ ~input.eof /\ config.buffering # "character"

Agrees(m) == /\ parse.log = SubSeq(m.log, 1, Min({MaxLog, Len(m.log)}))
             /\ parse.keys.sequence = m.tail
             /\ (parse.waiting = "quoted") = (m.next = "literal")
             /\ parse.meta = (m.next = "meta")

(* Whenever the driver asks for more input it has recognised exactly the   *)
(* commands a reader of all the input so far would: however the input was  *)
(* split into chunks, whatever macros and aliases put in front of it, and  *)
(* whatever was repainted or resized between two keys of a sequence; as    *)
(* long as the repository's documents and the code agree on the input.     *)
ParsesAsTyped == Parsing /\ Reference.clear => Agrees(Reference)
=============================================================================
