-------------------------- MODULE ReadDriverProofs --------------------------
(***************************************************************************)
(* Proofs about ReadDriver, for any keymap, aliases, policies and answers  *)
(* of the host, and any number of units, signals and failures: the mode of *)
(* the terminal follows the driver.                                        *)
(***************************************************************************)
EXTENDS ReadDriver, TLAPS

(* What PrefixPending says of the pending key sequence, and that it is one. *)
KeysOk(keys) ==
  /\ DOMAIN keys = {"sequence", "timed", "bound"}
  /\ (\E S : keys.sequence \in Seq(S)) /\ keys.bound \in Nat
  /\ keys.timed \in BOOLEAN /\ (keys.timed <=> keys.sequence # <<>>)
  /\ keys.sequence # <<>> => Extended(keys.sequence)
  /\ keys.bound <= Len(keys.sequence)
  /\ \A n \in 1..Len(keys.sequence) :
       Bound(SubSeq(keys.sequence, 1, n)) => n <= keys.bound
  /\ keys.bound # 0 => Bound(SubSeq(keys.sequence, 1, keys.bound))

(* A parser has the fields of Fresh and a key sequence that can go on.      *)
Shape(p) ==
  /\ DOMAIN p = {"keys", "waiting", "meta", "expanded", "completion", "log", "asked"}
  /\ KeysOk(p.keys)

Completions == {"none", "accepted", "end", "command"}

(* A literal character is awaited with no key sequence pending, and input   *)
(* is asked for only while nothing is about to be completed.                *)
ParserOk ==
  /\ Shape(parse) /\ parse.completion \in Completions
  /\ parse.waiting = "quoted" => parse.keys.bound = 0
  /\ step.kind = "read" => parse.completion = "none"
  /\ running => step.kind = "none"

(* Inside a read that is not about to be completed the terminal is cooked   *)
(* only in the external editor, for the line that leaves it, and while a    *)
(* stopping signal is handed on.                                            *)
CookedInside ==
  mode = "cooked" /\ (running \/ step.kind # "none") /\ parse.completion = "none" =>
    \/ step.kind \in {"edit", "record"}
    \/ step.kind = "signal" /\ step.of \in {"suspend", "interrupt"}

ModeInv ==
  /\ mode \in {"editing", "cooked", "quoted"} /\ failures \in Nat
  /\ ParserOk /\ CookedInside /\ TerminalFollowsDriver

(* Where process_unit and dispatch_binding are entered with parser p: the   *)
(* read goes on, and the terminal is in editing mode.                       *)
Parsing(p) ==
  /\ Shape(p) /\ p.completion = "none"
  /\ p.waiting = "quoted" => p.keys.bound = 0
  /\ mode \in {"editing", "quoted"} /\ failures \in Nat
  /\ mode = "quoted" => p.waiting = "quoted" \/ failures > 0

LEMMA NoKeysOk == KeysOk(NoKeys)
<1>1. <<>> \in Seq({}) /\ Len(<<>>) = 0
  OBVIOUS
<1>2. /\ DOMAIN NoKeys = {"sequence", "timed", "bound"}
      /\ NoKeys.sequence = <<>> /\ NoKeys.timed = FALSE /\ NoKeys.bound = 0
  BY DEF NoKeys
<1>3. \E S : NoKeys.sequence \in Seq(S)
  BY <1>1, <1>2
<1>4. /\ NoKeys.bound \in Nat /\ NoKeys.bound <= Len(NoKeys.sequence)
      /\ 1 .. Len(NoKeys.sequence) = {}
  BY <1>1, <1>2
<1>5. NoKeys.timed \in BOOLEAN /\ (NoKeys.timed <=> NoKeys.sequence # <<>>)
  BY <1>2
<1> HIDE DEF NoKeys
<1> QED
  BY <1>2, <1>3, <1>4, <1>5 DEF KeysOk

(* A sequence one unit longer that is bound, or only a prefix of bindings.  *)
LEMMA LongerOk ==
  ASSUME NEW keys, KeysOk(keys), NEW u, Extended(Append(keys.sequence, u))
  PROVE  LET s == Append(keys.sequence, u)
             pushed == [keys EXCEPT !.sequence = s, !.timed = TRUE]
         IN  /\ Bound(s) => KeysOk([pushed EXCEPT !.bound = Len(s)])
             /\ ~Bound(s) => KeysOk(pushed)
<1> DEFINE q == keys.sequence
           s == Append(q, u)
           pushed == [keys EXCEPT !.sequence = s, !.timed = TRUE]
           longer == [pushed EXCEPT !.bound = Len(s)]
<1>1. PICK S : q \in Seq(S)
  BY DEF KeysOk
<1>2. q \in Seq(S \cup {u}) /\ u \in S \cup {u}
  BY <1>1
<1>3. /\ s \in Seq(S \cup {u}) /\ Len(s) = Len(q) + 1 /\ Len(q) \in Nat /\ s # <<>>
      /\ \A n \in 1 .. Len(q) : SubSeq(s, 1, n) = SubSeq(q, 1, n)
      /\ SubSeq(s, 1, Len(s)) = s
  BY <1>2
<1>4. /\ DOMAIN pushed = {"sequence", "timed", "bound"} /\ pushed.sequence = s
      /\ pushed.timed = TRUE /\ pushed.bound = keys.bound
  BY DEF KeysOk
<1>5. /\ DOMAIN longer = {"sequence", "timed", "bound"} /\ longer.sequence = s
      /\ longer.timed = TRUE /\ longer.bound = Len(s)
  BY <1>4
<1> HIDE DEF longer, pushed, s
<1>6. Extended(s)
  BY DEF s
<1>7. ASSUME Bound(s) PROVE KeysOk(longer)
  <2>1. \E T : longer.sequence \in Seq(T)
    BY <1>3, <1>5
  <2>2. /\ Len(s) \in Nat /\ Len(s) <= Len(s) /\ \A n \in 1 .. Len(s) : n <= Len(s)
    BY <1>3
  <2>3. Bound(SubSeq(s, 1, Len(s)))
    BY <1>3, <1>7
  <2> QED
    BY <1>3, <1>5, <1>6, <2>1, <2>2, <2>3 DEF KeysOk
<1>8. ASSUME ~Bound(s) PROVE KeysOk(pushed)
  <2>1. \A n \in 1 .. Len(s) : n \in 1 .. Len(q) \/ n = Len(s)
    BY <1>3
  <2>2. \A n \in 1 .. Len(s) : Bound(SubSeq(s, 1, n)) => n <= keys.bound
    BY <1>3, <1>8, <2>1 DEF KeysOk
  <2>3. keys.bound # 0 => Bound(SubSeq(s, 1, keys.bound))
    <3>1. keys.bound # 0 => keys.bound \in 1 .. Len(q) /\ Bound(SubSeq(q, 1, keys.bound))
      BY <1>3 DEF KeysOk
    <3> QED
      BY <1>3, <3>1
  <2>4. keys.bound \in Nat /\ keys.bound <= Len(s)
    BY <1>3 DEF KeysOk
  <2>5. \E T : pushed.sequence \in Seq(T)
    BY <1>3, <1>4
  <2> QED
    BY <1>3, <1>4, <1>6, <2>2, <2>3, <2>4, <2>5 DEF KeysOk
<1> QED
  BY <1>7, <1>8 DEF s, pushed, longer

LEMMA ModeInit == Init => ModeInv
  BY NoKeysOk DEF Init, ModeInv, ParserOk, Shape, Completions, CookedInside, TerminalFollowsDriver,
     ModeFitsStep, QuotedWhileQuoting, CookedAtRest, AtRest, NoStep, Fresh, NoKeys

-----------------------------------------------------------------------------
(* The ways a call can end.                                                 *)

ParserFits(p) ==
  /\ Shape(p) /\ p.completion \in Completions
  /\ p.waiting = "quoted" => p.keys.bound = 0

LEMMA GoKeeps ==
  ASSUME NEW p, NEW in, Go(p, in), ParserFits(p),
         mode' \in {"editing", "cooked", "quoted"}, failures' \in Nat,
         mode' = "cooked" => p.completion # "none",
         mode' = "quoted" => p.waiting = "quoted" \/ failures' > 0
  PROVE  ModeInv'
  BY DEF ModeInv, ParserOk, CookedInside, TerminalFollowsDriver, ParserFits,
     ModeFitsStep, QuotedWhileQuoting, CookedAtRest, AtRest, NoStep, Go

LEMMA AskKeeps ==
  ASSUME NEW kind \in Kinds \ {"none"}, NEW of, NEW p, NEW in, Ask(kind, of, p, in), ParserFits(p),
         mode' \in {"editing", "cooked", "quoted"}, failures' \in Nat,
         mode' = "cooked" /\ p.completion = "none" =>
           kind \in {"edit", "record"} \/ (kind = "signal" /\ of \in {"suspend", "interrupt"}),
         mode' = "quoted" => p.waiting = "quoted" \/ failures' > 0,
         kind = "read" => p.completion = "none",
         kind = "edit" => mode' = "cooked",
         kind = "signal" /\ of \in {"suspend", "interrupt"} => mode' = "cooked",
         kind = "signal" /\ of = "continue" => mode' = "editing"
  PROVE  ModeInv'
<1>1. parse' = p /\ running' = FALSE /\ step' = [kind |-> kind, of |-> of]
  BY DEF Ask
<1>2. step'.kind = kind /\ step'.of = of /\ step' # NoStep
  BY <1>1 DEF NoStep
<1> QED
  BY <1>1, <1>2 DEF ModeInv, ParserOk, CookedInside, TerminalFollowsDriver, ParserFits,
     ModeFitsStep, QuotedWhileQuoting, CookedAtRest, AtRest

LEMMA FreshFits == ParserFits(Fresh) /\ ParserFits([Fresh EXCEPT !.log = parse.log])
  BY NoKeysOk DEF ParserFits, Fresh, NoKeys, Shape, Completions

LEMMA CompleteKeeps ==
  ASSUME mode \in {"editing", "cooked", "quoted"}, failures \in Nat,
         NEW kind \in Results \ {"none", "error"}, NEW in, Complete(kind, in)
  PROVE  ModeInv'
<1>1. running' = FALSE /\ step' = NoStep /\ step'.kind = "none" /\ step'.of = "none"
  BY DEF Complete, NoStep
<1>2. ParserFits(parse')
  BY FreshFits DEF Complete
<1>3. CASE config.buffering = "line"
  BY <1>1, <1>2, <1>3 DEF Complete, Set, CannotSet, Ended, ModeInv, ParserOk, ParserFits, CookedInside,
     TerminalFollowsDriver, ModeFitsStep, QuotedWhileQuoting, CookedAtRest, AtRest
<1>4. CASE config.buffering # "line"
  BY <1>1, <1>2, <1>4 DEF Complete, SameMode, Ended, ModeInv, ParserOk, ParserFits, CookedInside,
     TerminalFollowsDriver, ModeFitsStep, QuotedWhileQuoting, CookedAtRest, AtRest
<1> QED
  BY <1>3, <1>4

LEMMA AbandonKeeps ==
  ASSUME mode \in {"editing", "cooked", "quoted"}, failures \in Nat, NEW n \in {0, 1}, Abandon(n)
  PROVE  ModeInv'
<1>1. running' = FALSE /\ step' = NoStep /\ step'.kind = "none" /\ step'.of = "none"
  BY DEF Abandon, NoStep
<1>2. ParserFits(parse')
  BY FreshFits DEF Abandon
<1> QED
  BY <1>1, <1>2 DEF Abandon, Ended, ModeInv, ParserOk, ParserFits, CookedInside,
     TerminalFollowsDriver, ModeFitsStep, QuotedWhileQuoting, CookedAtRest, AtRest

LEMMA FailKeeps ==
  ASSUME mode \in {"editing", "cooked", "quoted"}, failures \in Nat, Fail
  PROVE  ModeInv'
  BY AbandonKeeps DEF Fail

-----------------------------------------------------------------------------
(* The parser.                                                              *)

LEMMA LoggedFits ==
  ASSUME NEW p, Shape(p), NEW does, NEW keys
  PROVE  LET l == Logged(p, does, keys)
         IN  Shape(l) /\ l.keys = p.keys /\ l.waiting = p.waiting /\ l.completion = p.completion
  BY DEF Logged, Shape

(* The end of a command: the prompts or the beep, with the completion that  *)
(* command buffering asks for.                                              *)
LEMMA CommandEnds ==
  ASSUME NEW p, NEW in, CommandDisplay(p, in) \/ BeepDisplay(p, in), ParserFits(p),
         mode' \in {"editing", "cooked", "quoted"}, failures' \in Nat,
         mode' = "cooked" => p.completion # "none",
         mode' = "quoted" => p.waiting = "quoted" \/ failures' > 0
  PROVE  ModeInv'
<1> DEFINE f == Finishing(p)
<1>1. ParserFits(f) /\ f.waiting = p.waiting /\ (p.completion # "none" => f.completion # "none")
  BY DEF Finishing, ParserFits, Shape, Completions
<1> HIDE DEF f
<1>2. Ask("prompt", "left", f, in) \/ Ask("display", "beep", f, in)
  BY DEF CommandDisplay, BeepDisplay, f
<1> QED
  BY <1>1, <1>2, AskKeeps DEF Kinds

LEMMA LineEnds ==
  ASSUME NEW kind \in {"accepted", "end"}, NEW p, NEW in, FinishLine(kind, p, in), ParserFits(p),
         mode' \in {"editing", "cooked", "quoted"}, failures' \in Nat,
         mode' = "quoted" => p.waiting = "quoted" \/ failures' > 0
  PROVE  ModeInv'
<1> DEFINE f == [p EXCEPT !.completion = kind]
<1>1. ParserFits(f) /\ f.waiting = p.waiting /\ f.completion # "none"
  BY DEF ParserFits, Shape, Completions
<1> HIDE DEF f
<1>2. Ask("display", "finish", f, in)
  BY DEF FinishLine, f
<1> QED
  BY <1>1, <1>2, AskKeeps DEF Kinds

LEMMA EndKeeps ==
  ASSUME NEW p, NEW in, Parsing(p), EndInput(p, in)
  PROVE  ModeInv'
<1> DEFINE e == [p EXCEPT !.keys = NoKeys, !.waiting = "none", !.meta = FALSE]
<1>1. ParserFits(e)
  BY NoKeysOk DEF Parsing, ParserFits, Shape, NoKeys, Completions
<1> HIDE DEF e
<1>2. CASE p.waiting = "quoted"
  <2>1. SetOrFail("editing", FinishLine("end", e, in))
    BY <1>2 DEF EndInput, e
  <2> QED
    BY <1>1, <2>1, LineEnds, AbandonKeeps DEF SetOrFail, Set, Parsing
<1>3. CASE p.waiting # "quoted"
  <2>1. SameMode /\ FinishLine("end", e, in)
    BY <1>3 DEF EndInput, e
  <2> QED
    BY <1>1, <1>3, <2>1, LineEnds DEF SameMode, Parsing
<1> QED
  BY <1>2, <1>3

LEMMA SelectorKeeps ==
  ASSUME NEW p, NEW in, Parsing(p), AwaitSelector(p, in)
  PROVE  ModeInv'
<1>0. ParserFits(p)
  BY DEF Parsing, ParserFits, Completions
<1>1. ASSUME NEW u, NEW rest, SelectAlias(u, p, rest) PROVE ModeInv'
  <2> DEFINE l == Logged(p, "selector", <<u>>)
  <2>1. ParserFits(l) /\ l.waiting = p.waiting /\ l.completion = "none"
    BY <1>0, LoggedFits DEF ParserFits, Parsing
  <2>2. SameMode /\ Ask("alias", u, l, rest)
    BY <1>1 DEF SelectAlias
  <2> HIDE DEF l
  <2> QED
    BY <2>1, <2>2, AskKeeps DEF SameMode, Parsing, Kinds
<1>2. CASE EndInput(p, in)
  BY <1>2, EndKeeps
<1>3. CASE SameMode /\ Ask("read", "alias selector", p, in)
  BY <1>0, <1>3, AskKeeps DEF SameMode, Parsing, Kinds
<1> QED
  BY <1>1, <1>2, <1>3 DEF AwaitSelector

LEMMA DispatchKeeps ==
  ASSUME NEW s, NEW parser, NEW in, Parsing(parser), parser.waiting # "quoted",
         Dispatch(s, parser, in)
  PROVE  ModeInv'
<1> DEFINE p == Logged([parser EXCEPT !.keys = NoKeys], "bound", s)
           command == Bindings[s].does
           text == Bindings[s].text
<1>1. /\ Shape(p) /\ p.keys = NoKeys /\ p.waiting = parser.waiting /\ p.completion = "none"
  <2> DEFINE q == [parser EXCEPT !.keys = NoKeys]
  <2>1. Shape(q) /\ q.keys = NoKeys /\ q.waiting = parser.waiting /\ q.completion = "none"
    BY NoKeysOk DEF Parsing, Shape
  <2> HIDE DEF q
  <2>2. p = Logged(q, "bound", s)
    BY DEF q
  <2> QED
    BY <2>1, <2>2, LoggedFits
<1> HIDE DEF p
<1>2. ParserFits(p) /\ Parsing(p) /\ (mode = "quoted" => failures > 0)
  BY <1>1 DEF ParserFits, Parsing, Completions
<1>3. mode \in {"editing", "quoted"} /\ failures \in Nat
  BY DEF Parsing
<1>4. CASE Expand(text, p, Go(Charged(text, p), PushFront(in, text)))
  <2>1. ParserFits(Charged(text, p)) /\ Charged(text, p).waiting = p.waiting
    BY <1>1, <1>2 DEF Charged, ParserFits, Shape
  <2>2. CASE SameMode /\ Go(Charged(text, p), PushFront(in, text))
    BY <1>2, <1>3, <2>1, <2>2, GoKeeps DEF SameMode
  <2> QED
    BY <1>3, <1>4, <2>2, FailKeeps DEF Expand
<1>5. CASE SameMode /\ CommandDisplay(p, in)
  BY <1>2, <1>3, <1>5, CommandEnds DEF SameMode
<1>6. CASE SameMode /\ FinishLine("end", p, in)
  BY <1>2, <1>3, <1>6, LineEnds DEF SameMode
<1>7. CASE SameMode /\ Ask("record", "none", p, in)
  BY <1>2, <1>3, <1>7, AskKeeps DEF SameMode, Kinds
<1>8. CASE SetOrFail("quoted", Go([p EXCEPT !.waiting = "quoted"], in))
  <2>1. ParserFits([p EXCEPT !.waiting = "quoted"])
        /\ [p EXCEPT !.waiting = "quoted"].waiting = "quoted"
    <3>1. p.keys.bound = 0
      BY <1>1 DEF NoKeys
    <3> QED
      BY <1>1, <3>1 DEF ParserFits, Shape, Completions
  <2> QED
    BY <1>3, <1>8, <2>1, GoKeeps, AbandonKeeps DEF SetOrFail, Set
<1>9. CASE SameMode /\ Go([p EXCEPT !.meta = TRUE], in)
  <2>1. ParserFits([p EXCEPT !.meta = TRUE]) /\ [p EXCEPT !.meta = TRUE].waiting = p.waiting
    BY <1>1, <1>2 DEF ParserFits, Shape
  <2> QED
    BY <1>2, <1>3, <1>9, <2>1, GoKeeps DEF SameMode
<1>10. CASE SameMode /\ Go([p EXCEPT !.waiting = "lead in"], in)
  <2>1. ParserFits([p EXCEPT !.waiting = "lead in"])
    BY <1>1, <1>2 DEF ParserFits, Shape
  <2> QED
    BY <1>2, <1>3, <1>10, <2>1, GoKeeps DEF SameMode
<1>11. CASE AwaitSelector(p, in)
  BY <1>2, <1>11, SelectorKeeps
<1>12. CASE SameMode /\ DispatchEffect(command, p, in)
  <2>1. CASE CommandDisplay(p, in)
    BY <1>2, <1>3, <1>12, <2>1, CommandEnds DEF SameMode
  <2>2. ASSUME NEW kind \in {"history", "query", "user"}, Ask(kind, "none", p, in) PROVE ModeInv'
    BY <1>2, <1>3, <1>12, <2>2, AskKeeps DEF SameMode, Kinds
  <2> QED
    BY <1>12, <2>1, <2>2 DEF DispatchEffect
<1>13. CASE SetOrFail("cooked", Ask("edit", "none", p, in))
  BY <1>2, <1>3, <1>13, AskKeeps, AbandonKeeps DEF SetOrFail, Set, Kinds
<1> HIDE DEF command, text
<1> QED
  <2>1. \/ Expand(text, p, Go(Charged(text, p), PushFront(in, text)))
        \/ SameMode /\ CommandDisplay(p, in)
        \/ SameMode /\ FinishLine("end", p, in)
        \/ SameMode /\ Ask("record", "none", p, in)
        \/ SetOrFail("quoted", Go([p EXCEPT !.waiting = "quoted"], in))
        \/ SameMode /\ Go([p EXCEPT !.meta = TRUE], in)
        \/ SameMode /\ Go([p EXCEPT !.waiting = "lead in"], in)
        \/ AwaitSelector(p, in)
        \/ SameMode /\ DispatchEffect(command, p, in)
        \/ SetOrFail("cooked", Ask("edit", "none", p, in))
    BY Zenon DEF Dispatch, p, command, text
  <2> QED
    BY <1>4, <1>5, <1>6, <1>7, <1>8, <1>9, <1>10, <1>11, <1>12, <1>13, <2>1
LEMMA LookupKeeps ==
  ASSUME NEW u, NEW parser, NEW in, Parsing(parser), parser.waiting = "none",
         Lookup(u, parser, in)
  PROVE  ModeInv'
<1> DEFINE keys == parser.keys
           s == Append(keys.sequence, u)
           p == Prefix(parser, s)
           over == [parser EXCEPT !.keys = NoKeys]
           longer == [p EXCEPT !.keys.bound = Len(s)]
<1>1. /\ DOMAIN p = DOMAIN parser /\ p.waiting = "none" /\ p.completion = "none"
      /\ p.keys = [keys EXCEPT !.sequence = s, !.timed = TRUE]
  BY DEF Prefix, Parsing, Shape
<1>2. KeysOk(keys) /\ DOMAIN parser = {"keys", "waiting", "meta", "expanded", "completion", "log", "asked"}
  BY DEF Parsing, Shape
<1>3. ASSUME Extended(s)
      PROVE  /\ Bound(s) => ParserFits(longer) /\ longer.waiting = "none" /\ longer.completion = "none"
             /\ ~Bound(s) => ParserFits(p)
  <2>0. LET pushed == [keys EXCEPT !.sequence = s, !.timed = TRUE]
        IN  /\ Bound(s) => KeysOk([pushed EXCEPT !.bound = Len(s)])
            /\ ~Bound(s) => KeysOk(pushed)
    BY <1>2, <1>3, LongerOk
  <2> HIDE DEF p, s
  <2>1. /\ Bound(s) => KeysOk([p.keys EXCEPT !.bound = Len(s)])
        /\ ~Bound(s) => KeysOk(p.keys)
    BY ONLY <1>1, <2>0
  <2>2. /\ DOMAIN longer = DOMAIN p /\ longer.keys = [p.keys EXCEPT !.bound = Len(s)]
        /\ longer.waiting = p.waiting /\ longer.completion = p.completion
    BY <1>1, <1>2
  <2> QED
    BY <1>1, <1>2, <2>1, <2>2 DEF ParserFits, Shape, Completions
<1>4. Shape(over) /\ over.waiting = "none" /\ over.completion = "none"
  BY NoKeysOk DEF Parsing, Shape
<1>5. /\ mode \in {"editing", "quoted"} /\ failures \in Nat
      /\ mode = "quoted" => failures > 0
  BY DEF Parsing
<1> HIDE DEF p, s, over, longer
<1>6. ASSUME NEW does, CommandDisplay(Logged(over, does, s), in) \/ BeepDisplay(Logged(over, does, s), in),
             SameMode
      PROVE  ModeInv'
  <2> DEFINE l == Logged(over, does, s)
  <2>1. ParserFits(l) /\ l.completion = "none"
    BY <1>4, LoggedFits DEF ParserFits, Completions
  <2> HIDE DEF l
  <2>2. CommandDisplay(l, in) \/ BeepDisplay(l, in)
    BY <1>6 DEF l
  <2> QED
    BY <1>5, <1>6, <2>1, <2>2, CommandEnds DEF SameMode
<1>7. ASSUME NEW t, NEW rest, Dispatch(t, parser, rest) PROVE ModeInv'
  BY <1>7, DispatchKeeps
<1>8. CASE Bound(s) /\ Extended(s) /\ SameMode /\ Go(longer, in)
  BY <1>3, <1>5, <1>8, GoKeeps DEF SameMode
<1>9. CASE ~Bound(s) /\ Extended(s) /\ SameMode /\ Go(p, in)
  BY <1>1, <1>3, <1>5, <1>9, GoKeeps DEF SameMode
<1> QED
  <2>1. \/ Dispatch(s, parser, in)
        \/ Bound(s) /\ Extended(s) /\ SameMode /\ Go(longer, in)
        \/ ~Bound(s) /\ Extended(s) /\ SameMode /\ Go(p, in)
        \/ Dispatch(SubSeq(s, 1, keys.bound), parser,
                    PushFront(in, SubSeq(s, keys.bound + 1, Len(s))))
        \/ SameMode /\ CommandDisplay(Logged(over, "insert", s), in)
        \/ SameMode /\ BeepDisplay(Logged(over, "discard", s), in)
    BY Zenon DEF Lookup, s, p, over, longer
  <2> QED
    BY <1>6, <1>7, <1>8, <1>9, <2>1

LEMMA ProcessKeeps ==
  ASSUME NEW u, NEW p, NEW in, Parsing(p), Process(u, p, in)
  PROVE  ModeInv'
<1>1. CASE Complete("character", in)
  BY <1>1, CompleteKeeps DEF Parsing, Results
<1>2. CASE /\ p.waiting = "quoted"
           /\ SetOrFail("editing",
                CommandDisplay(Logged([p EXCEPT !.waiting = "none"], "literal", <<u>>), in))
  <2> DEFINE q == [p EXCEPT !.waiting = "none"]
             l == Logged(q, "literal", <<u>>)
  <2>1. Shape(q) /\ q.waiting = "none" /\ q.completion = "none"
    BY DEF Parsing, Shape
  <2> HIDE DEF q
  <2>2. ParserFits(l)
    BY <2>1, LoggedFits DEF ParserFits, Completions
  <2> HIDE DEF l
  <2>3. SetOrFail("editing", CommandDisplay(l, in))
    BY <1>2 DEF l, q
  <2> QED
    BY <2>2, <2>3, CommandEnds, AbandonKeeps DEF SetOrFail, Set, Parsing
<1>3. CASE p.waiting # "quoted" /\ Lookup(IF p.meta THEN Meta[u] ELSE u,
                                          [p EXCEPT !.waiting = "none", !.meta = FALSE], in)
  <2> DEFINE q == [p EXCEPT !.waiting = "none", !.meta = FALSE]
             v == IF p.meta THEN Meta[u] ELSE u
  <2>1. Parsing(q) /\ q.waiting = "none"
    BY <1>3 DEF Parsing, Shape
  <2>2. Lookup(v, q, in)
    BY <1>3
  <2> HIDE DEF q, v
  <2> QED
    BY <2>1, <2>2, LookupKeeps
<1> QED
  BY <1>1, <1>2, <1>3 DEF Process

-----------------------------------------------------------------------------
(* The driver's own step and the calls of the host.                         *)

(* What the invariant says of a parser that is still reading, and of one    *)
(* that any step holds.                                                     *)
LEMMA ReadingParses ==
  ASSUME ModeInv, running \/ step.kind = "read", parse.completion = "none"
  PROVE  Parsing(parse)
  BY DEF ModeInv, ParserOk, CookedInside, TerminalFollowsDriver, QuotedWhileQuoting, Parsing,
     AtRest, NoStep

LEMMA InsideParses ==
  ASSUME ModeInv, running \/ step.kind # "none"
  PROVE  /\ ParserFits(parse)
         /\ mode \in {"editing", "cooked", "quoted"} /\ failures \in Nat
         /\ mode = "quoted" => parse.waiting = "quoted" \/ failures > 0
  BY DEF ModeInv, ParserOk, ParserFits, TerminalFollowsDriver, QuotedWhileQuoting, AtRest, NoStep

LEMMA EofKeeps ==
  ASSUME NEW p, NEW in, Parsing(p), HandleEof(p, in)
  PROVE  ModeInv'
<1>1. CASE p.keys.bound # 0
  <2>1. p.waiting # "quoted"
    BY <1>1 DEF Parsing
  <2> QED
    BY <1>1, <2>1, DispatchKeeps DEF HandleEof
<1>2. CASE p.keys.bound = 0
  BY <1>2, EndKeeps DEF HandleEof
<1> QED
  BY <1>1, <1>2

LEMMA AdvanceKeeps == ASSUME ModeInv, Advance PROVE ModeInv'
<1>1. ParserFits(parse) /\ mode \in {"editing", "cooked", "quoted"} /\ failures \in Nat
  BY InsideParses DEF Advance
<1>2. CASE parse.completion # "none"
  <2>1. Complete(parse.completion, input)
    BY <1>2 DEF Advance
  <2>2. parse.completion \in Results \ {"none", "error"}
    BY <1>1, <1>2 DEF ParserFits, Completions, Results
  <2> QED
    BY <1>1, <2>1, <2>2, CompleteKeeps
<1>3. CASE parse.completion = "none"
  <2>1. Parsing(parse)
    BY <1>3, ReadingParses DEF Advance
  <2>2. CASE Process(Head(Queue(input)), parse, Rest(input))
    BY <2>1, <2>2, ProcessKeeps
  <2>3. CASE HandleEof(parse, input)
    BY <2>1, <2>3, EofKeeps
  <2>4. ASSUME NEW of, SameMode, Ask("read", of, parse, input) PROVE ModeInv'
    BY <1>1, <2>1, <2>4, AskKeeps DEF SameMode, Parsing, Kinds
  <2> QED
    BY <1>3, <2>2, <2>3, <2>4 DEF Advance
<1> QED
  BY <1>2, <1>3

LEMMA BeginKeeps == ASSUME ModeInv, Begin PROVE ModeInv'
<1>1. mode \in {"editing", "cooked", "quoted"} /\ failures \in Nat
  BY DEF ModeInv
<1>2. CASE Fail
  BY <1>1, <1>2, FailKeeps
<1>3. ASSUME Set("editing"), NEW log, NEW in,
             Ask("resize", "prepare", [Fresh EXCEPT !.log = log], in)
      PROVE  ModeInv'
  <2>1. ParserFits([Fresh EXCEPT !.log = log])
    BY NoKeysOk DEF ParserFits, Fresh, NoKeys, Shape, Completions
  <2> QED
    BY <1>1, <1>3, <2>1, AskKeeps DEF Set, Kinds
<1>4. CASE CannotSet("editing") /\ Ended("error") /\ UNCHANGED <<step, running, input, parse>>
  <2>1. step = NoStep /\ ~running
    BY DEF Begin, AtRest
  <2> QED
    BY <1>1, <1>4, <2>1 DEF ModeInv, ParserOk, CookedInside, TerminalFollowsDriver, ModeFitsStep,
       QuotedWhileQuoting, CookedAtRest, AtRest, NoStep, CannotSet, Ended
<1> QED
  BY <1>2, <1>3, <1>4 DEF Begin

(* The endings every host step shares.                                      *)
LEMMA EndingKeeps ==
  ASSUME mode \in {"editing", "cooked", "quoted"}, failures \in Nat,
         NEW interruptible \in BOOLEAN, Ending(interruptible)
  PROVE  ModeInv'
  BY CompleteKeeps, FailKeeps DEF Ending, Results

(* A step that goes on with the parser and the mode it has.                 *)
LEMMA GoesOn ==
  ASSUME ModeInv, step.kind \in Kinds \ {"none", "read", "edit", "record", "signal"}, SameMode,
         \/ Go(parse, input) \/ CommandDisplay(parse, input) \/ FinishLine("end", parse, input)
         \/ \E kind \in {"prompt", "display", "record"}, of \in {"none", "left", "right", "refresh"} :
              Ask(kind, of, parse, input)
         \/ Ask("signal", "resize", parse, input)
  PROVE  ModeInv'
<1>1. /\ ParserFits(parse) /\ mode \in {"editing", "cooked", "quoted"} /\ failures \in Nat
      /\ mode = "quoted" => parse.waiting = "quoted" \/ failures > 0
  BY InsideParses
<1>2. mode = "cooked" => parse.completion # "none"
  BY DEF ModeInv, CookedInside
<1>3. mode' = mode /\ failures' = failures
  BY DEF SameMode
<1>4. CASE Go(parse, input)
  BY <1>1, <1>2, <1>3, <1>4, GoKeeps
<1>5. CASE CommandDisplay(parse, input)
  BY <1>1, <1>2, <1>3, <1>5, CommandEnds
<1>6. CASE FinishLine("end", parse, input)
  BY <1>1, <1>2, <1>3, <1>6, LineEnds
<1>7. ASSUME NEW kind \in {"prompt", "display", "record"}, NEW of \in {"none", "left", "right", "refresh"},
             Ask(kind, of, parse, input)
      PROVE  ModeInv'
  BY <1>1, <1>2, <1>3, <1>7, AskKeeps DEF Kinds
<1>8. CASE Ask("signal", "resize", parse, input)
  BY <1>1, <1>2, <1>3, <1>8, AskKeeps DEF Kinds
<1> QED
  BY <1>4, <1>5, <1>6, <1>7, <1>8
LEMMA ResumeKeeps == ASSUME ModeInv, Resume PROVE ModeInv'
<1>1. mode \in {"editing", "cooked", "quoted"} /\ failures \in Nat
  BY DEF ModeInv
<1>2. ASSUME Fail PROVE ModeInv'
  BY <1>1, <1>2, FailKeeps
<1>3. ASSUME NEW interruptible \in BOOLEAN, Ending(interruptible) PROVE ModeInv'
  BY <1>1, <1>3, EndingKeeps
<1>4. ASSUME step.kind # "none"
      PROVE  ParserFits(parse) /\ (mode = "quoted" => parse.waiting = "quoted" \/ failures > 0)
  BY <1>4, InsideParses
<1>5. CASE ResumeResize
  BY <1>2, <1>3, <1>5, GoesOn DEF ResumeResize, Held, Kinds
<1>6. CASE ResumePrompt
  BY <1>3, <1>6, GoesOn DEF ResumePrompt, Held, Kinds
<1>7. CASE Display
  BY <1>2, <1>7, GoesOn DEF Display, Held, Kinds
<1>8. CASE ResumeHistory
  BY <1>3, <1>8, GoesOn DEF ResumeHistory, Held, Kinds
<1>9. ASSUME step.kind # "none", SetOrFail("cooked", Ask("edit", "none", parse, input))
      PROVE  ModeInv'
  BY <1>1, <1>4, <1>9, AskKeeps, AbandonKeeps DEF SetOrFail, Set, Kinds
<1>10. CASE ResumeQuery
  BY <1>3, <1>9, <1>10, GoesOn DEF ResumeQuery, Held, Kinds
<1>11. CASE ResumeUserCommand
  BY <1>3, <1>11, GoesOn DEF ResumeUserCommand, Held, Kinds
<1>12. CASE ResumeAlias
  <2> DEFINE text == Aliases[step.of]
             p == Charged(text, parse)
             in == PushFront(input, text)
  <2>1. step.kind = "alias" /\ step.kind \in Kinds \ {"none", "read", "edit", "record", "signal"}
    BY <1>12 DEF ResumeAlias, Held, Kinds
  <2>2. ParserFits(p) /\ p.waiting = parse.waiting /\ p.completion = parse.completion
    BY <1>4, <2>1 DEF Charged, ParserFits, Shape
  <2>3. mode = "cooked" => parse.completion # "none"
    BY <2>1 DEF ModeInv, CookedInside
  <2> HIDE DEF p, in
  <2>4. ASSUME SameMode, CommandDisplay(p, in) \/ Go(p, in) PROVE ModeInv'
    BY <1>1, <1>4, <2>1, <2>2, <2>3, <2>4, CommandEnds, GoKeeps DEF SameMode
  <2>5. \/ Expand(text, parse, IF config.buffering = "command"
                               THEN CommandDisplay(p, in) ELSE Go(p, in))
        \/ SameMode /\ CommandDisplay(parse, input)
        \/ Ending(TRUE)
    BY <1>12 DEF ResumeAlias, p, in
  <2> QED
    BY <1>2, <1>3, <2>1, <2>4, <2>5, GoesOn DEF Expand
<1>13. CASE ResumeExternalEdit
  <2>1. step.kind = "edit"
    BY <1>13 DEF ResumeExternalEdit, Held
  <2>2. ASSUME SameMode, Ask("record", "none", parse, input) PROVE ModeInv'
    BY <1>1, <1>4, <2>1, <2>2, AskKeeps DEF SameMode, Kinds
  <2>3. ASSUME SetOrFail("editing", CommandDisplay(parse, input)) PROVE ModeInv'
    BY <1>1, <1>4, <2>1, <2>3, CommandEnds, AbandonKeeps DEF SetOrFail, Set
  <2> QED
    BY <1>3, <1>13, <2>2, <2>3 DEF ResumeExternalEdit
<1>14. CASE ResumeHistoryRecord
  <2>1. step.kind = "record"
    BY <1>14 DEF ResumeHistoryRecord, Held
  <2>2. ASSUME SameMode, FinishLine("accepted", parse, input) PROVE ModeInv'
    BY <1>1, <1>4, <2>1, <2>2, LineEnds DEF SameMode
  <2> QED
    BY <1>2, <1>3, <1>14, <2>2 DEF ResumeHistoryRecord
<1>15. CASE ResumeSignal
  <2>1. step.kind = "signal"
    BY <1>15 DEF ResumeSignal, Held
  <2>2. ASSUME step.of = "resize", SameMode, Ask("prompt", "left", parse, input) PROVE ModeInv'
    <3>1. mode = "cooked" => parse.completion # "none"
      BY <2>1, <2>2 DEF ModeInv, CookedInside
    <3> QED
      BY <1>1, <1>4, <2>1, <2>2, <3>1, AskKeeps DEF SameMode, Kinds
  <2>3. ASSUME SetOrFail("editing", Ask("signal", "continue", parse, input)) PROVE ModeInv'
    BY <1>1, <1>4, <2>1, <2>3, AskKeeps, AbandonKeeps DEF SetOrFail, Set, Kinds
  <2>4. ASSUME step.of = "continue", SameMode, Ask("resize", "resume", parse, input) PROVE ModeInv'
    <3>1. mode = "editing"
      BY <2>1, <2>4 DEF ModeInv, TerminalFollowsDriver, ModeFitsStep
    <3> QED
      BY <1>1, <1>4, <2>1, <2>4, <3>1, AskKeeps DEF SameMode, Kinds
  <2>5. ASSUME Complete("interrupted", input) PROVE ModeInv'
    BY <1>1, <2>5, CompleteKeeps DEF Results
  <2> QED
    BY <1>2, <1>3, <1>15, <2>2, <2>3, <2>4, <2>5 DEF ResumeSignal
<1> QED
  BY <1>5, <1>6, <1>7, <1>8, <1>10, <1>11, <1>12, <1>13, <1>14, <1>15 DEF Resume

LEMMA InputKeeps == ASSUME ModeInv, Input PROVE ModeInv'
<1>1. mode \in {"editing", "cooked", "quoted"} /\ failures \in Nat
  BY DEF ModeInv
<1>2. step.kind = "read" /\ parse.completion = "none"
  BY DEF Input, ReadBytes, ReadUnit, ReadTimedOut, ReadEnded, ReadFailed, ReadSignal, Held,
         ModeInv, ParserOk
<1>3. Parsing(parse)
  BY <1>2, ReadingParses
<1>4. Parsing(Reading) /\ Parsing(Refilled)
  BY <1>3 DEF Parsing, Reading, Refilled, Shape
<1>5. ASSUME Fail PROVE ModeInv'
  BY <1>1, <1>5, FailKeeps
<1>6. ASSUME Complete("interrupted", input) PROVE ModeInv'
  BY <1>1, <1>6, CompleteKeeps DEF Results
<1>7. ASSUME NEW p, NEW in, Parsing(p), SameMode, Go(p, in) PROVE ModeInv'
  BY <1>1, <1>7, GoKeeps DEF SameMode, Parsing, ParserFits, Completions
<1>8. CASE ReadBytes
  <2>1. PICK us \in Chunks : IF step.of = "alias selector" THEN AwaitSelector(Refilled, Heard(us))
                                                           ELSE SameMode /\ Go(Refilled, Heard(us))
    BY <1>8 DEF ReadBytes
  <2> QED
    BY <1>4, <1>7, <2>1, SelectorKeeps
<1>9. ASSUME NEW u, NEW in, SelectAlias(u, Refilled, in) PROVE ModeInv'
  <2> DEFINE l == Logged(Refilled, "selector", <<u>>)
  <2>1. ParserFits(l) /\ l.waiting = Refilled.waiting /\ l.completion = "none"
    BY <1>4, LoggedFits DEF Parsing, ParserFits, Completions
  <2>2. SameMode /\ Ask("alias", u, l, in)
    BY <1>9 DEF SelectAlias
  <2> HIDE DEF l
  <2> QED
    BY <1>1, <1>4, <2>1, <2>2, AskKeeps DEF SameMode, Parsing, Kinds
<1>10. CASE ReadUnit
  <2>1. PICK u \in Keys : LET in == [input EXCEPT !.heard = Append(@, u)]
                          IN IF step.of = "alias selector" THEN SelectAlias(u, Refilled, in)
                                                           ELSE Process(u, Refilled, in)
    BY <1>10 DEF ReadUnit
  <2> QED
    BY <1>4, <1>9, <2>1, ProcessKeeps
<1>11. CASE ReadTimedOut
  <2>1. ASSUME NEW s, parse.keys.bound # 0, Dispatch(s, Reading, CutShort) PROVE ModeInv'
    <3>1. Reading.waiting # "quoted"
      BY <1>3, <2>1 DEF Reading, Parsing, Shape
    <3> QED
      BY <1>4, <2>1, <3>1, DispatchKeeps
  <2>2. ASSUME NEW s, SameMode,
               BeepDisplay(Logged([Reading EXCEPT !.keys = NoKeys], "discard", s), CutShort)
        PROVE  ModeInv'
    <3> DEFINE q == [Reading EXCEPT !.keys = NoKeys]
               l == Logged(q, "discard", s)
    <3>1. Shape(q) /\ q.keys = NoKeys /\ q.waiting = Reading.waiting /\ q.completion = "none"
      BY <1>4, NoKeysOk DEF Parsing, Shape
    <3> HIDE DEF q
    <3>2. ParserFits(l) /\ l.waiting = Reading.waiting
      BY <3>1, LoggedFits DEF ParserFits, Completions, NoKeys
    <3> HIDE DEF l
    <3>3. BeepDisplay(l, CutShort)
      BY <2>2 DEF l, q
    <3> QED
      BY <1>1, <1>4, <2>2, <3>2, <3>3, CommandEnds DEF SameMode, Parsing
  <2> QED
    BY <1>5, <1>11, <2>1, <2>2 DEF ReadTimedOut
<1>12. CASE ReadEnded
  <2> DEFINE in == [input EXCEPT !.eof = TRUE]
  <2>1. IF step.of = "alias selector" THEN AwaitSelector(Reading, in) ELSE SameMode /\ Go(Reading, in)
    BY <1>12 DEF ReadEnded
  <2> HIDE DEF in
  <2> QED
    BY <1>4, <1>7, <2>1, SelectorKeeps
<1>13. CASE ReadFailed
  BY <1>5, <1>6, <1>13 DEF ReadFailed
<1>14. ASSUME NEW sig \in Signals, ReadSignal(sig) PROVE ModeInv'
  <2>1. Parsing(Interrupted) /\ ParserFits(Interrupted)
    BY <1>3 DEF Interrupted, Parsing, ParserFits, Shape, Completions
  <2>2. ASSUME NEW in, SameMode, Ask("resize", "signal", Interrupted, in) PROVE ModeInv'
    BY <1>1, <2>1, <2>2, AskKeeps DEF SameMode, Parsing, Kinds
  <2>3. ASSUME NEW in, sig = "continue",
               SetOrFail("editing", Ask("signal", sig, Interrupted, in))
        PROVE  ModeInv'
    BY <1>1, <2>1, <2>3, AskKeeps, AbandonKeeps DEF SetOrFail, Set, Parsing, Kinds
  <2>4. ASSUME NEW in, sig \in {"suspend", "interrupt"},
               SetOrFail("cooked", Ask("signal", sig, Interrupted, in))
        PROVE  ModeInv'
    BY <1>1, <2>1, <2>4, AskKeeps, AbandonKeeps DEF SetOrFail, Set, Parsing, Kinds
  <2> DEFINE in == IF step.of = "alias selector" THEN CutShort ELSE input
  <2>5. \/ Complete("interrupted", input)
        \/ SameMode /\ Ask("resize", "signal", Interrupted, in)
        \/ sig = "continue" /\ SetOrFail("editing", Ask("signal", sig, Interrupted, in))
        \/ sig \in {"suspend", "interrupt"}
           /\ SetOrFail("cooked", Ask("signal", sig, Interrupted, in))
    BY <1>14, Zenon DEF ReadSignal
  <2> HIDE DEF in
  <2> QED
    BY <1>6, <2>2, <2>3, <2>4, <2>5
<1> QED
  BY <1>8, <1>10, <1>11, <1>12, <1>13, <1>14 DEF Input

LEMMA ModeStep == ModeInv /\ [Next]_vars => ModeInv'
<1> SUFFICES ASSUME ModeInv, [Next]_vars PROVE ModeInv'
  OBVIOUS
<1>1. ASSUME UNCHANGED <<mode, failures, step, running, parse, result>> PROVE ModeInv'
  BY <1>1 DEF ModeInv, ParserOk, CookedInside, TerminalFollowsDriver, ModeFitsStep,
     QuotedWhileQuoting, CookedAtRest, AtRest
<1>2. CASE Configure \/ Reconfigure \/ UNCHANGED vars
  BY <1>1, <1>2 DEF Configure, Reconfigure, vars, counters
<1> QED
  BY <1>2, BeginKeeps, AdvanceKeeps, ResumeKeeps, InputKeeps DEF Next

(* The host is asked for input only with the terminal raw and handed        *)
(* stopping signals and the editor with it cooked, it is literal only while *)
(* a literal character is awaited, and a read that ended has left it        *)
(* cooked: for every keymap, every answer and every failed mode change      *)
(* (ReadDriver::set_terminal_mode's callers).                               *)
THEOREM DriverKeepsTerminal == Spec => []TerminalFollowsDriver
<1>1. ModeInv => TerminalFollowsDriver
  BY DEF ModeInv
<1> QED
  BY <1>1, ModeInit, ModeStep, PTL DEF Spec

(* A pending key sequence has its deadline, can grow into a binding and      *)
(* remembers the longest binding inside it, across repaints, signals and     *)
(* split chunks (process_unit, handle_signal, begin).                        *)
THEOREM PrefixesStayPending == Spec => []PrefixPending
<1>1. ModeInv => PrefixPending
  BY DEF ModeInv, ParserOk, Shape, KeysOk, PrefixPending
<1> QED
  BY <1>1, ModeInit, ModeStep, PTL DEF Spec

-----------------------------------------------------------------------------
(* The read that a signal interrupted.                                      *)

(* A read waits with nothing queued, and asks for what the pending sequence *)
(* calls for.                                                               *)
Waits(of) ==
  /\ Queue(input) = <<>> /\ ~input.eof
  /\ of = IF parse.keys.sequence = <<>> THEN "input" ELSE "key sequence"

(* From the signal to the read that is asked for again only repaints and    *)
(* the signal's own steps take place, and they leave parser and input.      *)
ResumeInv ==
  /\ step.kind = "read" => step.of = "alias selector" \/ Waits(step.of)
  /\ parse.asked \in {"input", "key sequence"} =>
       /\ parse.completion = "none" /\ Waits(parse.asked)
       /\ running \/ step.kind \in {"resize", "signal", "prompt", "display", "read"}
       /\ step.kind = "read" => step.of = parse.asked

(* A parser that remembers no interrupted read, and the calls that end with *)
(* one, having asked for no input but an alias selector.                    *)
Unasked(p) ==
  /\ DOMAIN p = {"keys", "waiting", "meta", "expanded", "completion", "log", "asked"}
  /\ p.asked \notin {"input", "key sequence"}
Forgets == Unasked(parse) /\ (step.kind = "read" => step.of = "alias selector")

LEMMA ForgetsInv == Forgets => ResumeInv
  BY DEF Forgets, Unasked, ResumeInv

LEMMA GoForgets == ASSUME NEW p, NEW in, Unasked(p), Go(p, in) PROVE Forgets'
  BY DEF Go, Forgets, Unasked, NoStep

LEMMA AskForgets ==
  ASSUME NEW kind, NEW of, NEW p, NEW in, Unasked(p), Ask(kind, of, p, in),
         kind = "read" => of = "alias selector"
  PROVE  Forgets'
  BY DEF Ask, Forgets, Unasked

LEMMA FreshUnasked == Unasked(Fresh) /\ \A log : Unasked([Fresh EXCEPT !.log = log])
  BY DEF Unasked, Fresh

LEMMA CompleteForgets == ASSUME NEW kind, NEW in, Complete(kind, in) PROVE Forgets'
<1>1. Unasked(parse')
  BY FreshUnasked DEF Complete
<1> QED
  BY <1>1 DEF Complete, Forgets, NoStep, Unasked

LEMMA AbandonForgets == ASSUME NEW n, Abandon(n) PROVE Forgets'
<1>1. Unasked(parse')
  BY FreshUnasked DEF Abandon
<1> QED
  BY <1>1 DEF Abandon, Forgets, NoStep, Unasked

LEMMA FailForgets == Fail => Forgets'
  BY AbandonForgets DEF Fail

LEMMA LoggedUnasked ==
  ASSUME NEW p, Unasked(p), NEW does, NEW keys PROVE Unasked(Logged(p, does, keys))
  BY DEF Logged, Unasked

LEMMA CommandForgets ==
  ASSUME NEW p, NEW in, Unasked(p), CommandDisplay(p, in) \/ BeepDisplay(p, in) PROVE Forgets'
<1>1. Unasked(Finishing(p))
  BY DEF Finishing, Unasked
<1> QED
  BY <1>1, AskForgets DEF CommandDisplay, BeepDisplay

LEMMA LineForgets ==
  ASSUME NEW kind, NEW p, NEW in, Unasked(p), FinishLine(kind, p, in) PROVE Forgets'
<1>1. Unasked([p EXCEPT !.completion = kind])
  BY DEF Unasked
<1> QED
  BY <1>1, AskForgets DEF FinishLine

LEMMA EndForgets == ASSUME NEW p, NEW in, Unasked(p), EndInput(p, in) PROVE Forgets'
<1> DEFINE e == [p EXCEPT !.keys = NoKeys, !.waiting = "none", !.meta = FALSE]
<1>1. Unasked(e)
  BY DEF Unasked
<1> HIDE DEF e
<1>2. FinishLine("end", e, in) \/ Abandon(1)
  BY DEF EndInput, SetOrFail, e
<1> QED
  BY <1>1, <1>2, LineForgets, AbandonForgets

LEMMA SelectForgets == ASSUME NEW u, NEW p, NEW in, Unasked(p), SelectAlias(u, p, in) PROVE Forgets'
<1>1. Unasked(Logged(p, "selector", <<u>>))
  BY LoggedUnasked
<1> QED
  BY <1>1, AskForgets DEF SelectAlias

LEMMA SelectorForgets == ASSUME NEW p, NEW in, Unasked(p), AwaitSelector(p, in) PROVE Forgets'
<1>1. \/ \E u, rest : SelectAlias(u, p, rest)
      \/ EndInput(p, in)
      \/ Ask("read", "alias selector", p, in)
  BY DEF AwaitSelector
<1> QED
  BY <1>1, SelectForgets, EndForgets, AskForgets

LEMMA DispatchForgets ==
  ASSUME NEW s, NEW parser, NEW in, Unasked(parser), Dispatch(s, parser, in) PROVE Forgets'
<1> DEFINE p == Logged([parser EXCEPT !.keys = NoKeys], "bound", s)
           command == Bindings[s].does
           text == Bindings[s].text
<1>1. Unasked(p)
  <2>1. Unasked([parser EXCEPT !.keys = NoKeys])
    BY DEF Unasked
  <2> QED
    BY <2>1, LoggedUnasked
<1> HIDE DEF p, command, text
<1>2. /\ Unasked(Charged(text, p)) /\ Unasked([p EXCEPT !.waiting = "quoted"])
      /\ Unasked([p EXCEPT !.meta = TRUE]) /\ Unasked([p EXCEPT !.waiting = "lead in"])
  BY <1>1 DEF Unasked, Charged
<1>3. \/ Expand(text, p, Go(Charged(text, p), PushFront(in, text)))
      \/ CommandDisplay(p, in)
      \/ FinishLine("end", p, in)
      \/ Ask("record", "none", p, in)
      \/ SetOrFail("quoted", Go([p EXCEPT !.waiting = "quoted"], in))
      \/ Go([p EXCEPT !.meta = TRUE], in)
      \/ Go([p EXCEPT !.waiting = "lead in"], in)
      \/ AwaitSelector(p, in)
      \/ DispatchEffect(command, p, in)
      \/ SetOrFail("cooked", Ask("edit", "none", p, in))
  BY Zenon DEF Dispatch, p, command, text
<1>4. CASE Expand(text, p, Go(Charged(text, p), PushFront(in, text)))
  BY <1>2, <1>4, GoForgets, FailForgets DEF Expand
<1>5. CASE SetOrFail("quoted", Go([p EXCEPT !.waiting = "quoted"], in))
  BY <1>2, <1>5, GoForgets, AbandonForgets DEF SetOrFail
<1>6. CASE SetOrFail("cooked", Ask("edit", "none", p, in))
  BY <1>1, <1>6, AskForgets, AbandonForgets DEF SetOrFail
<1>7. CASE DispatchEffect(command, p, in)
  BY <1>1, <1>7, CommandForgets, AskForgets DEF DispatchEffect
<1> QED
  BY <1>1, <1>2, <1>3, <1>4, <1>5, <1>6, <1>7, CommandForgets, LineForgets, AskForgets, GoForgets,
     SelectorForgets

LEMMA LookupForgets ==
  ASSUME NEW u, NEW parser, NEW in, Unasked(parser), Lookup(u, parser, in)
  PROVE  Forgets'
<1> DEFINE keys == parser.keys
           s == Append(keys.sequence, u)
           p == Prefix(parser, s)
           over == [parser EXCEPT !.keys = NoKeys]
           longer == [p EXCEPT !.keys.bound = Len(s)]
<1>1. Unasked(p) /\ Unasked(over)
  BY DEF Unasked, Prefix
<1>2. Unasked(longer)
  BY <1>1 DEF Unasked
<1> HIDE DEF s, p, over, longer
<1>3. \/ Go(longer, in) \/ Go(p, in)
      \/ Dispatch(s, parser, in)
      \/ Dispatch(SubSeq(s, 1, keys.bound), parser,
                  PushFront(in, SubSeq(s, keys.bound + 1, Len(s))))
      \/ CommandDisplay(Logged(over, "insert", s), in)
      \/ BeepDisplay(Logged(over, "discard", s), in)
  BY Zenon DEF Lookup, s, p, over, longer
<1>4. Unasked(Logged(over, "insert", s)) /\ Unasked(Logged(over, "discard", s))
  BY <1>1, LoggedUnasked
<1> QED
  BY <1>1, <1>2, <1>3, <1>4, GoForgets, DispatchForgets, CommandForgets

LEMMA ProcessForgets ==
  ASSUME NEW u, NEW p, NEW in, Unasked(p), Process(u, p, in) PROVE Forgets'
<1> DEFINE q == [p EXCEPT !.waiting = "none"]
           r == [p EXCEPT !.waiting = "none", !.meta = FALSE]
           v == IF p.meta THEN Meta[u] ELSE u
<1>1. Unasked(q) /\ Unasked(r) /\ r.keys = p.keys
  BY DEF Unasked
<1>2. Unasked(Logged(q, "literal", <<u>>))
  BY <1>1, LoggedUnasked
<1> HIDE DEF q, r, v
<1>3. \/ Complete("character", in)
      \/ SetOrFail("editing", CommandDisplay(Logged(q, "literal", <<u>>), in))
      \/ Lookup(v, r, in)
  BY Zenon DEF Process, q, r, v
<1> QED
  BY <1>1, <1>2, <1>3, CompleteForgets, CommandForgets, AbandonForgets, LookupForgets DEF SetOrFail

LEMMA EofForgets == ASSUME NEW p, NEW in, Unasked(p), HandleEof(p, in) PROVE Forgets'
  BY DispatchForgets, EndForgets DEF HandleEof

LEMMA ResumeInit == Init => ResumeInv
  BY DEF Init, ResumeInv, NoStep, Fresh

(* A step that keeps parser and input, and is no read.                      *)
LEMMA StaysKeeps ==
  ASSUME ResumeInv, step.kind \in Kinds \ {"none", "read"}, parse' = parse, input' = input,
         parse.asked \in {"input", "key sequence"} =>
           running' \/ step'.kind \in {"resize", "signal", "prompt", "display"},
         step'.kind # "read"
  PROVE  ResumeInv'
  BY DEF ResumeInv, Waits, Queue

LEMMA AdvanceResumes == ASSUME ModeInv, ResumeInv, Advance PROVE ResumeInv'
<1>1. DOMAIN parse = {"keys", "waiting", "meta", "expanded", "completion", "log", "asked"}
  BY DEF ModeInv, ParserOk, Shape
<1>2. CASE Complete(parse.completion, input)
  <2>1. Forgets'
    BY <1>2, CompleteForgets
  <2> QED
    BY <2>1, ForgetsInv, PTL
<1>3. CASE Process(Head(Queue(input)), parse, Rest(input)) /\ Queue(input) # <<>>
  <2>1. Unasked(parse)
    BY <1>1, <1>3 DEF ResumeInv, Waits, Unasked
  <2>2. Forgets'
    BY <1>3, <2>1, ProcessForgets
  <2> QED
    BY <2>2, ForgetsInv, PTL
<1>4. CASE HandleEof(parse, input) /\ input.eof
  <2>1. Unasked(parse)
    BY <1>1, <1>4 DEF ResumeInv, Waits, Unasked
  <2>2. Forgets'
    BY <1>4, <2>1, EofForgets
  <2> QED
    BY <2>2, ForgetsInv, PTL
<1>5. CASE /\ parse.completion = "none" /\ Queue(input) = <<>> /\ ~input.eof
           /\ Ask("read", IF parse.keys.sequence = <<>> THEN "input" ELSE "key sequence", parse, input)
  BY <1>5 DEF ResumeInv, Waits, Ask, Queue
<1> QED
  BY <1>2, <1>3, <1>4, <1>5 DEF Advance

LEMMA BeginResumes == ASSUME ResumeInv, Begin PROVE ResumeInv'
<1>1. CASE Fail
  <2>1. Forgets'
    BY <1>1, FailForgets
  <2> QED
    BY <2>1, ForgetsInv, PTL
<1>2. ASSUME NEW log, NEW in, Ask("resize", "prepare", [Fresh EXCEPT !.log = log], in)
      PROVE  ResumeInv'
  <2>1. Forgets'
    BY <1>2, FreshUnasked, AskForgets
  <2> QED
    BY <2>1, ForgetsInv, PTL
<1>3. CASE UNCHANGED <<step, running, input, parse>>
  BY <1>3 DEF ResumeInv, Waits, Queue
<1> QED
  BY <1>1, <1>2, <1>3 DEF Begin

LEMMA ResumeResumes == ASSUME ModeInv, ResumeInv, Resume PROVE ResumeInv'
<1>1. ASSUME \/ Fail \/ (\E i \in BOOLEAN : Ending(i)) \/ Complete("interrupted", input)
             \/ Abandon(1)
      PROVE  ResumeInv'
  <2>1. Forgets'
    BY <1>1, FailForgets, CompleteForgets, AbandonForgets DEF Ending
  <2> QED
    BY <2>1, ForgetsInv, PTL
<1>2. ASSUME step.kind \in Kinds \ {"none", "read"}, NEW kind \in {"resize", "signal", "prompt", "display"}, NEW of,
             Ask(kind, of, parse, input)
      PROVE  ResumeInv'
  BY <1>2, StaysKeeps DEF Ask
<1>3. ASSUME step.kind \in Kinds \ {"none", "read"}, Go(parse, input) PROVE ResumeInv'
  BY <1>3, StaysKeeps DEF Go, NoStep
<1>4. CASE step.kind \in {"history", "query", "user", "alias", "edit", "record"}
  <2>1. Unasked(parse)
    <3>1. ~running
      BY <1>4 DEF ModeInv, ParserOk
    <3> QED
      BY <1>4, <3>1 DEF ModeInv, ParserOk, Shape, ResumeInv, Unasked
  <2>2. ASSUME ResumeHistory \/ ResumeQuery \/ ResumeUserCommand \/ ResumeExternalEdit \/ ResumeHistoryRecord
        PROVE  Forgets'
    <3>1. \/ Fail \/ (\E i \in BOOLEAN : Ending(i)) \/ Abandon(1)
          \/ CommandDisplay(parse, input)
          \/ \E kind \in {"edit", "record"} : Ask(kind, "none", parse, input)
          \/ \E kind \in {"end", "accepted"} : FinishLine(kind, parse, input)
      BY <2>2 DEF ResumeHistory, ResumeQuery, ResumeUserCommand, ResumeExternalEdit, ResumeHistoryRecord,
         SetOrFail
    <3> QED
      BY <2>1, <3>1, FailForgets, CompleteForgets, AbandonForgets, CommandForgets, AskForgets, LineForgets
      DEF Ending
  <2>3. ASSUME ResumeAlias PROVE Forgets'
    <3> DEFINE p == Charged(Aliases[step.of], parse)
               in == PushFront(input, Aliases[step.of])
    <3>1. Unasked(p)
      BY <2>1 DEF Unasked, Charged
    <3>2. \/ Fail \/ Ending(TRUE) \/ CommandDisplay(p, in) \/ Go(p, in) \/ CommandDisplay(parse, input)
      BY <2>3 DEF ResumeAlias, Expand
    <3> HIDE DEF p, in
    <3> QED
      BY <2>1, <3>1, <3>2, FailForgets, CompleteForgets, CommandForgets, GoForgets DEF Ending
  <2>4. Forgets'
    BY <1>4, <2>2, <2>3 DEF Resume, ResumeResize, ResumePrompt, Display, ResumeSignal, Held
  <2> QED
    BY <2>4, ForgetsInv, PTL
<1>5. CASE ResumeResize \/ ResumePrompt \/ Display
  BY <1>1, <1>2, <1>3, <1>5 DEF ResumeResize, ResumePrompt, Display, Held, Kinds
<1>6. CASE ResumeSignal
  BY <1>1, <1>2, <1>6 DEF ResumeSignal, Held, Kinds, SetOrFail
<1> QED
  BY <1>4, <1>5, <1>6 DEF Resume, ResumeHistory, ResumeQuery, ResumeUserCommand, ResumeAlias,
     ResumeExternalEdit, ResumeHistoryRecord, Held

LEMMA InputResumes == ASSUME ModeInv, ResumeInv, Input PROVE ResumeInv'
<1>1. DOMAIN parse = {"keys", "waiting", "meta", "expanded", "completion", "log", "asked"}
  BY DEF ModeInv, ParserOk, Shape
<1>2. Unasked(Reading) /\ Unasked(Refilled) /\ \A keys : Unasked([Reading EXCEPT !.keys = keys])
  BY <1>1 DEF Unasked, Reading, Refilled
<1>3. ASSUME \/ ReadBytes \/ ReadUnit \/ ReadTimedOut \/ ReadEnded \/ ReadFailed
      PROVE  Forgets'
  <2>1. ASSUME NEW in, AwaitSelector(Refilled, in) \/ Go(Refilled, in) PROVE Forgets'
    BY <1>2, <2>1, SelectorForgets, GoForgets
  <2>2. CASE ReadBytes
    BY <2>1, <2>2 DEF ReadBytes
  <2>3. CASE ReadUnit
    <3>1. \E u, in : SelectAlias(u, Refilled, in) \/ Process(u, Refilled, in)
      BY <2>3 DEF ReadUnit
    <3> QED
      BY <1>2, <3>1, SelectForgets, ProcessForgets
  <2>4. CASE ReadTimedOut
    <3>1. \/ Fail
          \/ \E s : Dispatch(s, Reading, CutShort)
          \/ \E s : BeepDisplay(Logged([Reading EXCEPT !.keys = NoKeys], "discard", s), CutShort)
      BY <2>4 DEF ReadTimedOut
    <3>2. \A s : Unasked(Logged([Reading EXCEPT !.keys = NoKeys], "discard", s))
      BY <1>2, LoggedUnasked
    <3> QED
      BY <1>2, <3>1, <3>2, FailForgets, DispatchForgets, CommandForgets
  <2>5. CASE ReadEnded
    <3>1. \E in : AwaitSelector(Reading, in) \/ Go(Reading, in)
      BY <2>5 DEF ReadEnded
    <3> QED
      BY <1>2, <3>1, SelectorForgets, GoForgets
  <2>6. CASE ReadFailed
    BY <2>6, FailForgets, CompleteForgets DEF ReadFailed
  <2> QED
    BY <1>3, <2>2, <2>3, <2>4, <2>5, <2>6
<1>4. ASSUME NEW sig \in Signals, ReadSignal(sig) PROVE ResumeInv'
  <2> DEFINE in == IF step.of = "alias selector" THEN CutShort ELSE input
  <2>1. \/ Complete("interrupted", input) \/ Abandon(1)
        \/ \E kind \in {"resize", "signal"} : \E of : Ask(kind, of, Interrupted, in)
    BY <1>4 DEF ReadSignal, SetOrFail
  <2>2. step.kind = "read" /\ parse.completion = "none"
    BY <1>4 DEF ReadSignal, Held, ModeInv, ParserOk
  <2>3. /\ Interrupted.asked = step.of /\ Interrupted.keys = parse.keys
        /\ Interrupted.completion = parse.completion
    BY <1>1 DEF Interrupted
  <2>4. ASSUME Complete("interrupted", input) \/ Abandon(1) PROVE ResumeInv'
    <3>1. Forgets'
      BY <2>4, CompleteForgets, AbandonForgets
    <3> QED
      BY <3>1, ForgetsInv, PTL
  <2>5. ASSUME NEW kind \in {"resize", "signal"}, NEW of, Ask(kind, of, Interrupted, in) PROVE ResumeInv'
    <3>1. parse' = Interrupted /\ input' = in /\ step'.kind = kind
      BY <2>5 DEF Ask
    <3>2. step.of \in {"input", "key sequence"} => in = input /\ Waits(step.of)
      BY <2>2 DEF ResumeInv
    <3> HIDE DEF in
    <3> QED
      BY <2>2, <2>3, <2>5, <3>1, <3>2 DEF ResumeInv, Waits, Queue
  <2> QED
    BY <2>1, <2>4, <2>5
<1>5. CASE \/ ReadBytes \/ ReadUnit \/ ReadTimedOut \/ ReadEnded \/ ReadFailed
  <2>1. Forgets'
    BY <1>3, <1>5
  <2> QED
    BY <2>1, ForgetsInv, PTL
<1> QED
  BY <1>4, <1>5 DEF Input

LEMMA ResumeStep == ModeInv /\ ResumeInv /\ [Next]_vars => ResumeInv'
<1> SUFFICES ASSUME ModeInv, ResumeInv, [Next]_vars PROVE ResumeInv'
  OBVIOUS
<1>1. CASE Configure \/ Reconfigure \/ UNCHANGED vars
  BY <1>1 DEF Configure, Reconfigure, vars, counters, ResumeInv, Waits, Queue
<1> QED
  BY <1>1, BeginResumes, AdvanceResumes, ResumeResumes, InputResumes DEF Next

(* Whatever comes between, a repaint, a suspension, a reconfiguration, the   *)
(* read that follows a signal is the one it interrupted: a pending prefix    *)
(* is asked to go on, an empty line to begin (handle_signal, resume_signal). *)
THEOREM InterruptedReadsResume == Spec => []ReadIsResumed
<1>1. ResumeInv => ReadIsResumed
  BY DEF ResumeInv, ReadIsResumed, Waits
<1> QED
  BY <1>1, ModeInit, ModeStep, ResumeInit, ResumeStep, PTL DEF Spec
=============================================================================
