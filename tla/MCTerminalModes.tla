-------------------------- MODULE MCTerminalModes --------------------------
(***************************************************************************)
(* TerminalModes alone: two terminals, and settys of one or two arguments. *)
(***************************************************************************)
EXTENDS TerminalModes

AsFound == [c \in ControlCharacters |-> "found"]
MCTerminals == {[flags |-> {"canonical", "signals", "flow", "return"}, chars |-> AsFound],
                [flags |-> {"flow"}, chars |-> AsFound]}
Overriding(name, sign) == [kind |-> "override", name |-> name, sign |-> sign]
Single == {Overriding(name, sign) : name \in {"canonical", "flow"}, sign \in {"+", "-", " "}}
          \cup {[kind |-> "character", name |-> "eof"], [kind |-> "character", name |-> "intr"],
                Overriding("eof", "-"), [kind |-> "unknown"]}
MCSettings == {<<a>> : a \in Single}
              \cup {<<[kind |-> "character", name |-> "eof"], [kind |-> "unknown"]>>,
                    <<Overriding("canonical", "+"), Overriding("canonical", " ")>>}
=============================================================================
