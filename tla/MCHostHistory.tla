--------------------------- MODULE MCHostHistory ---------------------------
\* An Emacs line over a history of two events.
EXTENDS HostHistory

Emacs == {[editing |-> "emacs", encoding |-> "wide", buffering |-> "line", attached |-> TRUE]}
Queries == {<<"a">>, <<"b">>}
Two == <<[number |-> 2, line |-> <<"a", "nl">>], [number |-> 1, line |-> <<"b", "sp", "a">>]>>
Short == {Two}
=============================================================================
