----------------------------- MODULE MCRenderer -----------------------------
EXTENDS Renderer

MCPrompts == {<<>>, <<"on", "p", "off">>}
MCProfiles == {Addressing \cup {"right"}, Addressing \cup {"clear"}, {"clear"}}
MCEchoes == {<<>>, <<"c", "d">>}
=============================================================================
