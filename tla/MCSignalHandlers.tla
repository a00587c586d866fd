-------------------------- MODULE MCSignalHandlers --------------------------
(***************************************************************************)
(* SignalHandlers with two of the seven signals: either two threads with   *)
(* nothing blocked, of which both use guards, or one that may block        *)
(* anything beside one that blocks everything and uses none.  In the       *)
(* second case two calls may fail, which is enough to leave a signal       *)
(* blocked everywhere, and two signals come.                               *)
(***************************************************************************)
EXTENDS SignalHandlers

CONSTANTS interrupt, resize, bystander

MCEditor == <<interrupt, resize>>
MCMasks == {[t \in Threads |-> {}]}
           \cup {[t \in Threads |-> IF t = bystander THEN {interrupt, resize} ELSE blocked] :
                  blocked \in SUBSET {interrupt, resize}}

\* The bounds of the two cases.
Within == IF callerMask[bystander] = Signals THEN pc'[bystander] = "idle"
          ELSE sends' <= 1 /\ failures' <= 1
=============================================================================
