--------------------------- MODULE SignalMailbox ---------------------------
(***************************************************************************)
(* What the process-wide pending-signal slot of nshedit-plat promises: at  *)
(* most one owner, an inbox that holds the latest delivery of the owner's  *)
(* scope, deliveries that can only ever reach the scope they began in, and *)
(* takes that answer with what they removed.                               *)
(*                                                                         *)
(* SignalSlot implements this with one atomic word and compare-exchange    *)
(* loops; SignalHandlers uses it as if every operation were atomic.        *)
(***************************************************************************)
CONSTANTS Clients,      \* threads that may own the editor's signal scope
          Deliveries,   \* invocations of the installed handler
          Signals,      \* signal numbers
          NoClient,     \* nobody owns the scope
          NoSignal      \* nothing is pending

VARIABLES owner,   \* the client whose scope is live
          inbox,   \* the latest delivery published to that scope
          armed,   \* the deliveries that began while this scope was live
          given    \* what the last take of each client's scope answered

vars == <<owner, inbox, armed, given>>

Init == /\ owner = NoClient
        /\ inbox = NoSignal
        /\ armed = {}
        /\ given = [c \in Clients |-> NoSignal]

\* A client takes the scope; the inbox of a fresh scope is empty.
Claim(c) == /\ owner = NoClient
            /\ owner' = c
            /\ UNCHANGED <<inbox, armed, given>>

\* A handler starts while a scope is live and is bound to that scope.
Begin(d) == /\ owner # NoClient
            /\ d \notin armed
            /\ armed' = armed \cup {d}
            /\ UNCHANGED <<owner, inbox, given>>

\* A bound handler publishes its signal over whatever was pending.
Post(d, s) == /\ d \in armed
              /\ armed' = armed \ {d}
              /\ inbox' = s
              /\ UNCHANGED <<owner, given>>

\* The owner consumes the pending delivery, and that one is its answer.
Take(c) == /\ owner = c
           /\ inbox # NoSignal
           /\ inbox' = NoSignal
           /\ given' = [given EXCEPT ![c] = inbox]
           /\ UNCHANGED <<owner, armed>>

\* The owner is told that nothing is pending, when nothing is.
Look(c) == /\ owner = c
           /\ inbox = NoSignal
           /\ given' = [given EXCEPT ![c] = NoSignal]
           /\ UNCHANGED <<owner, inbox, armed>>

\* The owner leaves: what is pending is dropped, what is in flight is unbound.
Release(c) == /\ owner = c
              /\ owner' = NoClient
              /\ inbox' = NoSignal
              /\ armed' = {}
              /\ given' = [given EXCEPT ![c] = NoSignal]

Next == \/ \E c \in Clients : Claim(c) \/ Take(c) \/ Look(c) \/ Release(c)
        \/ \E d \in Deliveries : Begin(d) \/ \E s \in Signals : Post(d, s)

Spec == Init /\ [][Next]_vars

=============================================================================
