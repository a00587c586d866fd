----------------------------- MODULE SignalSlot -----------------------------
(***************************************************************************)
(* crates/nshedit-plat/src/signal.rs, SignalSlot: the one AtomicU64 that   *)
(* connects the installed signal handler to ordinary code.  The word packs *)
(* an active bit, a generation and the pending signal; every operation is  *)
(* a load followed by a compare-exchange loop, and each load and each      *)
(* exchange is a step of its own here.                                     *)
(*                                                                         *)
(* MaxGeneration is the largest generation of the 31-bit field: after it   *)
(* the counter wraps and skips zero.  compare_exchange_weak's spurious     *)
(* failure re-reads the same word and is a stuttering step.                *)
(***************************************************************************)
EXTENDS Naturals

CONSTANTS Clients, Deliveries, Signals, NoClient, NoSignal, MaxGeneration

ASSUME SlotAssumption == /\ NoClient \notin Clients
                         /\ NoSignal \notin Signals
                         /\ Clients \cap Deliveries = {}
                         /\ MaxGeneration \in Nat \ {0}

VARIABLES state,   \* the atomic word
          held,    \* the SignalActivation each client holds, 0 for none
          pc,      \* where each client or handler invocation stands
          seen,    \* the word each of them loaded last (`observed`)
          signo,   \* the signal each handler invocation carries
          taken,   \* what the last take of each client's activation returned
          since    \* history: activations since a handler loaded an active word

vars == <<state, held, pc, seen, signo, taken, since>>

Word == [active : BOOLEAN, generation : 0..MaxGeneration,
         pending : Signals \cup {NoSignal}]

\* `observed & OWNER_MASK == activation`: the upper half of the word.
Owns(word, generation) == word.active /\ word.generation = generation
SameOwner(w, v) == w.active = v.active /\ w.generation = v.generation

\* Mutant of NextGeneration: the counter saturates instead of wrapping.
SaturatedGeneration(g) == IF g = MaxGeneration THEN g ELSE g + 1

\* wrapping_add(GENERATION_STEP) & GENERATION_MASK, skipping zero.
NextGeneration(g) == IF g = MaxGeneration THEN 1 ELSE g + 1

Activation(g) == [active |-> TRUE, generation |-> g, pending |-> NoSignal]

Init == /\ state = [active |-> FALSE, generation |-> 0, pending |-> NoSignal]
        /\ held = [c \in Clients |-> 0]
        /\ pc = [p \in Clients \cup Deliveries |-> "idle"]
        /\ seen = [p \in Clients \cup Deliveries |-> state]
        /\ signo = [d \in Deliveries |-> NoSignal]
        /\ taken = [c \in Clients |-> NoSignal]
        /\ since = [d \in Deliveries |-> 0]

\* The load that opens every loop.
Load(p, at) == /\ pc[p] = "idle"
               /\ seen' = [seen EXCEPT ![p] = state]
               /\ pc' = [pc EXCEPT ![p] = at]

Return(p) == pc' = [pc EXCEPT ![p] = "idle"]

\* `Err(actual) => observed = actual`.
Reload(p) == /\ seen[p] # state
             /\ seen' = [seen EXCEPT ![p] = state]
             /\ UNCHANGED <<state, held, pc, signo, taken, since>>

-----------------------------------------------------------------------------
\* activate: refuse while anyone is active, else install the next generation.
ActivateLoad(c) == /\ held[c] = 0
                   /\ Load(c, "activate")
                   /\ UNCHANGED <<state, held, signo, taken, since>>

ActivateRefused(c) == /\ pc[c] = "activate"
                      /\ seen[c].active
                      /\ Return(c)
                      /\ UNCHANGED <<state, held, seen, signo, taken, since>>

\* The handler invocations that loaded an active word and are still inside.
Bound(d) == pc[d] = "record" /\ seen[d].active

(* The bound on the generation space: no handler invocation stays preempted *)
(* between its load and its exchange for all MaxGeneration (2^31 - 1 in the *)
(* code) following activations.                                             *)
NoFullCycle == \A d \in Deliveries : Bound(d) => since[d] + 1 < MaxGeneration

Aged == [d \in Deliveries |-> IF Bound(d) THEN since[d] + 1 ELSE since[d]]

\* Mutant of ActivateExchange: a store where the compare-exchange should be.
ActivateStore(c) ==
  /\ pc[c] = "activate"
  /\ ~seen[c].active
  /\ NoFullCycle
  /\ LET g == NextGeneration(seen[c].generation)
     IN state' = Activation(g) /\ held' = [held EXCEPT ![c] = g]
  /\ since' = Aged
  /\ Return(c)
  /\ UNCHANGED <<seen, signo, taken>>

ActivateExchange(c) ==
  /\ pc[c] = "activate"
  /\ ~seen[c].active
  /\ \/ /\ seen[c] = state
        /\ NoFullCycle
        /\ LET g == NextGeneration(state.generation)
           IN state' = Activation(g) /\ held' = [held EXCEPT ![c] = g]
        /\ since' = Aged
        /\ Return(c)
        /\ UNCHANGED <<seen, signo, taken>>
     \/ Reload(c)

-----------------------------------------------------------------------------
\* record, from sig_trampoline: publish into the activation observed at entry.
RecordLoad(d, s) == /\ Load(d, "record")
                    /\ signo' = [signo EXCEPT ![d] = s]
                    /\ since' = [since EXCEPT ![d] = 0]
                    /\ UNCHANGED <<state, held, taken>>

RecordReject(d) == /\ pc[d] = "record"
                   /\ \/ ~seen[d].active
                      \/ ~SameOwner(seen[d], state)
                   /\ Return(d)
                   /\ UNCHANGED <<state, held, seen, signo, taken, since>>

\* Mutant of RecordExchange: after a lost race the new word is taken as it is,
\* whoever owns it.
RecordAnyway(d) ==
  /\ pc[d] = "record"
  /\ seen[d].active
  /\ state' = [state EXCEPT !.pending = signo[d]]
  /\ Return(d)
  /\ UNCHANGED <<held, seen, signo, taken, since>>

RecordExchange(d) ==
  /\ pc[d] = "record"
  /\ seen[d].active
  /\ \/ /\ seen[d] = state
        /\ state' = [state EXCEPT !.pending = signo[d]]
        /\ Return(d)
        /\ UNCHANGED <<held, seen, signo, taken, since>>
     \/ /\ SameOwner(seen[d], state)
        /\ Reload(d)

-----------------------------------------------------------------------------
\* take: swap the pending signal for none while this activation still owns, and
\* return the signal of the word the exchange replaced.
TakeLoad(c) == /\ held[c] # 0
               /\ Load(c, "take")
               /\ UNCHANGED <<state, held, signo, taken, since>>

TakeNothing(c) == /\ pc[c] = "take"
                  /\ \/ ~Owns(seen[c], held[c])
                     \/ seen[c].pending = NoSignal
                  /\ taken' = [taken EXCEPT ![c] = NoSignal]
                  /\ Return(c)
                  /\ UNCHANGED <<state, held, seen, signo, since>>

\* Mutant of TakeExchange: a store where the compare-exchange should be.
TakeStore(c) ==
  /\ pc[c] = "take"
  /\ Owns(seen[c], held[c])
  /\ seen[c].pending # NoSignal
  /\ state' = Activation(held[c])
  /\ taken' = [taken EXCEPT ![c] = seen[c].pending]
  /\ Return(c)
  /\ UNCHANGED <<held, seen, signo, since>>

TakeExchange(c) ==
  /\ pc[c] = "take"
  /\ Owns(seen[c], held[c])
  /\ seen[c].pending # NoSignal
  /\ \/ /\ seen[c] = state
        /\ state' = Activation(held[c])
        /\ taken' = [taken EXCEPT ![c] = seen[c].pending]
        /\ Return(c)
        /\ UNCHANGED <<held, seen, signo, since>>
     \/ Reload(c)

-----------------------------------------------------------------------------
\* deactivate: clear the active bit and the pending half in one exchange.
DeactivateLoad(c) == /\ held[c] # 0
                     /\ Load(c, "deactivate")
                     /\ UNCHANGED <<state, held, signo, taken, since>>

DeactivateExchange(c) ==
  /\ pc[c] = "deactivate"
  /\ \/ /\ Owns(seen[c], held[c])
        /\ seen[c] = state
        /\ state' = [state EXCEPT !.active = FALSE, !.pending = NoSignal]
        /\ held' = [held EXCEPT ![c] = 0]
        /\ taken' = [taken EXCEPT ![c] = NoSignal]
        /\ Return(c)
        /\ UNCHANGED <<seen, signo, since>>
     \/ /\ Owns(seen[c], held[c])
        /\ Reload(c)

-----------------------------------------------------------------------------
Client(c) == \/ ActivateLoad(c) \/ ActivateRefused(c) \/ ActivateExchange(c)
             \/ TakeLoad(c) \/ TakeNothing(c) \/ TakeExchange(c)
             \/ DeactivateLoad(c) \/ DeactivateExchange(c)

Handler(d) == \/ \E s \in Signals : RecordLoad(d, s)
              \/ RecordReject(d)
              \/ RecordExchange(d)

Next == \/ \E c \in Clients : Client(c)
        \/ \E d \in Deliveries : Handler(d)

Spec == Init /\ [][Next]_vars

-----------------------------------------------------------------------------
TypeOK == /\ state \in Word
          /\ held \in [Clients -> 0..MaxGeneration]
          /\ pc \in [Clients \cup Deliveries ->
                       {"idle", "activate", "record", "take", "deactivate"}]
          /\ seen \in [Clients \cup Deliveries -> Word]
          /\ signo \in [Deliveries -> Signals \cup {NoSignal}]
          /\ taken \in [Clients -> Signals \cup {NoSignal}]
          /\ since \in [Deliveries -> 0..MaxGeneration]

(* The active bit and the claims agree: the slot is active exactly while   *)
(* some client holds the generation it carries, no client holds any other, *)
(* and no two clients hold one (SignalHandlers::with_signals relies on it  *)
(* to reject a second simultaneous owner).                                 *)
SingleOwner ==
  /\ \A c \in Clients : held[c] # 0 => Owns(state, held[c])
  /\ \A c, e \in Clients : held[c] # 0 /\ held[e] # 0 => c = e
  /\ state.active => \E c \in Clients : held[c] = state.generation

\* The scope's owner, read off the word and the claims.
SlotOwner == IF state.active
             THEN CHOOSE c \in Clients : held[c] = state.generation
             ELSE NoClient

\* The handler invocations whose load bound them to the live activation.
Armed == {d \in Deliveries : Bound(d) /\ since[d] = 0 /\ state.active}

\* A take that loaded an empty word has had its answer then.
Given == [c \in Clients |-> IF pc[c] = "take" /\ seen[c].pending = NoSignal
                            THEN NoSignal ELSE taken[c]]

Mailbox == INSTANCE SignalMailbox
             WITH owner <- SlotOwner, inbox <- state.pending, armed <- Armed,
                  given <- Given

(* The compare-exchange loops implement the mailbox: each operation takes  *)
(* effect at one instant; take returns the delivery it removed, so that    *)
(* one published between its load and its exchange is neither dropped nor  *)
(* returned as another; and a handler delayed across teardown publishes    *)
(* into no later activation, until the generations have gone full circle.  *)
ImplementsMailbox == Mailbox!Spec

=============================================================================
