-------------------------- MODULE SignalSlotProofs --------------------------
(***************************************************************************)
(* Proofs about SignalSlot for any number of clients, handler invocations, *)
(* signals and generations: the type invariant, the agreement of the       *)
(* active bit with the claims, and the refinement of SignalMailbox.        *)
(***************************************************************************)
EXTENDS SignalSlot, TLAPS

(* SlotInv strengthens SingleOwner to an inductive invariant: generation 0 *)
(* is never active, an inactive slot has nothing pending, and a client is  *)
(* inside take or deactivate only with a claim and inside activate only    *)
(* without one, a take has loaded a word of its own activation, and a       *)
(* handler's loop carries a signal.  GenerationsCount says what a generation *)
(* stands for: the word's is a bound handler's advanced by as many           *)
(* activations as there were since, which are too few to come back to it.    *)
Counted(d) ==
  Bound(d) =>
     /\ state.generation \in 1..MaxGeneration
     /\ seen[d].generation \in 1..MaxGeneration
     /\ since[d] \in 0..(MaxGeneration - 1)
     /\ \/ state.generation = seen[d].generation + since[d]
        \/ state.generation + MaxGeneration = seen[d].generation + since[d]

GenerationsCount == \A d \in Deliveries : Counted(d)

SlotInv ==
  /\ TypeOK
  /\ SingleOwner
  /\ state.active => state.generation # 0
  /\ ~state.active => state.pending = NoSignal
  /\ \A c \in Clients : /\ pc[c] # "record"
                        /\ pc[c] \in {"take", "deactivate"} => held[c] # 0
                        /\ pc[c] = "activate" => held[c] = 0
                        /\ pc[c] = "take" => Owns(seen[c], held[c])
  /\ \A d \in Deliveries : /\ pc[d] \in {"idle", "record"}
                           /\ pc[d] = "record" => signo[d] \in Signals
  /\ GenerationsCount

(* A generation is followed by a generation, never by the 0 of an untouched *)
(* slot (activate's wrap-around).                                           *)
LEMMA NextGenerationType ==
  ASSUME NEW g \in 0..MaxGeneration
  PROVE  NextGeneration(g) \in 1..MaxGeneration
  BY SlotAssumption DEF NextGeneration

(* The slot starts unclaimed and empty.                                    *)
LEMMA InitInv == Init => SlotInv
  BY SlotAssumption DEF Init, SlotInv, TypeOK, SingleOwner, Word, GenerationsCount, Counted, Bound

(* An activation advances the word's generation and every bound handler's  *)
(* age together; nothing else changes either.                              *)
LEMMA GenerationsKeepCount == SlotInv /\ [Next]_vars => GenerationsCount'
<1> SUFFICES ASSUME SlotInv, [Next]_vars, NEW d \in Deliveries, Bound(d)'
             PROVE  Counted(d)'
  BY DEF GenerationsCount, Counted
<1> USE SlotAssumption
<1>1. CASE /\ state'.generation = state.generation
           /\ Bound(d) /\ seen'[d] = seen[d] /\ since'[d] = since[d]
  BY <1>1 DEF SlotInv, GenerationsCount, Counted
<1>2. ASSUME NEW c \in Clients, ActivateExchange(c), ~Reload(c)
      PROVE  Counted(d)'
  <2> DEFINE g == NextGeneration(state.generation)
  <2>1. /\ state' = Activation(g) /\ since' = Aged /\ NoFullCycle
        /\ seen' = seen /\ pc' = [pc EXCEPT ![c] = "idle"]
    BY <1>2 DEF ActivateExchange, Return
  <2>2. Bound(d) /\ since'[d] = since[d] + 1 /\ since[d] + 1 < MaxGeneration
    BY <2>1 DEF Bound, Aged, NoFullCycle, SlotInv, TypeOK
  <2>3. state'.generation = g
    BY <2>1 DEF Activation
  <2> QED
    BY <2>1, <2>2, <2>3 DEF SlotInv, GenerationsCount, Counted, NextGeneration
<1>3. ASSUME NEW s \in Signals, RecordLoad(d, s) PROVE Counted(d)'
  <2>1. state' = state /\ seen'[d] = state /\ since'[d] = 0
    BY <1>3 DEF RecordLoad, Load, SlotInv, TypeOK
  <2>2. state.active
    BY <2>1 DEF Bound
  <2>3. state.generation \in 1..MaxGeneration
    BY <2>2 DEF SlotInv, TypeOK, Word
  <2> QED
    BY <2>1, <2>3 DEF Counted
<1>4. ASSUME RecordExchange(d), Reload(d) PROVE Counted(d)'
  <2>1. /\ state' = state /\ seen'[d] = state /\ since' = since /\ Bound(d)
        /\ seen[d].generation = state.generation
    BY <1>4 DEF RecordExchange, Reload, SlotInv, TypeOK, Bound, SameOwner
  <2> QED
    BY <2>1 DEF SlotInv, GenerationsCount, Counted
<1>5. ASSUME NEW c \in Clients, Client(c), ActivateExchange(c) => Reload(c)
      PROVE  Counted(d)'
  <2>1. seen'[d] = seen[d] /\ pc'[d] = pc[d] /\ since' = since
    BY <1>5 DEF Client, ActivateLoad, ActivateRefused, TakeLoad, TakeNothing, TakeExchange,
                DeactivateLoad, DeactivateExchange, Reload, Load, Return, SlotInv, TypeOK,
                ActivateExchange
  <2>2. state'.generation = state.generation
    <3>1. state' \in {state, Activation(state.generation),
                      [state EXCEPT !.active = FALSE, !.pending = NoSignal]}
      BY <1>5 DEF Client, ActivateLoad, ActivateRefused, TakeLoad, TakeNothing, TakeExchange,
                  DeactivateLoad, DeactivateExchange, Reload, Owns, ActivateExchange
    <3>2. state \in Word
      BY DEF SlotInv, TypeOK
    <3>3. \/ state' = state
          \/ state' = [active |-> TRUE, generation |-> state.generation, pending |-> NoSignal]
          \/ state' = [state EXCEPT !.active = FALSE, !.pending = NoSignal]
      BY <3>1 DEF Activation
    <3>4. CASE state' = [active |-> TRUE, generation |-> state.generation, pending |-> NoSignal]
      BY <3>4
    <3>5. CASE state' = [state EXCEPT !.active = FALSE, !.pending = NoSignal]
      BY <3>2, <3>5 DEF Word
    <3>6. CASE state' = state
      BY <3>6
    <3> QED
      BY <3>3, <3>4, <3>5, <3>6
  <2> QED
    BY <1>1, <2>1, <2>2 DEF Bound
<1>6. ASSUME NEW e \in Deliveries, Handler(e),
             \/ e # d
             \/ RecordReject(d)
             \/ RecordExchange(d) /\ ~Reload(d)
      PROVE  Counted(d)'
  <2>1. e # d
    <3>1. ~(RecordReject(d) \/ (RecordExchange(d) /\ ~Reload(d)))
      BY DEF RecordReject, RecordExchange, Return, Bound, SlotInv, TypeOK
    <3> QED
      BY <1>6, <3>1
  <2>2. seen'[d] = seen[d] /\ pc'[d] = pc[d] /\ since'[d] = since[d]
    BY <1>6, <2>1 DEF Handler, RecordLoad, RecordReject, RecordExchange, Reload, Load, Return,
                      SlotInv, TypeOK
  <2>3. state'.generation = state.generation
    BY <1>6 DEF Handler, RecordLoad, RecordReject, RecordExchange, Reload, SlotInv, TypeOK, Word
  <2> QED
    BY <1>1, <2>2, <2>3 DEF Bound
<1>7. CASE UNCHANGED vars
  BY <1>1, <1>7 DEF vars, Bound
<1> QED
  BY <1>2, <1>3, <1>4, <1>5, <1>6, <1>7 DEF Next, Handler, Client

(* Every step of every operation preserves SlotInv.                        *)
LEMMA StepInv == SlotInv /\ [Next]_vars => SlotInv'
<1> SUFFICES ASSUME SlotInv, [Next]_vars PROVE SlotInv'
  OBVIOUS
<1>0. GenerationsCount'
  BY GenerationsKeepCount
<1> USE <1>0
<1> USE SlotAssumption DEF SlotInv, TypeOK, SingleOwner, Word, Owns
<1>1. ASSUME NEW c \in Clients, ActivateLoad(c) PROVE SlotInv'
  BY <1>1 DEF ActivateLoad, Load
<1>2. ASSUME NEW c \in Clients, ActivateRefused(c) PROVE SlotInv'
  BY <1>2 DEF ActivateRefused, Return
<1>3. ASSUME NEW c \in Clients, ActivateExchange(c) PROVE SlotInv'
  <2>1. CASE Reload(c)
    BY <1>3, <2>1 DEF ActivateExchange, Reload
  <2>2. CASE seen[c] = state /\ ~Reload(c)
    <3> DEFINE g == NextGeneration(state.generation)
    <3>1. g \in 1..MaxGeneration
      BY NextGenerationType
    <3>2. /\ state' = Activation(g)
          /\ held' = [held EXCEPT ![c] = g]
          /\ pc' = [pc EXCEPT ![c] = "idle"]
          /\ UNCHANGED <<seen, signo, taken>>
          /\ since' \in [Deliveries -> 0..MaxGeneration]
      <4>1. /\ state' = Activation(g)
            /\ held' = [held EXCEPT ![c] = g]
            /\ pc' = [pc EXCEPT ![c] = "idle"]
            /\ UNCHANGED <<seen, signo, taken>>
            /\ since' = Aged /\ NoFullCycle
        BY <1>3, <2>2 DEF ActivateExchange, Return
      <4>2. Aged \in [Deliveries -> 0..MaxGeneration]
        BY <4>1 DEF Aged, NoFullCycle
      <4> QED
        BY <4>1, <4>2
    <3>3. \A e \in Clients : held[e] = 0
      BY <1>3, <2>2 DEF ActivateExchange
    <3> HIDE DEF g
    <3> QED
      BY <3>1, <3>2, <3>3 DEF Activation
  <2> QED
    BY <1>3, <2>1, <2>2 DEF ActivateExchange
<1>4. ASSUME NEW c \in Clients, TakeLoad(c) PROVE SlotInv'
  BY <1>4 DEF TakeLoad, Load
<1>5. ASSUME NEW c \in Clients, TakeNothing(c) PROVE SlotInv'
  BY <1>5 DEF TakeNothing, Return
<1>6. ASSUME NEW c \in Clients, TakeExchange(c) PROVE SlotInv'
  <2>1. CASE Reload(c)
    BY <1>6, <2>1 DEF TakeExchange, Reload
  <2>2. CASE seen[c] = state /\ ~Reload(c)
    <3>1. /\ state' = [active |-> TRUE, generation |-> held[c], pending |-> NoSignal]
          /\ pc' = [pc EXCEPT ![c] = "idle"]
          /\ held[c] # 0
          /\ Owns(state, held[c])
          /\ taken' = [taken EXCEPT ![c] = seen[c].pending]
          /\ UNCHANGED <<held, seen, signo, since>>
      BY <1>6, <2>2 DEF TakeExchange, Return, Activation
    <3> QED
      BY <3>1
  <2> QED
    BY <1>6, <2>1, <2>2 DEF TakeExchange
<1>7. ASSUME NEW c \in Clients, DeactivateLoad(c) PROVE SlotInv'
  BY <1>7 DEF DeactivateLoad, Load
<1>8. ASSUME NEW c \in Clients, DeactivateExchange(c) PROVE SlotInv'
  <2>1. CASE Reload(c)
    BY <1>8, <2>1 DEF DeactivateExchange, Reload
  <2>2. CASE seen[c] = state /\ ~Reload(c)
    <3>1. /\ state' = [state EXCEPT !.active = FALSE, !.pending = NoSignal]
          /\ held' = [held EXCEPT ![c] = 0]
          /\ pc' = [pc EXCEPT ![c] = "idle"]
          /\ held[c] # 0
          /\ taken' = [taken EXCEPT ![c] = NoSignal]
          /\ UNCHANGED <<seen, signo, since>>
      BY <1>8, <2>2 DEF DeactivateExchange, Return
    <3>2. \A e \in Clients : held'[e] = 0
      BY <3>1
    <3>3. state' \in Word /\ ~state'.active /\ state'.pending = NoSignal
      BY <3>1
    <3> QED
      BY <3>1, <3>2, <3>3
  <2> QED
    BY <1>8, <2>1, <2>2 DEF DeactivateExchange
<1>9. ASSUME NEW d \in Deliveries, NEW s \in Signals, RecordLoad(d, s)
      PROVE  SlotInv'
  BY <1>9 DEF RecordLoad, Load
<1>10. ASSUME NEW d \in Deliveries, RecordReject(d) PROVE SlotInv'
  BY <1>10 DEF RecordReject, Return
<1>11. ASSUME NEW d \in Deliveries, RecordExchange(d) PROVE SlotInv'
  BY <1>11 DEF RecordExchange, Return, Reload
<1>12. CASE UNCHANGED vars
  BY <1>12 DEF vars
<1> QED
  BY <1>1, <1>2, <1>3, <1>4, <1>5, <1>6, <1>7, <1>8, <1>9, <1>10, <1>11, <1>12
  DEF Next, Client, Handler

(* SlotInv holds throughout.                                               *)
THEOREM Invariance == Spec => []SlotInv
  BY InitInv, StepInv, PTL DEF Spec

(* Type correctness of the slot, the claims and the loops' local state.    *)
THEOREM Typing == Spec => []TypeOK
<1>1. SlotInv => TypeOK
  BY DEF SlotInv
<1> QED
  BY <1>1, Invariance, PTL

(* The active bit is set exactly while one client holds the generation the *)
(* word carries: with_signals can reject a second owner by that bit alone. *)
THEOREM OneOwner == Spec => []SingleOwner
<1>1. SlotInv => SingleOwner
  BY DEF SlotInv
<1> QED
  BY <1>1, Invariance, PTL

-----------------------------------------------------------------------------
OwnerIsHolder ==
  /\ ~state.active => SlotOwner = NoClient
  /\ state.active => SlotOwner \in Clients
  /\ \A c \in Clients : held[c] # 0 => state.active /\ SlotOwner = c

(* The holder of the active generation is the mailbox's owner, and an      *)
(* inactive slot has none.                                                 *)
LEMMA OwnerHolds == SlotInv => OwnerIsHolder
<1> SUFFICES ASSUME SlotInv PROVE OwnerIsHolder
  OBVIOUS
<1>1. ~state.active => SlotOwner = NoClient
  BY DEF SlotOwner
<1>2. state.active => SlotOwner \in Clients /\ held[SlotOwner] = state.generation
  <2>1. state.active => \E c \in Clients : held[c] = state.generation
    BY DEF SlotInv, SingleOwner
  <2> QED
    BY <2>1 DEF SlotOwner
<1>3. ASSUME NEW c \in Clients, held[c] # 0 PROVE state.active /\ SlotOwner = c
  <2>1. state.active /\ state.generation # 0
    BY <1>3 DEF SlotInv, SingleOwner, Owns
  <2>2. SlotOwner \in Clients /\ held[SlotOwner] # 0
    BY <1>2, <2>1
  <2> QED
    BY <1>3, <2>1, <2>2 DEF SlotInv, SingleOwner
<1> QED
  BY <1>1, <1>2, <1>3 DEF OwnerIsHolder

(* The handler invocations whose exchange can still succeed.               *)
Publishing == {d \in Deliveries : Bound(d) /\ SameOwner(seen[d], state)}

(* They are exactly the ones bound to the live activation: no generation   *)
(* comes back while a handler that saw it is still inside.                 *)
LEMMA ArmedPublish == SlotInv => Armed = Publishing
<1> SUFFICES ASSUME SlotInv, NEW d \in Deliveries, Bound(d)
             PROVE  since[d] = 0 /\ state.active <=> SameOwner(seen[d], state)
  BY DEF Armed, Publishing
<1>1. state.generation = seen[d].generation <=> since[d] = 0
  BY SlotAssumption DEF SlotInv, GenerationsCount, Counted
<1>2. seen[d].active /\ state.active \in BOOLEAN
  BY DEF Bound, SlotInv, TypeOK, Word
<1> QED
  BY <1>1, <1>2 DEF SameOwner

(* The initial slot is the initial mailbox.                                *)
LEMMA InitMaps == Init => Mailbox!Init
  BY SlotAssumption DEF Init, Mailbox!Init, SlotOwner, Armed, Bound, Given

(* A step that changes neither the upper half of the word nor the claims   *)
(* leaves the owner.                                                       *)
LEMMA SameSlotOwner ==
  ASSUME SameOwner(state', state), held' = held, SlotInv, SlotInv'
  PROVE  SlotOwner' = SlotOwner
  BY DEF SlotOwner, SameOwner, SlotInv, TypeOK, Word

(* Every step of the slot is a step of the mailbox or changes nothing of   *)
(* it: the loads, refusals and reloads stutter, except that a load by a    *)
(* handler while a scope is live binds it to that scope.                   *)
LEMMA StepMaps ==
  SlotInv /\ SlotInv' /\ [Next]_vars => [Mailbox!Next]_(Mailbox!vars)
<1> SUFFICES ASSUME SlotInv, SlotInv', [Next]_vars
             PROVE  Mailbox!Next \/ UNCHANGED <<SlotOwner, state.pending, Armed, Given>>
  BY DEF Mailbox!vars
<1> USE SlotAssumption
<1>a. TypeOK
  BY DEF SlotInv
<1>b. /\ OwnerIsHolder /\ OwnerIsHolder'
      /\ Armed = Publishing /\ Armed' = Publishing'
  <2>1. OwnerIsHolder /\ Armed = Publishing
    BY OwnerHolds, ArmedPublish
  <2>2. OwnerIsHolder'
    BY OwnerHolds, PTL
  <2>3. (Armed = Publishing)'
    BY ArmedPublish, PTL
  <2> QED
    BY <2>1, <2>2, <2>3
<1>c. state' = state => SameOwner(state', state)
  BY DEF SameOwner
<1>d. \A c \in Clients : pc[c] = "take" => held[c] # 0 /\ Owns(seen[c], held[c])
  BY DEF SlotInv
<1> USE DEF Publishing, Bound
<1>1. ASSUME NEW c \in Clients,
             \/ ActivateLoad(c) \/ ActivateRefused(c)
             \/ TakeLoad(c) \/ TakeNothing(c) \/ DeactivateLoad(c)
             \/ Reload(c) /\ ~(pc[c] = "take" /\ seen[c].pending = NoSignal)
      PROVE  Mailbox!Look(c) \/ UNCHANGED <<SlotOwner, state.pending, Armed, Given>>
  <2>1. state' = state /\ held' = held
    BY <1>1 DEF ActivateLoad, ActivateRefused, TakeLoad, TakeNothing,
                DeactivateLoad, Reload
  <2>2. \A d \in Deliveries : pc'[d] = pc[d] /\ seen'[d] = seen[d]
    BY <1>1, <1>a DEF ActivateLoad, ActivateRefused, TakeLoad, TakeNothing,
                DeactivateLoad, Reload, Load, Return, TypeOK
  <2>3. UNCHANGED <<SlotOwner, state.pending, Armed>>
    BY <1>b, <1>c, <2>1, <2>2, SameSlotOwner DEF SameOwner
  <2>4. \A e \in Clients \ {c} :
          pc'[e] = pc[e] /\ seen'[e] = seen[e] /\ taken'[e] = taken[e]
    BY <1>1, <1>a DEF ActivateLoad, ActivateRefused, TakeLoad, TakeNothing,
                DeactivateLoad, Reload, Load, Return, TypeOK
  <2>5. CASE pc'[c] = "take" /\ seen'[c] = state /\ state.pending = NoSignal /\ held[c] # 0
    <3>1. Given' = [Given EXCEPT ![c] = NoSignal]
      BY <2>4, <2>5 DEF Given
    <3>2. SlotOwner = c
      BY <1>b, <2>5 DEF OwnerIsHolder
    <3> QED
      BY <2>3, <2>5, <3>1, <3>2 DEF Mailbox!Look
  <2>6. CASE Given'[c] = Given[c]
    <3>1. Given' = Given
      BY <2>4, <2>6 DEF Given
    <3> QED
      BY <2>3, <3>1
  <2>7. CASE ActivateLoad(c) \/ ActivateRefused(c) \/ DeactivateLoad(c)
    <3>1. taken' = taken /\ pc[c] # "take" /\ pc'[c] # "take"
      BY <2>7, <1>a DEF ActivateLoad, ActivateRefused, DeactivateLoad, Load, Return, TypeOK
    <3> QED
      BY <2>6, <3>1 DEF Given
  <2>8. CASE TakeLoad(c)
    <3>1. /\ taken' = taken /\ pc[c] # "take" /\ pc'[c] = "take" /\ seen'[c] = state
          /\ held[c] # 0
      BY <2>8, <1>a DEF TakeLoad, Load, TypeOK
    <3> QED
      BY <2>5, <2>6, <3>1 DEF Given
  <2>9. CASE TakeNothing(c)
    <3>1. /\ seen[c].pending = NoSignal /\ pc[c] = "take" /\ pc'[c] = "idle"
          /\ taken'[c] = NoSignal
      BY <2>9, <1>a, <1>d DEF TakeNothing, Return, TypeOK
    <3> QED
      BY <2>6, <3>1 DEF Given
  <2>10. CASE Reload(c) /\ pc[c] # "take"
    BY <2>6, <2>10 DEF Given, Reload
  <2>11. CASE Reload(c) /\ pc[c] = "take" /\ seen[c].pending # NoSignal
    <3>1. /\ taken' = taken /\ pc' = pc /\ seen'[c] = state /\ held[c] # 0
      BY <2>11, <1>a, <1>d DEF Reload, TypeOK
    <3>2. CASE state.pending = NoSignal
      BY <2>5, <2>11, <3>1, <3>2
    <3>3. CASE state.pending # NoSignal
      BY <2>6, <2>11, <3>1, <3>3 DEF Given
    <3> QED
      BY <3>2, <3>3
  <2> QED
    BY <1>1, <2>7, <2>8, <2>9, <2>10, <2>11
<1>2. ASSUME NEW c \in Clients, ActivateExchange(c), ~Reload(c)
      PROVE  Mailbox!Claim(c)
  <2> DEFINE g == NextGeneration(state.generation)
  <2>1. /\ ~state.active
        /\ state' = Activation(g)
        /\ held'[c] = g /\ g # 0
        /\ since' = Aged
        /\ taken' = taken /\ seen' = seen /\ pc[c] = "activate" /\ pc'[c] = "idle"
        /\ \A p \in (Clients \cup Deliveries) \ {c} : pc'[p] = pc[p]
    BY <1>2, <1>a, NextGenerationType
       DEF ActivateExchange, TypeOK, Word, Return
  <2>2. Armed = {} /\ Armed' = {}
    <3>1. Armed = {}
      BY <2>1 DEF Armed
    <3>2. ASSUME NEW d \in Deliveries, Bound(d)' PROVE since'[d] # 0
      BY <2>1, <3>2, <1>a DEF Aged, TypeOK
    <3> QED
      BY <3>1, <3>2 DEF Armed
  <2>3. state.pending = NoSignal /\ state'.pending = NoSignal
    BY <2>1 DEF SlotInv, Activation
  <2>4. Given' = Given
    BY <2>1 DEF Given
  <2> QED
    BY <1>b, <2>1, <2>2, <2>3, <2>4 DEF Mailbox!Claim, OwnerIsHolder
<1>3. ASSUME NEW c \in Clients, TakeExchange(c), ~Reload(c)
      PROVE  Mailbox!Take(c)
  <2>1. /\ held[c] # 0 /\ held' = held
        /\ Owns(state, held[c])
        /\ state.pending # NoSignal
        /\ state' = Activation(held[c])
        /\ \A d \in Deliveries : pc'[d] = pc[d] /\ seen'[d] = seen[d]
    BY <1>3, <1>a, <1>d DEF TakeExchange, TypeOK, Return
  <2>2. Armed' = Armed /\ state'.pending = NoSignal
    BY <1>b, <2>1 DEF SameOwner, Owns, Activation
  <2>3. Given' = [Given EXCEPT ![c] = state.pending]
    <3>1. /\ taken' = [taken EXCEPT ![c] = state.pending] /\ seen' = seen
          /\ pc' = [pc EXCEPT ![c] = "idle"]
      BY <1>3 DEF TakeExchange, Return, Reload
    <3> QED
      BY <3>1, <1>a DEF Given, TypeOK
  <2> QED
    BY <1>b, <2>1, <2>2, <2>3 DEF Mailbox!Take, OwnerIsHolder
<1>4. ASSUME NEW c \in Clients, DeactivateExchange(c), ~Reload(c)
      PROVE  Mailbox!Release(c)
  <2>1. /\ held[c] # 0
        /\ state' = [state EXCEPT !.active = FALSE, !.pending = NoSignal]
        /\ taken' = [taken EXCEPT ![c] = NoSignal] /\ seen' = seen
        /\ pc' = [pc EXCEPT ![c] = "idle"]
    BY <1>4 DEF DeactivateExchange, SlotInv, Return
  <2>2. ~state'.active /\ state'.pending = NoSignal
    BY <2>1, <1>a DEF TypeOK, Word
  <2>3. Armed' = {}
    BY <2>2 DEF Armed
  <2>4. Given' = [Given EXCEPT ![c] = NoSignal]
    BY <2>1, <1>a DEF Given, TypeOK
  <2> QED
    BY <1>b, <2>1, <2>2, <2>3, <2>4 DEF Mailbox!Release, OwnerIsHolder
<1>5. ASSUME NEW d \in Deliveries, NEW s \in Signals, RecordLoad(d, s)
      PROVE  Mailbox!Begin(d) \/ UNCHANGED <<SlotOwner, state.pending, Armed, Given>>
  <2>1. /\ pc[d] = "idle" /\ state' = state /\ held' = held
        /\ pc'[d] = "record" /\ seen'[d] = state
        /\ \A e \in Deliveries \ {d} : pc'[e] = pc[e] /\ seen'[e] = seen[e]
    BY <1>5, <1>a DEF RecordLoad, Load, TypeOK
  <2>2. SlotOwner' = SlotOwner
    BY <1>c, <2>1, SameSlotOwner
  <2>3. d \notin Armed
    BY <2>1 DEF Armed
  <2>g. Given' = Given
    <3>1. taken' = taken /\ \A c \in Clients : pc'[c] = pc[c] /\ seen'[c] = seen[c]
      BY <1>5, <1>a DEF RecordLoad, Load, TypeOK
    <3> QED
      BY <3>1 DEF Given
  <2>4. CASE state.active
    <3>1. Armed' = Armed \cup {d}
      BY <1>b, <2>1, <2>4 DEF SameOwner
    <3>2. SlotOwner # NoClient
      BY <1>b, <2>4 DEF OwnerIsHolder
    <3> QED
      BY <2>1, <2>2, <2>3, <2>g, <3>1, <3>2 DEF Mailbox!Begin
  <2>5. CASE ~state.active
    <3>1. Armed' = Armed
      BY <1>b, <2>1, <2>3, <2>5 DEF SameOwner
    <3> QED
      BY <2>1, <2>2, <2>g, <3>1
  <2> QED
    BY <2>4, <2>5
<1>6. ASSUME NEW d \in Deliveries, RecordReject(d)
      PROVE  UNCHANGED <<SlotOwner, state.pending, Armed, Given>>
  <2>1. /\ state' = state /\ held' = held /\ seen' = seen
        /\ pc'[d] = "idle" /\ pc[d] = "record"
        /\ ~(seen[d].active /\ SameOwner(seen[d], state))
        /\ \A e \in Deliveries \ {d} : pc'[e] = pc[e]
    BY <1>6, <1>a DEF RecordReject, Return, TypeOK
  <2>2. Armed' = Armed
    BY <1>b, <2>1 DEF SameOwner
  <2>3. Given' = Given
    <3>1. taken' = taken /\ \A c \in Clients : pc'[c] = pc[c]
      BY <1>6, <1>a DEF RecordReject, Return, TypeOK
    <3> QED
      BY <2>1, <3>1 DEF Given
  <2> QED
    BY <1>c, <2>1, <2>2, <2>3, SameSlotOwner
<1>7. ASSUME NEW d \in Deliveries, RecordExchange(d)
      PROVE  \/ \E s \in Signals : Mailbox!Post(d, s)
             \/ UNCHANGED <<SlotOwner, state.pending, Armed, Given>>
  <2>g. Given' = Given
    <3>1. taken' = taken /\ \A c \in Clients : pc'[c] = pc[c] /\ seen'[c] = seen[c]
      BY <1>7, <1>a DEF RecordExchange, Reload, Return, TypeOK
    <3> QED
      BY <3>1 DEF Given
  <2>1. CASE Reload(d) /\ SameOwner(seen[d], state)
    <3>1. /\ state' = state /\ held' = held /\ pc' = pc
          /\ seen'[d] = state
          /\ \A e \in Deliveries \ {d} : seen'[e] = seen[e]
      BY <2>1, <1>a DEF Reload, TypeOK
    <3>2. state.active
      BY <1>7, <2>1 DEF RecordExchange, SameOwner
    <3>3. Armed' = Armed
      BY <1>b, <1>7, <2>1, <3>1, <3>2 DEF SameOwner, RecordExchange
    <3> QED
      BY <1>c, <2>g, <3>1, <3>3, SameSlotOwner
  <2>2. CASE seen[d] = state /\ ~Reload(d)
    <3>1. /\ pc[d] = "record" /\ state.active /\ signo[d] \in Signals
          /\ state' = [state EXCEPT !.pending = signo[d]]
          /\ held' = held /\ seen' = seen
          /\ pc'[d] = "idle"
          /\ \A e \in Deliveries \ {d} : pc'[e] = pc[e]
      BY <1>7, <1>a, <2>2 DEF RecordExchange, Return, TypeOK, SlotInv
    <3>2. SameOwner(state', state) /\ state'.pending = signo[d]
      BY <3>1, <1>a DEF SameOwner, TypeOK, Word
    <3>3. d \in Armed
      BY <1>b, <2>2, <3>1 DEF SameOwner
    <3>4. Armed' = Armed \ {d}
      BY <1>b, <3>1, <3>2 DEF SameOwner
    <3>5. SlotOwner' = SlotOwner
      BY <3>1, <3>2, SameSlotOwner
    <3> QED
      BY <2>g, <3>1, <3>2, <3>3, <3>4, <3>5 DEF Mailbox!Post
  <2> QED
    BY <1>7, <2>1, <2>2 DEF RecordExchange, Reload
<1>8. CASE UNCHANGED vars
  <2>1. state' = state /\ held' = held /\ pc' = pc /\ seen' = seen /\ taken' = taken
    BY <1>8 DEF vars
  <2> QED
    BY <1>b, <1>c, <2>1, SameSlotOwner DEF SameOwner, Given
<1>9. ASSUME NEW c \in Clients, Client(c) PROVE Mailbox!Next \/ UNCHANGED <<SlotOwner, state.pending, Armed, Given>>
  <2>1. CASE /\ Reload(c) /\ ~(pc[c] = "take" /\ seen[c].pending = NoSignal)
    BY <1>1, <2>1 DEF Mailbox!Next
  <2>2. CASE \/ ActivateLoad(c) \/ ActivateRefused(c)
             \/ TakeLoad(c) \/ TakeNothing(c) \/ DeactivateLoad(c)
    BY <1>1, <2>2 DEF Mailbox!Next
  <2>3. CASE ActivateExchange(c)
    BY <1>2, <2>1, <2>3 DEF ActivateExchange, Mailbox!Next
  <2>4. CASE TakeExchange(c)
    BY <1>3, <2>1, <2>4 DEF TakeExchange, Mailbox!Next
  <2>5. CASE DeactivateExchange(c)
    BY <1>4, <2>1, <2>5 DEF DeactivateExchange, Mailbox!Next
  <2> QED
    BY <1>9, <2>2, <2>3, <2>4, <2>5 DEF Client
<1> QED
  BY <1>5, <1>6, <1>7, <1>8, <1>9 DEF Next, Handler, Mailbox!Next

(* The compare-exchange loops implement the atomic mailbox: whatever the    *)
(* interleaving, an operation of the slot takes effect at one instant and a *)
(* handler overtaken by a teardown publishes into no later activation.      *)
THEOREM Refinement == Spec => ImplementsMailbox
  BY InitMaps, StepMaps, Invariance, PTL DEF Spec, ImplementsMailbox, Mailbox!Spec

=============================================================================
