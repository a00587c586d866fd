------------------------ MODULE SignalHandlersProofs ------------------------
(***************************************************************************)
(* Proofs about SignalHandlers, for any number of threads, any signals,    *)
(* any masks, and however many signals are sent and system calls fail: no  *)
(* disposition is lost or overwritten.                                     *)
(***************************************************************************)
EXTENDS SignalHandlers, SequenceTheorems, TLAPS

(* DispositionsAreOwed made inductive: guards select signals, a thread that *)
(* installs owns the slot, and one about to give it up has nothing saved.   *)
OwedInv ==
  /\ enabled \in [Threads -> SUBSET Signals]
  /\ saved \in [Threads -> SUBSET Signals]
  /\ disp \in [Signals -> {Caller} \cup SUBSET Signals]
  /\ pc \in [Threads -> Labels]
  /\ \A t \in Threads : pc[t] \in {"install", "rearm"} => owner = t
  /\ \A t \in Threads : pc[t] \in {"withdraw", "forget"} => saved[t] = {}
  /\ DispositionsAreOwed

LEMMA OwedInit == Init => OwedInv
  BY DEF Init, OwedInv, Labels, DispositionsAreOwed, TrampolineOwed, SavedIsDisplaced, Mailbox!Init

-----------------------------------------------------------------------------
(* Steps that touch neither the dispositions nor what is saved.             *)

LEMMA OtherStepsOwe ==
  ASSUME OwedInv, NEW t \in Threads, NEW label \in Labels,
         enabled' \in [Threads -> SUBSET Signals],
         UNCHANGED <<disp, stranded, saved, owner>>,
         pc' = [pc EXCEPT ![t] = label],
         label \in {"install", "rearm"} => owner = t,
         label \in {"withdraw", "forget"} => saved[t] = {}
  PROVE  OwedInv'
  BY DEF OwedInv, DispositionsAreOwed, TrampolineOwed, SavedIsDisplaced

LEMMA StillOwed ==
  ASSUME OwedInv, UNCHANGED <<disp, stranded, guard, owner, pc>>
  PROVE  OwedInv'
  BY DEF OwedInv, DispositionsAreOwed, TrampolineOwed, SavedIsDisplaced, guard

LEMMA BeginsOwe ==
  ASSUME OwedInv, NEW t \in Threads,
         \/ \E S \in SUBSET Signals : Construct(t, S)
         \/ \E s \in Signals : Propagate(t, s)
         \/ TakePending(t) \/ Rearm(t) \/ Disarm(t)
  PROVE  OwedInv'
<1> USE DEF At, Goto, Block, Labels, os, guard, mailbox
<1>1. ASSUME NEW S \in SUBSET Signals, Construct(t, S) PROVE OwedInv'
  BY <1>1, OtherStepsOwe DEF Construct, OwedInv
<1>2. ASSUME NEW s \in Signals, Propagate(t, s) PROVE OwedInv'
  BY <1>2, OtherStepsOwe DEF Propagate, OwedInv
<1>3. CASE TakePending(t)
  BY <1>3, StillOwed DEF TakePending, Mailbox!Take, Mailbox!Look
<1>4. CASE Rearm(t)
  BY <1>4, OtherStepsOwe DEF Rearm, Live, OwedInv
<1>5. CASE Disarm(t)
  BY <1>5, OtherStepsOwe DEF Disarm, OwedInv
<1> QED
  BY <1>1, <1>2, <1>3, <1>4, <1>5

(* The claim finds the slot free, and then nothing is owed but what was     *)
(* given up.                                                                *)
LEMMA ClaimOwes ==
  ASSUME OwedInv, NEW t \in Threads, Claim(t)
  PROVE  OwedInv'
<1> USE DEF At, Goto, os, guard, mailbox
<1>1. CASE Mailbox!Claim(t) /\ Goto(t, "install")
  BY <1>1, HandlersAssumption
  DEF Claim, Mailbox!Claim, OwedInv, Labels, DispositionsAreOwed, TrampolineOwed, SavedIsDisplaced
<1>2. CASE Goto(t, "refuse") /\ UNCHANGED mailbox
  BY <1>2, OtherStepsOwe DEF Claim, OwedInv, Labels
<1> QED
  BY <1>1, <1>2 DEF Claim

(* Installing over the caller's disposition saves it; installing over our   *)
(* own changes nothing that is owed.                                        *)
LEMMA InstallOwes ==
  ASSUME OwedInv, NEW t \in Threads, NEW from \in {"install", "rearm"},
         NEW found \in {"commit", "unblock"}, NEW undo \in {"undo", "unblock"},
         Install(t, from, found, undo)
  PROVE  OwedInv'
<1> USE DEF At, Goto, mailbox
<1>1. /\ owner = t /\ owner' = owner /\ enabled' = enabled /\ stranded' = stranded
      /\ pc[t] = from /\ enabled[t] \in SUBSET Signals /\ enabled[t] # Caller
  BY HandlersAssumption DEF Install, OwedInv
<1>2. CASE UNCHANGED <<disp, saved>> /\ (Goto(t, found) \/ Goto(t, undo))
  BY <1>1, <1>2, OtherStepsOwe DEF OwedInv, Labels
<1>3. ASSUME NEW s \in Missing(t), disp[s] = Caller,
             disp' = [disp EXCEPT ![s] = enabled[t]],
             saved' = [saved EXCEPT ![t] = @ \cup {s}], UNCHANGED pc
      PROVE  OwedInv'
  <2>1. s \in Signals
    BY <1>1, <1>3 DEF Missing
  <2>2. /\ saved' \in [Threads -> SUBSET Signals]
        /\ disp' \in [Signals -> {Caller} \cup SUBSET Signals]
        /\ \A u \in Threads : u # t => saved'[u] = saved[u]
        /\ \A r \in Signals : r # s => disp'[r] = disp[r]
        /\ saved'[t] = saved[t] \cup {s} /\ disp'[s] = enabled[t] /\ pc' = pc
    BY <1>1, <1>3, <2>1 DEF OwedInv
  <2>3. TrampolineOwed'
    BY <1>1, <2>1, <2>2, HandlersAssumption DEF OwedInv, DispositionsAreOwed, TrampolineOwed
  <2>4. SavedIsDisplaced'
    BY <1>1, <2>1, <2>2 DEF OwedInv, DispositionsAreOwed, SavedIsDisplaced
  <2> QED
    BY <1>1, <2>2, <2>3, <2>4 DEF OwedInv, DispositionsAreOwed
<1>4. ASSUME NEW s \in Missing(t), disp[s] # Caller,
             disp' = [disp EXCEPT ![s] = enabled[t]], Goto(t, undo), UNCHANGED saved
      PROVE  OwedInv'
  <2>1. s \in Signals
    BY <1>1, <1>4 DEF Missing
  <2> QED
    BY <1>1, <1>4, <2>1 DEF OwedInv, Labels, DispositionsAreOwed, TrampolineOwed, SavedIsDisplaced
<1> QED
  BY <1>2, <1>3, <1>4 DEF Install, First

(* Giving a disposition back pays the debt, or the failure is remembered.   *)
LEMMA RestoreOwes ==
  ASSUME OwedInv, NEW t \in Threads, NEW from \in Labels, NEW to \in {"withdraw", "forget"},
         Restore(t, from, to), from \notin {"install", "rearm", "withdraw", "forget"}
  PROVE  OwedInv'
<1> USE DEF At, Goto, mailbox
<1>1. owner' = owner /\ enabled' = enabled
  BY DEF Restore
<1>2. CASE saved[t] = {} /\ Goto(t, to) /\ UNCHANGED <<disp, stranded, saved>>
  BY <1>1, <1>2, OtherStepsOwe DEF OwedInv, Labels
<1>3. ASSUME NEW s \in saved[t], saved' = [saved EXCEPT ![t] = @ \ {s}], UNCHANGED pc,
             \/ disp' = [disp EXCEPT ![s] = Caller] /\ UNCHANGED stranded
             \/ stranded' = stranded \cup {s} /\ UNCHANGED disp
      PROVE  OwedInv'
  <2>1. s \in Signals /\ owner = t /\ disp[s] # Caller /\ pc[t] = from
    BY <1>3 DEF OwedInv, DispositionsAreOwed, SavedIsDisplaced, Restore
  <2>2. CASE disp' = [disp EXCEPT ![s] = Caller] /\ UNCHANGED stranded
    BY <1>1, <1>3, <2>1, <2>2 DEF OwedInv, DispositionsAreOwed, TrampolineOwed, SavedIsDisplaced
  <2>3. CASE stranded' = stranded \cup {s} /\ UNCHANGED disp
    BY <1>1, <1>3, <2>1, <2>3 DEF OwedInv, DispositionsAreOwed, TrampolineOwed, SavedIsDisplaced
  <2> QED
    BY <1>3, <2>2, <2>3
<1> QED
  BY <1>2, <1>3 DEF Restore, First

LEMMA WithdrawOwes ==
  ASSUME OwedInv, NEW t \in Threads, NEW from \in {"withdraw", "forget"},
         NEW to \in {"unblock", "idle"}, Withdraw(t, from, to)
  PROVE  OwedInv'
<1>1. /\ owner = t /\ saved[t] = {} /\ owner' = NoClient
      /\ enabled' = [enabled EXCEPT ![t] = {}] /\ pc' = [pc EXCEPT ![t] = to]
      /\ UNCHANGED <<disp, stranded, saved>>
  BY DEF Withdraw, Mailbox!Release, OwedInv, At, Goto, os
<1>2. \A u \in Threads : saved[u] = {}
  BY <1>1 DEF OwedInv, DispositionsAreOwed, SavedIsDisplaced
<1>3. \A u \in Threads : pc'[u] \notin {"install", "rearm"}
  BY <1>1 DEF OwedInv
<1> QED
  BY <1>1, <1>2, <1>3 DEF OwedInv, Labels, DispositionsAreOwed, TrampolineOwed, SavedIsDisplaced

LEMMA GiveBackOwes ==
  ASSUME OwedInv, NEW t \in Threads, GiveBack(t)
  PROVE  OwedInv'
<1> USE DEF At, Goto, mailbox
<1>1. owner' = owner /\ enabled' = enabled /\ stranded' = stranded /\ pc[t] = "give back"
  BY DEF GiveBack
<1>2. CASE Goto(t, "unblock") /\ UNCHANGED <<disp, saved>>
  BY <1>1, <1>2, OtherStepsOwe DEF OwedInv, Labels
<1>3. ASSUME target[t] \in saved[t], disp' = [disp EXCEPT ![target[t]] = Caller],
             saved' = [saved EXCEPT ![t] = @ \ {target[t]}], Goto(t, "raise")
      PROVE  OwedInv'
  <2> DEFINE s == target[t]
  <2>1. s \in Signals /\ owner = t /\ s \in saved[t]
    BY <1>3 DEF OwedInv, DispositionsAreOwed, SavedIsDisplaced
  <2>2. disp' = [disp EXCEPT ![s] = Caller] /\ saved' = [saved EXCEPT ![t] = @ \ {s}]
    BY <1>3
  <2>3. pc' = [pc EXCEPT ![t] = "raise"]
    BY <1>3
  <2> HIDE DEF s
  <2> QED
    BY <1>1, <2>1, <2>2, <2>3
    DEF OwedInv, Labels, DispositionsAreOwed, TrampolineOwed, SavedIsDisplaced
<1> QED
  BY <1>2, <1>3 DEF GiveBack

LEMMA StepsOwe ==
  ASSUME OwedInv, NEW t \in Threads, Step(t)
  PROVE  OwedInv'
<1> USE DEF At, Goto, guard, mailbox, os, Labels
<1>1. CASE Claim(t)
  BY <1>1, ClaimOwes
<1>2. CASE ConstructInstall(t) \/ RearmInstall(t)
  BY <1>2, InstallOwes DEF ConstructInstall, RearmInstall
<1>3. CASE Commit(t)
  BY <1>3, OtherStepsOwe DEF Commit, OwedInv
<1>4. CASE Refuse(t)
  BY <1>4, OtherStepsOwe DEF Refuse, Unblock, OwedInv
<1>5. CASE GiveBack(t)
  BY <1>5, GiveBackOwes
<1>6. CASE Raise(t)
  BY <1>6, OtherStepsOwe DEF Raise, OwedInv
<1>7. CASE OperationEnds(t)
  BY <1>7, OtherStepsOwe DEF OperationEnds, Unblock, OwedInv
<1>8. CASE RestoreSaved(t)
  BY <1>8, RestoreOwes DEF RestoreSaved
<1>9. CASE WithdrawActivation(t)
  BY <1>9, WithdrawOwes DEF WithdrawActivation
<1> QED
  BY <1>1, <1>2, <1>3, <1>4, <1>5, <1>6, <1>7, <1>8, <1>9 DEF Step

(* The system and the trampoline touch neither dispositions nor guards, and *)
(* leave the slot to its owner.                                             *)
LEMMA DeliveriesOwe ==
  ASSUME OwedInv,
         \/ \E t \in Threads : Trampoline(t)
         \/ \E t \in Threads, s \in Signals : DeliverRaised(t, s) \/ DeliverSent(t, s)
         \/ \E s \in Signals : Send(s)
  PROVE  OwedInv'
<1>1. UNCHANGED <<disp, stranded, guard, owner, pc>>
  <2>1. ASSUME NEW t \in Threads, TrampolineLoad(t)
        PROVE  UNCHANGED <<disp, stranded, guard, owner, pc>>
    BY <2>1 DEF TrampolineLoad, Mailbox!Begin, mailbox
  <2>2. ASSUME NEW t \in Threads, TrampolineReturn(t)
        PROVE  UNCHANGED <<disp, stranded, guard, owner, pc>>
    BY <2>2 DEF TrampolineReturn, Mailbox!Post, mailbox
  <2>3. ASSUME NEW t \in Threads, NEW s \in Signals, DeliverRaised(t, s) \/ DeliverSent(t, s)
        PROVE  UNCHANGED <<disp, stranded, guard, owner, pc>>
    BY <2>3 DEF DeliverRaised, DeliverSent, Handle, mailbox
  <2>4. ASSUME NEW s \in Signals, Send(s)
        PROVE  UNCHANGED <<disp, stranded, guard, owner, pc>>
    BY <2>4 DEF Send, mailbox
  <2> QED
    BY <2>1, <2>2, <2>3, <2>4 DEF Trampoline
<1> QED
  BY <1>1, StillOwed

LEMMA OwedStep == OwedInv /\ [Next]_vars => OwedInv'
<1> SUFFICES ASSUME OwedInv, [Next]_vars PROVE OwedInv'
  OBVIOUS
<1>1. ASSUME NEW t \in Threads, Step(t) PROVE OwedInv'
  BY <1>1, StepsOwe
<1>2. ASSUME NEW t \in Threads, Operation(t) PROVE OwedInv'
  BY <1>2, BeginsOwe DEF Operation
<1>3. CASE \/ \E t \in Threads : Trampoline(t)
           \/ \E t \in Threads, s \in Signals : DeliverRaised(t, s) \/ DeliverSent(t, s)
           \/ \E s \in Signals : Send(s)
  BY <1>3, DeliveriesOwe
<1>4. CASE UNCHANGED vars
  BY <1>4, StillOwed DEF vars, os, mailbox
<1> QED
  BY <1>1, <1>2, <1>3, <1>4 DEF Next

(* Every disposition the editor displaced is the caller's again or owed to  *)
(* it by the live owner, and nothing recorded as displaced is stale, after  *)
(* any operations of any threads and any failed calls (with_signals,        *)
(* propagate, rearm, disarm).                                               *)
THEOREM NoDispositionIsLost == Spec => []DispositionsAreOwed
<1>1. OwedInv => DispositionsAreOwed
  BY DEF OwedInv
<1> QED
  BY <1>1, OwedInit, OwedStep, PTL DEF Spec
-----------------------------------------------------------------------------
(* MasksAreTheCallers made inductive.  What a thread is to keep blocked is  *)
(* the caller's mask and what a failed closing call left: below any         *)
(* handlers that run on it, a thread with no mask to put back has that, and *)
(* one in an operation remembers it and blocks at least that; what          *)
(* propagate raises is the caller's until it has been delivered, since its  *)
(* owner rests till then and nobody else installs.                          *)

Frames == [signal : Signals, loaded : BOOLEAN, mask : SUBSET Signals]

MasksTyped ==
  /\ mask \in [Threads -> SUBSET Signals]
  /\ callerMask \in [Threads -> SUBSET Signals]
  /\ lost \in [Threads -> SUBSET Signals]
  /\ previous \in [Threads -> SUBSET Signals]
  /\ thread \in [Threads -> SUBSET (Signals \cup {NoSignal})]
  /\ frames \in [Threads -> Seq(Frames)]
  /\ target \in [Threads -> Signals \cup {NoSignal}]
  /\ inbox \in Signals \cup {NoSignal}

(* The mask a thread has when the handlers on it have returned.             *)
Base(t) == IF frames[t] = <<>> THEN mask[t] ELSE frames[t][1].mask

Kept(t) == callerMask[t] \cup lost[t]

(* Where a thread has no mask to put back.                                  *)
Unmasked == {"idle", "abandon", "forget"}

Unobstructed(t) ==
  /\ pc[t] \in Unmasked => Base(t) = Kept(t)
  /\ pc[t] \notin Unmasked => previous[t] = Kept(t) /\ Kept(t) \subseteq Base(t)
  /\ pc[t] = "raise" => owner = t /\ target[t] \in Signals /\ disp[target[t]] = Caller
  /\ thread[t] \subseteq Signals
  /\ \A s \in thread[t] \ Kept(t) :
       disp[s] = Caller /\ owner = t /\ pc[t] \in {"idle", "unblock"}

MaskInv == /\ OwedInv
           /\ MasksTyped
           /\ \A t \in Threads : Unobstructed(t)

LEMMA MaskInit == Init => MaskInv
<1> SUFFICES ASSUME Init PROVE MaskInv
  OBVIOUS
<1>1. MasksTyped
  BY HandlersAssumption DEF Init, MasksTyped, Mailbox!Init
<1>2. \A t \in Threads : Unobstructed(t)
  BY DEF Init, Unobstructed, Base, Kept, Unmasked
<1> QED
  BY <1>1, <1>2, OwedInit DEF MaskInv

-----------------------------------------------------------------------------
(* A step of thread u disturbs another thread only through the slot and the *)
(* dispositions.                                                            *)

SameAt(t) ==
  /\ mask'[t] = mask[t] /\ callerMask'[t] = callerMask[t] /\ previous'[t] = previous[t]
  /\ lost'[t] = lost[t]
  /\ thread'[t] = thread[t] /\ frames'[t] = frames[t] /\ target'[t] = target[t]
  /\ pc'[t] = pc[t]

(* What belongs to t stays t's.                                             *)
Spares(t) == owner = t => /\ owner' = t
                          /\ \A s \in Signals : disp[s] = Caller => disp'[s] = Caller

LEMMA OthersStay ==
  ASSUME MasksTyped, NEW t \in Threads, Unobstructed(t), SameAt(t), Spares(t)
  PROVE  Unobstructed(t)'
<1>1. Base(t)' = Base(t)
  BY DEF Base, SameAt
<1>2. thread[t] \subseteq Signals
  BY DEF Unobstructed
<1> QED
  BY <1>1, <1>2 DEF Unobstructed, SameAt, Spares, Kept

(* Handlers begin and return without touching the mask below them.          *)
LEMMA HandlersKeep ==
  ASSUME MasksTyped, OwedInv, NEW t \in Threads, Unobstructed(t),
         UNCHANGED <<disp, owner, callerMask, lost, previous, target, pc>>,
         thread'[t] \subseteq thread[t], Base(t)' = Base(t)
  PROVE  Unobstructed(t)'
<1>1. Kept(t)' = Kept(t)
  BY DEF Kept
<1>2. \A s \in thread'[t] \ Kept(t)' : s \in thread[t] \ Kept(t)
  BY <1>1
<1> QED
  BY <1>1, <1>2 DEF Unobstructed

LEMMA DeliveriesKeep ==
  ASSUME MaskInv, NEW u \in Threads, NEW s \in Signals, DeliverRaised(u, s) \/ DeliverSent(u, s)
  PROVE  MasksTyped' /\ \A t \in Threads : Unobstructed(t)'
<1> DEFINE frame == [signal |-> s, loaded |-> FALSE, mask |-> mask[u]]
<1>1. /\ UNCHANGED <<disp, owner, inbox, callerMask, lost, previous, target, pc>>
      /\ thread' \in [Threads -> SUBSET (Signals \cup {NoSignal})]
      /\ \A t \in Threads : thread'[t] \subseteq thread[t]
  BY DEF DeliverRaised, DeliverSent, Handle, mailbox, MaskInv, MasksTyped
<1>2. \/ UNCHANGED <<frames, mask>>
      \/ /\ disp[s] # Caller
         /\ frames' = [frames EXCEPT ![u] = Append(@, frame)]
         /\ mask' = [mask EXCEPT ![u] = @ \cup disp[s] \cup {s}]
  BY DEF DeliverRaised, DeliverSent, Handle
<1>3. frame \in Frames
  BY DEF MaskInv, MasksTyped, Frames
<1> HIDE DEF frame
<1>4. frames \in [Threads -> Seq(Frames)] /\ mask \in [Threads -> SUBSET Signals]
  BY DEF MaskInv, MasksTyped
<1>5. disp[s] # Caller => disp[s] \in SUBSET Signals
  BY DEF MaskInv, OwedInv
<1>6. frames' \in [Threads -> Seq(Frames)] /\ mask' \in [Threads -> SUBSET Signals]
  <2>1. \A q \in Seq(Frames) : Append(q, frame) \in Seq(Frames)
    BY <1>3
  <2>2. frames' \in [Threads -> Seq(Frames)]
    BY <1>2, <1>4, <2>1
  <2>3. mask' \in [Threads -> SUBSET Signals]
    BY <1>2, <1>4, <1>5
  <2> QED
    BY <2>2, <2>3
<1>7. MasksTyped'
  BY <1>1, <1>6 DEF MaskInv, MasksTyped
<1>8. ASSUME NEW t \in Threads PROVE Base(t)' = Base(t)
  <2>1. CASE frames'[t] = frames[t] /\ mask'[t] = mask[t]
    BY <2>1 DEF Base
  <2>2. CASE t = u /\ frames'[u] = Append(frames[u], frame)
    <3>1. frames[u] \in Seq(Frames)
      BY <1>4
    <3>2. Append(frames[u], frame) # <<>>
      BY <3>1, <1>3, AppendProperties
    <3>3. Append(frames[u], frame)[1] = IF frames[u] = <<>> THEN frame ELSE frames[u][1]
      BY <3>1, <1>3
    <3>4. frame.mask = mask[u]
      BY DEF frame
    <3> QED
      BY <2>2, <3>2, <3>3, <3>4 DEF Base
  <2> QED
    BY <1>2, <1>4, <2>1, <2>2
<1> QED
  BY <1>1, <1>7, <1>8, HandlersKeep DEF MaskInv

LEMMA TrampolineKeeps ==
  ASSUME MaskInv, NEW u \in Threads, Trampoline(u)
  PROVE  MasksTyped' /\ \A t \in Threads : Unobstructed(t)'
<1>1. /\ UNCHANGED <<disp, owner, callerMask, lost, previous, target, pc, thread>>
      /\ inbox' \in {inbox, frames[u][Len(frames[u])].signal}
      /\ frames[u] # <<>>
  BY DEF Trampoline, TrampolineLoad, TrampolineReturn, Mailbox!Begin, Mailbox!Post, mailbox, Top
<1>2. \/ /\ frames' = [frames EXCEPT ![u][Len(frames[u])].loaded = TRUE] /\ mask' = mask
      \/ /\ frames' = [frames EXCEPT ![u] = SubSeq(@, 1, Len(@) - 1)]
         /\ mask' = [mask EXCEPT ![u] = frames[u][Len(frames[u])].mask]
  BY DEF Trampoline, TrampolineLoad, TrampolineReturn, Top
<1>3. frames \in [Threads -> Seq(Frames)] /\ mask \in [Threads -> SUBSET Signals]
  BY DEF MaskInv, MasksTyped
<1>4. frames[u] \in Seq(Frames) /\ Len(frames[u]) \in Nat \ {0} /\ 1 \in 1..Len(frames[u])
      /\ Len(frames[u]) \in 1..Len(frames[u])
  BY <1>1, <1>3
<1>i. inbox' \in Signals \cup {NoSignal}
  <2>1. frames[u][Len(frames[u])] \in Frames
    BY <1>4
  <2> QED
    BY <1>1, <2>1 DEF Frames, MaskInv, MasksTyped
<1> DEFINE n == Len(frames[u])
<1>5. CASE /\ frames' = [frames EXCEPT ![u][n].loaded = TRUE] /\ mask' = mask
  <2> DEFINE loaded == [frames[u] EXCEPT ![n] = [frames[u][n] EXCEPT !.loaded = TRUE]]
  <2>1. frames' = [frames EXCEPT ![u] = loaded]
    BY <1>5
  <2>2. frames[u][n] \in Frames
    BY <1>4
  <2>3. [frames[u][n] EXCEPT !.loaded = TRUE] \in Frames
        /\ [frames[u][n] EXCEPT !.loaded = TRUE].mask = frames[u][n].mask
    BY <2>2 DEF Frames
  <2>4. loaded \in Seq(Frames) /\ loaded # <<>>
    BY <1>4, <2>3
  <2>5. loaded[1].mask = frames[u][1].mask
    BY <1>4, <2>3
  <2> HIDE DEF loaded
  <2>6. MasksTyped'
    BY <1>1, <1>3, <1>5, <1>i, <2>1, <2>4 DEF MaskInv, MasksTyped
  <2>7. ASSUME NEW t \in Threads PROVE Base(t)' = Base(t)
    BY <1>1, <1>3, <1>5, <2>1, <2>4, <2>5 DEF Base
  <2> QED
    BY <1>1, <2>6, <2>7, HandlersKeep DEF MaskInv
<1>6. CASE /\ frames' = [frames EXCEPT ![u] = SubSeq(@, 1, n - 1)]
           /\ mask' = [mask EXCEPT ![u] = frames[u][n].mask]
  <2> DEFINE rest == SubSeq(frames[u], 1, n - 1)
  <2>1. frames' = [frames EXCEPT ![u] = rest]
    BY <1>6
  <2>2. frames[u][n].mask \in SUBSET Signals
    <3>1. frames[u][n] \in Frames
      BY <1>4
    <3> QED
      BY <3>1 DEF Frames
  <2>3. rest \in Seq(Frames)
    BY <1>4
  <2>4. IF n = 1 THEN rest = <<>> ELSE rest # <<>> /\ rest[1] = frames[u][1]
    <3>1. Len(rest) = n - 1
      BY <1>4
    <3>2. rest = <<>> <=> Len(rest) = 0
      BY <2>3, EmptySeq
    <3>3. n # 1 => rest[1] = frames[u][1]
      <4>1. \A i \in 1..(n - 1) : frames[u][i] \in Frames
        BY <1>4
      <4>2. \A i \in 1..(n - 1 - 1 + 1) : rest[i] = frames[u][1 + i - 1]
        BY <1>4, <4>1, SubSeqProperties
      <4>3. n \in Nat \ {0}
        BY <1>4
      <4> HIDE DEF n
      <4>4. n # 1 => 1 \in 1..(n - 1 - 1 + 1)
        BY <4>3
      <4>5. n # 1 => rest[1] = frames[u][1 + 1 - 1]
        BY ONLY <4>2, <4>4
      <4>6. 1 + 1 - 1 = 1
        OBVIOUS
      <4> QED
        BY ONLY <4>5, <4>6
    <3> HIDE DEF rest
    <3> QED
      BY <1>4, <3>1, <3>2, <3>3
  <2> HIDE DEF rest
  <2>5. MasksTyped'
    BY <1>1, <1>3, <1>6, <1>i, <2>1, <2>2, <2>3 DEF MaskInv, MasksTyped
  <2>6. ASSUME NEW t \in Threads PROVE Base(t)' = Base(t)
    BY <1>1, <1>3, <1>6, <2>1, <2>4 DEF Base
  <2> QED
    BY <1>1, <2>5, <2>6, HandlersKeep DEF MaskInv
<1> QED
  BY <1>2, <1>5, <1>6

-----------------------------------------------------------------------------
(* The steps of an operation, seen from the thread that takes them.         *)

LEMMA BeginKeeps ==
  ASSUME MasksTyped, NEW u \in Threads, Unobstructed(u), At(u, "idle"),
         previous'[u] = mask[u], mask[u] \subseteq mask'[u], frames' = frames,
         pc'[u] \in {"claim", "give back", "rearm", "restore"},
         UNCHANGED <<callerMask, lost, thread>>
  PROVE  Unobstructed(u)'
  BY DEF Unobstructed, At, Running, Base, Kept, Unmasked

LEMMA InsideKeeps ==
  ASSUME NEW u \in Threads, Unobstructed(u), pc[u] \notin {"idle", "unblock"},
         pc[u] \in Unmasked <=> pc'[u] \in Unmasked, pc'[u] # "raise",
         UNCHANGED <<previous, callerMask, lost, thread, mask, frames>>
  PROVE  Unobstructed(u)'
  BY DEF Unobstructed, Kept, Base

LEMMA EndKeeps ==
  ASSUME OwedInv, MasksTyped, NEW u \in Threads, Unobstructed(u), Running(u),
         pc[u] \in {"commit", "refuse", "unblock"},
         \/ PutBack(u) /\ pc' = [pc EXCEPT ![u] = "idle"]
         \/ PutBackFails(u) /\ pc' \in {[pc EXCEPT ![u] = "idle"], [pc EXCEPT ![u] = "abandon"]},
         UNCHANGED <<callerMask, thread, frames, disp, owner>>
  PROVE  Unobstructed(u)'
<1>1. previous[u] = Kept(u) /\ Kept(u) \subseteq mask[u] /\ thread[u] \subseteq mask[u]
  BY DEF Unobstructed, Unmasked, Running, Base
<1>2. Base(u)' = mask'[u]
  BY DEF Base, Running
<1>3. CASE PutBack(u) /\ pc' = [pc EXCEPT ![u] = "idle"]
  <2>1. pc'[u] = "idle" /\ Kept(u)' = Kept(u) /\ mask'[u] = previous[u]
    BY <1>3 DEF OwedInv, PutBack, Kept, MasksTyped
  <2> QED
    BY <1>1, <1>2, <2>1 DEF Unobstructed, Unmasked
<1>4. CASE PutBackFails(u) /\ pc' \in {[pc EXCEPT ![u] = "idle"], [pc EXCEPT ![u] = "abandon"]}
  <2>1. pc'[u] \in {"idle", "abandon"} /\ mask' = mask
    BY <1>4 DEF OwedInv, PutBackFails
  <2>2. Kept(u)' = Kept(u) \cup (mask[u] \ previous[u])
    BY <1>4 DEF PutBackFails, Kept, MasksTyped
  <2>3. Kept(u)' = mask[u]
    BY <1>1, <2>2
  <2> QED
    BY <1>1, <1>2, <2>1, <2>3 DEF Unobstructed, Unmasked
<1> QED
  BY <1>3, <1>4

(* Giving the raised signal's disposition back, and raising it.             *)
LEMMA GiveBackKeeps ==
  ASSUME MaskInv, NEW u \in Threads, Unobstructed(u), GiveBack(u)
  PROVE  Unobstructed(u)'
<1>1. CASE pc' = [pc EXCEPT ![u] = "unblock"]
  BY <1>1, InsideKeeps DEF GiveBack, At, MaskInv, OwedInv, Unmasked
<1>2. CASE /\ target[u] \in saved[u] /\ disp' = [disp EXCEPT ![target[u]] = Caller]
           /\ pc' = [pc EXCEPT ![u] = "raise"]
  <2>1. target[u] \in Signals /\ owner = u
    BY <1>2 DEF MaskInv, OwedInv, DispositionsAreOwed, SavedIsDisplaced
  <2>2. /\ target' = target /\ owner' = owner /\ pc'[u] = "raise" /\ pc[u] = "give back"
        /\ UNCHANGED <<previous, callerMask, lost, thread, mask, frames>>
    BY <1>2 DEF GiveBack, At, mailbox, MaskInv, OwedInv
  <2>3. disp'[target[u]] = Caller
    BY <1>2, <2>1 DEF MaskInv, OwedInv
  <2> QED
    BY <2>1, <2>2, <2>3 DEF Unobstructed, Kept, Base, Unmasked
<1> QED
  BY <1>1, <1>2 DEF GiveBack, Goto

LEMMA RaiseKeeps ==
  ASSUME MaskInv, NEW u \in Threads, Unobstructed(u), Raise(u)
  PROVE  Unobstructed(u)'
<1>1. /\ pc[u] = "raise" /\ pc'[u] = "unblock"
      /\ \/ thread' = [thread EXCEPT ![u] = @ \cup {target[u]}]
         \/ thread' = thread
      /\ UNCHANGED <<disp, owner, previous, callerMask, lost, mask, frames>>
  BY DEF Raise, At, Goto, mailbox, MaskInv, OwedInv
<1>2. thread'[u] \subseteq thread[u] \cup {target[u]}
  BY <1>1 DEF MaskInv, MasksTyped
<1> QED
  BY <1>1, <1>2 DEF Unobstructed, Kept, Base, Unmasked

LEMMA StepKeepsOwn ==
  ASSUME MaskInv, NEW u \in Threads, Unobstructed(u), Step(u)
  PROVE  Unobstructed(u)'
<1> USE DEF At, Goto, Fails, os, guard, mailbox
<1>1. pc \in [Threads -> Labels]
  BY DEF MaskInv, OwedInv
<1>2. CASE Claim(u)
  BY <1>1, <1>2, InsideKeeps DEF Claim, Unmasked
<1>3. CASE ConstructInstall(u) \/ RearmInstall(u)
  BY <1>1, <1>3, InsideKeeps DEF ConstructInstall, RearmInstall, Install, Unmasked
<1>4. CASE Commit(u)
  <2>1. /\ Running(u) /\ pc[u] = "commit"
        /\ \/ PutBack(u) /\ pc' = [pc EXCEPT ![u] = "idle"]
           \/ PutBackFails(u) /\ pc' \in {[pc EXCEPT ![u] = "idle"], [pc EXCEPT ![u] = "abandon"]}
        /\ UNCHANGED <<callerMask, thread, frames, disp, owner>>
    BY <1>4 DEF Commit
  <2> QED
    BY <2>1, EndKeeps DEF MaskInv
<1>5. CASE Refuse(u)
  <2>1. /\ Running(u) /\ pc[u] = "refuse"
        /\ \/ PutBack(u) /\ pc' = [pc EXCEPT ![u] = "idle"]
           \/ PutBackFails(u) /\ pc' \in {[pc EXCEPT ![u] = "idle"], [pc EXCEPT ![u] = "abandon"]}
        /\ UNCHANGED <<callerMask, thread, frames, disp, owner>>
    BY <1>5 DEF Refuse, Unblock
  <2> QED
    BY <2>1, EndKeeps DEF MaskInv
<1>6. CASE GiveBack(u)
  BY <1>6, GiveBackKeeps
<1>7. CASE Raise(u)
  BY <1>7, RaiseKeeps
<1>8. CASE OperationEnds(u)
  <2>1. /\ Running(u) /\ pc[u] = "unblock"
        /\ \/ PutBack(u) /\ pc' = [pc EXCEPT ![u] = "idle"]
           \/ PutBackFails(u) /\ pc' \in {[pc EXCEPT ![u] = "idle"], [pc EXCEPT ![u] = "abandon"]}
        /\ UNCHANGED <<callerMask, thread, frames, disp, owner>>
    BY <1>8 DEF OperationEnds, Unblock
  <2> QED
    BY <2>1, EndKeeps DEF MaskInv
<1>9. CASE RestoreSaved(u)
  BY <1>1, <1>9, InsideKeeps DEF RestoreSaved, Restore, Unmasked
<1>10. CASE WithdrawActivation(u)
  BY <1>1, <1>10, InsideKeeps DEF WithdrawActivation, Withdraw, Unmasked
<1> QED
  BY <1>2, <1>3, <1>4, <1>5, <1>6, <1>7, <1>8, <1>9, <1>10 DEF Step

LEMMA OperationKeepsOwn ==
  ASSUME MaskInv, NEW u \in Threads, Unobstructed(u), Operation(u)
  PROVE  Unobstructed(u)'
<1> USE DEF Goto, Fails, Block, os, guard, mailbox, MaskInv, MasksTyped, OwedInv
<1>1. ASSUME NEW S \in SUBSET Signals, Construct(u, S) PROVE Unobstructed(u)'
  BY <1>1, BeginKeeps DEF Construct
<1>2. ASSUME NEW s \in Signals, Propagate(u, s) PROVE Unobstructed(u)'
  BY <1>2, BeginKeeps DEF Propagate
<1>3. CASE TakePending(u)
  BY <1>3 DEF TakePending, Mailbox!Take, Mailbox!Look, Unobstructed, Base, Kept, At
<1>4. CASE Rearm(u)
  BY <1>4, BeginKeeps DEF Rearm
<1>5. CASE Disarm(u)
  <2>1. CASE /\ At(u, "idle") /\ pc'[u] = "restore" /\ previous'[u] = mask[u]
             /\ mask[u] \subseteq mask'[u]
             /\ UNCHANGED <<callerMask, lost, thread, frames>>
    BY <2>1, BeginKeeps
  <2>2. CASE At(u, "idle") /\ pc'[u] = "abandon" /\ UNCHANGED <<os, previous>>
    BY <2>2 DEF Unobstructed, Kept, Base, Unmasked, At, Running
  <2> QED
    BY <1>5, <2>1, <2>2 DEF Disarm
<1> QED
  BY <1>1, <1>2, <1>3, <1>4, <1>5 DEF Operation

-----------------------------------------------------------------------------
(* What they leave to the others.                                           *)

LEMMA TypedAgain ==
  ASSUME MasksTyped, NEW u \in Threads, NEW S \in SUBSET Signals,
         mask' \in {mask, [mask EXCEPT ![u] = previous[u]], [mask EXCEPT ![u] = @ \cup S]},
         previous' \in {previous, [previous EXCEPT ![u] = mask[u]]},
         thread' \in {thread, [thread EXCEPT ![u] = @ \cup {target[u]}]},
         target' \in {target, [target EXCEPT ![u] = NoSignal]},
         lost' \in {lost, [lost EXCEPT ![u] = @ \cup (mask[u] \ previous[u])]},
         UNCHANGED <<callerMask, frames, inbox>>
  PROVE  MasksTyped'
<1>1. mask' \in [Threads -> SUBSET Signals]
  <2>1. mask \in [Threads -> SUBSET Signals] /\ previous[u] \in SUBSET Signals
    BY DEF MasksTyped
  <2>2. mask[u] \cup S \in SUBSET Signals
    BY <2>1
  <2>3. [mask EXCEPT ![u] = previous[u]] \in [Threads -> SUBSET Signals]
    BY <2>1
  <2>4. [mask EXCEPT ![u] = @ \cup S] \in [Threads -> SUBSET Signals]
    BY <2>1, <2>2
  <2> QED
    BY <2>1, <2>3, <2>4
<1>2. previous' \in [Threads -> SUBSET Signals]
  BY DEF MasksTyped
<1>3. thread' \in [Threads -> SUBSET (Signals \cup {NoSignal})]
  BY DEF MasksTyped
<1>4. target' \in [Threads -> Signals \cup {NoSignal}]
  BY DEF MasksTyped
<1>5. lost' \in [Threads -> SUBSET Signals]
  <2>1. lost \in [Threads -> SUBSET Signals] /\ mask[u] \in SUBSET Signals
    BY DEF MasksTyped
  <2>2. lost[u] \cup (mask[u] \ previous[u]) \in SUBSET Signals
    BY <2>1
  <2> QED
    BY <2>1, <2>2
<1> QED
  BY <1>1, <1>2, <1>3, <1>4, <1>5 DEF MasksTyped

LEMMA StepsAreTyped ==
  ASSUME MaskInv, NEW u \in Threads, Step(u) \/ Operation(u)
  PROVE  MasksTyped'
<1> USE DEF MaskInv, MasksTyped, OwedInv, At, Goto, Fails, Block, Unblock, os, guard, mailbox
<1>1. CASE Claim(u)
  BY <1>1 DEF Claim, Mailbox!Claim
<1>2. CASE ConstructInstall(u) \/ RearmInstall(u)
  BY <1>2 DEF ConstructInstall, RearmInstall, Install
<1>3. CASE Commit(u) \/ Refuse(u) \/ OperationEnds(u)
  <2>1. /\ mask' \in {mask, [mask EXCEPT ![u] = previous[u]]}
        /\ target' \in {target, [target EXCEPT ![u] = NoSignal]}
        /\ lost' \in {lost, [lost EXCEPT ![u] = @ \cup (mask[u] \ previous[u])]}
        /\ UNCHANGED <<callerMask, thread, frames, previous, inbox>>
    BY <1>3 DEF Commit, Refuse, OperationEnds, PutBack, PutBackFails
  <2> QED
    BY <2>1, TypedAgain
<1>5. CASE GiveBack(u)
  <2>1. /\ UNCHANGED <<mask, callerMask, lost, thread, frames, previous, target, inbox>>
    BY <1>5 DEF GiveBack
  <2> QED
    BY <2>1, TypedAgain
<1>6. CASE Raise(u)
  <2>1. /\ thread' \in {thread, [thread EXCEPT ![u] = @ \cup {target[u]}]}
        /\ UNCHANGED <<mask, callerMask, lost, frames, previous, target, inbox>>
    BY <1>6 DEF Raise
  <2> QED
    BY <2>1, TypedAgain
<1>8. CASE RestoreSaved(u)
  BY <1>8 DEF RestoreSaved, Restore
<1>9. CASE WithdrawActivation(u)
  BY <1>9 DEF WithdrawActivation, Withdraw, Mailbox!Release
<1>10. ASSUME NEW S \in SUBSET Signals, Construct(u, S)
       PROVE  MasksTyped'
  BY <1>10 DEF Construct
<1>11. ASSUME NEW s \in Signals, Propagate(u, s)
       PROVE  MasksTyped'
  BY <1>11 DEF Propagate
<1>12. CASE TakePending(u)
  BY <1>12 DEF TakePending, Mailbox!Take, Mailbox!Look
<1>13. CASE Rearm(u)
  BY <1>13 DEF Rearm
<1>14. CASE Disarm(u)
  <2>1. /\ mask' \in {mask, [mask EXCEPT ![u] = @ \cup enabled[u]]}
        /\ previous' \in {previous, [previous EXCEPT ![u] = mask[u]]}
        /\ UNCHANGED <<callerMask, lost, thread, frames, target, inbox>>
    BY <1>14 DEF Disarm
  <2>2. enabled[u] \in SUBSET Signals
    OBVIOUS
  <2> QED
    BY <2>1, <2>2, TypedAgain
<1> QED
  BY <1>1, <1>2, <1>3, <1>5, <1>6, <1>8, <1>9, <1>10, <1>11, <1>12, <1>13, <1>14
  DEF Step, Operation

LEMMA StepsSpareOthers ==
  ASSUME MaskInv, NEW u \in Threads, Step(u) \/ Operation(u), NEW t \in Threads, t # u
  PROVE  SameAt(t) /\ Spares(t)
<1>1. SameAt(t)
  <2> USE DEF SameAt, MaskInv, MasksTyped, OwedInv, At, Goto, Fails, Block, Unblock, os, guard, mailbox
  <2>1. CASE Claim(u) \/ ConstructInstall(u) \/ RearmInstall(u)
    BY <2>1 DEF Claim, ConstructInstall, RearmInstall, Install
  <2>2. CASE Commit(u) \/ Refuse(u) \/ OperationEnds(u)
    BY <2>2 DEF Commit, Refuse, OperationEnds, PutBack, PutBackFails
  <2>3. CASE GiveBack(u) \/ Raise(u)
    BY <2>3 DEF GiveBack, Raise
  <2>4. CASE RestoreSaved(u) \/ WithdrawActivation(u)
    BY <2>4 DEF RestoreSaved, Restore, WithdrawActivation, Withdraw, Mailbox!Release
  <2>5. CASE Operation(u)
    BY <2>5 DEF Operation, Construct, Propagate, TakePending, Rearm, Disarm, Mailbox!Take, Mailbox!Look
  <2> QED
    BY <2>1, <2>2, <2>3, <2>4, <2>5 DEF Step
<1>2. Spares(t)
  <2> SUFFICES ASSUME owner = t
               PROVE  /\ owner' = t
                      /\ \A s \in Signals : disp[s] = Caller => disp'[s] = Caller
    BY DEF Spares
  <2> USE DEF At, Goto, os, guard, mailbox
  <2>1. CASE Claim(u)
    BY <2>1, HandlersAssumption DEF Claim, Mailbox!Claim
  <2>2. CASE ConstructInstall(u) \/ RearmInstall(u)
    BY <2>2 DEF ConstructInstall, RearmInstall, Install, MaskInv, OwedInv
  <2>3. CASE Commit(u) \/ Refuse(u) \/ OperationEnds(u) \/ Raise(u)
    BY <2>3 DEF Commit, Refuse, OperationEnds, Unblock, Raise
  <2>4. CASE GiveBack(u)
    <3>1. owner' = owner /\ (disp' = disp \/ disp' = [disp EXCEPT ![target[u]] = Caller])
      BY <2>4 DEF GiveBack
    <3> QED
      BY <3>1 DEF MaskInv, OwedInv
  <2>5. CASE RestoreSaved(u)
    <3>1. owner' = owner /\ (disp' = disp \/ \E s \in saved[u] : disp' = [disp EXCEPT ![s] = Caller])
      BY <2>5 DEF RestoreSaved, Restore, First
    <3> QED
      BY <3>1 DEF MaskInv, OwedInv
  <2>6. CASE WithdrawActivation(u)
    BY <2>6 DEF WithdrawActivation, Withdraw, Mailbox!Release
  <2>7. CASE Operation(u)
    BY <2>7 DEF Operation, Construct, Propagate, TakePending, Rearm, Disarm, Block, Mailbox!Take, Mailbox!Look
  <2> QED
    BY <2>1, <2>2, <2>3, <2>4, <2>5, <2>6, <2>7 DEF Step
<1> QED
  BY <1>1, <1>2

LEMMA MaskStep == MaskInv /\ [Next]_vars => MaskInv'
<1> SUFFICES ASSUME MaskInv, [Next]_vars PROVE MaskInv'
  OBVIOUS
<1>1. OwedInv'
  BY OwedStep DEF MaskInv
<1>2. ASSUME NEW u \in Threads, Step(u) \/ Operation(u)
      PROVE  MasksTyped' /\ \A t \in Threads : Unobstructed(t)'
  <2>1. MasksTyped'
    BY <1>2, StepsAreTyped
  <2>2. ASSUME NEW t \in Threads PROVE Unobstructed(t)'
    <3>1. Unobstructed(u) /\ Unobstructed(t)
      BY DEF MaskInv
    <3>2. CASE t = u
      BY <1>2, <2>2, <3>1, <3>2, StepKeepsOwn, OperationKeepsOwn
    <3>3. CASE t # u
      BY <1>2, <3>1, <3>3, StepsSpareOthers, OthersStay DEF MaskInv
    <3> QED
      BY <3>2, <3>3
  <2> QED
    BY <2>1, <2>2
<1>3. ASSUME NEW s \in Signals, Send(s) \/ UNCHANGED vars
      PROVE  MasksTyped' /\ \A t \in Threads : Unobstructed(t)'
  BY <1>3 DEF Send, vars, os, guard, mailbox, MaskInv, MasksTyped, Unobstructed, Base, Kept
<1>4. CASE UNCHANGED vars
  BY <1>4 DEF vars, os, guard, mailbox, MaskInv, MasksTyped, Unobstructed, Base, Kept, OwedInv,
              DispositionsAreOwed, TrampolineOwed, SavedIsDisplaced
<1> QED
  BY <1>1, <1>2, <1>3, <1>4, DeliveriesKeep, TrampolineKeeps DEF Next, MaskInv

(* Outside its operations and handlers every thread has the mask the        *)
(* application gave it, and what propagate raised is not handled by the     *)
(* trampoline, whichever system calls failed, but for the signals a failed  *)
(* closing sigmask_set left blocked: for any threads, signals, masks and    *)
(* interleavings (with_signals, propagate, rearm, disarm).                  *)
THEOREM MasksComeBack == Spec => []MasksAreTheCallers
<1>1. MaskInv => MasksAreTheCallers
  BY DEF MaskInv, Unobstructed, MasksAreTheCallers, CallerMaskKept, RaisedIsTheCallers, At,
         Running, Base, Kept, Unmasked
<1> QED
  BY <1>1, MaskInit, MaskStep, PTL DEF Spec
=============================================================================
