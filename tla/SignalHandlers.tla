--------------------------- MODULE SignalHandlers ---------------------------
(***************************************************************************)
(* crates/nshedit-plat/src/signal/handlers.rs: scoped ownership of the     *)
(* process signal dispositions.  Threads construct, propagate, rearm and   *)
(* disarm a SignalHandlers guard, one system call per step, while signals  *)
(* arrive at any thread that does not block them.  The pending slot is the *)
(* atomic SignalMailbox that SignalSlot implements.                        *)
(*                                                                         *)
(* The operating system is modelled from how the code uses it: a signal is *)
(* pending at most once per process and once per thread, a handler runs    *)
(* with its sa_mask added, and a thread that unblocks a signal raised on   *)
(* it takes the delivery before its own code runs on.                      *)
(*                                                                         *)
(* Bounds: MaxSends signals come from outside, and MaxFailures system      *)
(* calls fail, in any behaviour.                                           *)
(***************************************************************************)
EXTENDS Naturals, Sequences, FiniteSets

CONSTANTS Threads,     \* threads of the process
          Editor,      \* Signal::EDITOR, the order dispositions are installed in
          NoClient, NoSignal,
          Caller,      \* a disposition of the host application
          CallerMasks, \* the signal masks the threads may have had to begin with
          MaxSends, MaxFailures

Signals == {Editor[i] : i \in DOMAIN Editor}

ASSUME HandlersAssumption == /\ NoClient \notin Threads
                             /\ \A S \in SUBSET Signals : Caller # S
                             /\ NoSignal \notin Signals
                             /\ CallerMasks \subseteq [Threads -> SUBSET Signals]
                             /\ MaxSends \in Nat /\ MaxFailures \in Nat

VARIABLES
  owner, inbox, armed,  \* PENDING_SLOT, as a SignalMailbox
  disp,      \* each signal's disposition: Caller, or the trampoline's sa_mask
  stranded,  \* history: signals whose restoration failed and was given up
  lost,      \* history: signals a failed closing call left blocked on a thread
  process,   \* signals pending on the process
  thread,    \* signals pending on one thread, from raise
  mask,      \* each thread's signal mask
  callerMask,\* history: the mask the application gave each thread
  frames,    \* trampoline invocations running on each thread, innermost last
  enabled,   \* the guard's selected signals, {} when the thread has no guard
  saved,     \* the guard's signals whose displaced disposition it still holds
  pc,        \* where the thread stands inside a guard operation
  previous,  \* the mask that operation will restore
  target,    \* the signal in hand: what take answered, then what propagate raises
  sends, failures

os == <<disp, stranded, lost, process, thread, mask, callerMask, frames>>
guard == <<enabled, saved>>
mailbox == <<owner, inbox, armed>>
vars == <<mailbox, os, guard, pc, previous, target, sends, failures>>

Deliveries == Threads \X (1..Len(Editor))

Mailbox == INSTANCE SignalMailbox WITH Clients <- Threads, given <- target

Init ==
  /\ Mailbox!Init
  /\ disp = [s \in Signals |-> Caller]
  /\ stranded = {}
  /\ lost = [t \in Threads |-> {}]
  /\ process = {}
  /\ thread = [t \in Threads |-> {}]
  /\ mask \in CallerMasks
  /\ callerMask = mask
  /\ frames = [t \in Threads |-> <<>>]
  /\ enabled = [t \in Threads |-> {}]
  /\ saved = [t \in Threads |-> {}]
  /\ pc = [t \in Threads |-> "idle"]
  /\ previous = mask
  /\ target = [t \in Threads |-> NoSignal]
  /\ sends = 0
  /\ failures = 0

\* A thread's own code runs only when no handler does and nothing raised on
\* the thread is waiting to be delivered.
Running(t) == frames[t] = <<>> /\ thread[t] \subseteq mask[t]

At(t, label) == Running(t) /\ pc[t] = label
Goto(t, label) == pc' = [pc EXCEPT ![t] = label]

\* One more system call fails.
Fails == failures < MaxFailures /\ failures' = failures + 1

\* Signals are taken in the order of Signal::EDITOR: the first of S, alone.
First(S) == {s \in S : \E i \in DOMAIN Editor :
                         Editor[i] = s /\ \A j \in 1..(i - 1) : Editor[j] \notin S}

\* sigmask_block(mask): remember the old mask and add the guard's signals.
Block(t, S) == /\ previous' = [previous EXCEPT ![t] = mask[t]]
               /\ mask' = [mask EXCEPT ![t] = @ \cup S]
               /\ UNCHANGED <<disp, stranded, lost, process, thread, callerMask, frames>>

-----------------------------------------------------------------------------
(* with_signals: block, claim the slot, install, unblock.  A failure undoes *)
(* whatever was done and leaves no guard.                                   *)

Construct(t, S) ==
  /\ At(t, "idle") /\ enabled[t] = {} /\ S # {}
  /\ Block(t, S)
  /\ enabled' = [enabled EXCEPT ![t] = S]
  /\ Goto(t, "claim")
  /\ UNCHANGED <<mailbox, saved, target, sends, failures>>

Claim(t) ==
  /\ At(t, "claim")
  /\ \/ /\ Mailbox!Claim(t)
        /\ Goto(t, "install")
     \/ /\ owner # NoClient
        /\ Goto(t, "refuse")
        /\ UNCHANGED mailbox
  /\ UNCHANGED <<os, guard, previous, target, sends, failures>>

Missing(t) == enabled[t] \ saved[t]

\* install_missing, one sigaction per step; `found` and `undo` are where the
\* operation goes on when everything is installed and when a call fails.
Install(t, from, found, undo) ==
  /\ At(t, from)
  /\ \/ /\ Missing(t) = {}
        /\ Goto(t, found)
        /\ UNCHANGED <<disp, saved, failures>>
     \/ /\ Missing(t) # {}
        /\ \E s \in First(Missing(t)) :
              \/ /\ disp[s] = Caller
                 /\ disp' = [disp EXCEPT ![s] = enabled[t]]
                 /\ saved' = [saved EXCEPT ![t] = @ \cup {s}]
                 /\ UNCHANGED <<pc, failures>>
              \/ /\ disp[s] # Caller              \* Installed::AlreadyOurs
                 /\ disp' = [disp EXCEPT ![s] = enabled[t]]
                 /\ Goto(t, undo)
                 /\ UNCHANGED <<saved, failures>>
              \/ /\ Fails                         \* Installed::Failed
                 /\ Goto(t, undo)
                 /\ UNCHANGED <<disp, saved>>
  /\ UNCHANGED <<mailbox, stranded, lost, process, thread, mask, callerMask, frames,
                 enabled, previous, target, sends>>

ConstructInstall(t) == Install(t, "install", "commit", "undo")

\* Every operation ends by putting the mask it found back; when that call fails
\* the signals the operation added stay blocked.
PutBack(t) == /\ mask' = [mask EXCEPT ![t] = previous[t]]
              /\ UNCHANGED <<lost, failures>>

PutBackFails(t) == /\ Fails
                   /\ lost' = [lost EXCEPT ![t] = @ \cup (mask[t] \ previous[t])]
                   /\ UNCHANGED mask

\* The last sigmask_set of a successful construction; when it fails the guard
\* is torn down with the mask left as it is.
Commit(t) ==
  /\ At(t, "commit")
  /\ \/ PutBack(t) /\ Goto(t, "idle")
     \/ PutBackFails(t) /\ Goto(t, "abandon")
  /\ UNCHANGED <<mailbox, disp, stranded, process, thread, callerMask, frames,
                 guard, previous, target, sends>>

\* restore_saved, one sigaction per step: the slot is consumed whether or not
\* the call succeeds.
Restore(t, from, to) ==
  /\ At(t, from)
  /\ \/ /\ saved[t] = {}
        /\ Goto(t, to)
        /\ UNCHANGED <<disp, stranded, saved, failures>>
     \/ /\ saved[t] # {}
        /\ \E s \in First(saved[t]) :
              /\ saved' = [saved EXCEPT ![t] = @ \ {s}]
              /\ \/ /\ disp' = [disp EXCEPT ![s] = Caller]
                    /\ UNCHANGED <<stranded, failures>>
                 \/ /\ Fails
                    /\ stranded' = stranded \cup {s}
                    /\ UNCHANGED disp
        /\ UNCHANGED pc
  /\ UNCHANGED <<mailbox, lost, process, thread, mask, callerMask, frames, enabled,
                 previous, target, sends>>

\* withdraw: give the activation up; the guard is gone.
Withdraw(t, from, to) ==
  /\ At(t, from)
  /\ Mailbox!Release(t)
  /\ Goto(t, to)
  /\ enabled' = [enabled EXCEPT ![t] = {}]
  /\ UNCHANGED <<os, saved, previous, sends, failures>>

\* The closing sigmask_set whose own failure nothing undoes.
Unblock(t, from) ==
  /\ At(t, from)
  /\ PutBack(t) \/ PutBackFails(t)
  /\ Goto(t, "idle")
  /\ target' = [target EXCEPT ![t] = NoSignal]
  /\ UNCHANGED <<mailbox, disp, stranded, process, thread, callerMask, frames,
                 saved, previous, sends>>

\* Mutant of Refuse: the refused construction returns with its mask in place.
RefuseBlocked(t) == /\ At(t, "refuse")
                    /\ Goto(t, "idle")
                    /\ enabled' = [enabled EXCEPT ![t] = {}]
                    /\ UNCHANGED <<mailbox, os, saved, previous, target, sends, failures>>

Refuse(t) == /\ Unblock(t, "refuse")
             /\ enabled' = [enabled EXCEPT ![t] = {}]

-----------------------------------------------------------------------------
(* take_pending, propagate and rearm on a live guard.                       *)

Live(t) == owner = t

TakePending(t) ==
  /\ At(t, "idle") /\ Live(t)
  /\ Mailbox!Take(t) \/ Mailbox!Look(t)
  /\ UNCHANGED <<os, guard, pc, previous, sends, failures>>

Propagate(t, s) ==
  /\ At(t, "idle") /\ Live(t)
  /\ Block(t, enabled[t])
  /\ target' = [target EXCEPT ![t] = s]
  /\ Goto(t, "give back")
  /\ UNCHANGED <<mailbox, guard, sends, failures>>

\* Mutant of GiveBack: the saved disposition is copied, not taken.
GiveBackCopy(t) ==
  /\ At(t, "give back")
  /\ IF target[t] \in saved[t]
     THEN disp' = [disp EXCEPT ![target[t]] = Caller] /\ Goto(t, "raise")
     ELSE UNCHANGED disp /\ Goto(t, "unblock")
  /\ UNCHANGED <<mailbox, stranded, lost, process, thread, mask, callerMask, frames,
                 guard, previous, target, sends, failures>>

\* restore_handler for the one signal, unless it is NotArmed; a failed call
\* puts the saved disposition back in its slot.
GiveBack(t) ==
  /\ At(t, "give back")
  /\ \/ /\ target[t] \in saved[t]
        /\ disp' = [disp EXCEPT ![target[t]] = Caller]
        /\ saved' = [saved EXCEPT ![t] = @ \ {target[t]}]
        /\ Goto(t, "raise")
        /\ UNCHANGED failures
     \/ /\ target[t] \notin saved[t]
        /\ Goto(t, "unblock")
        /\ UNCHANGED <<disp, saved, failures>>
     \/ /\ target[t] \in saved[t]
        /\ Fails
        /\ Goto(t, "unblock")
        /\ UNCHANGED <<disp, saved>>
  /\ UNCHANGED <<mailbox, stranded, lost, process, thread, mask, callerMask, frames,
                 enabled, previous, target, sends>>

Raise(t) ==
  /\ At(t, "raise")
  /\ \/ /\ thread' = [thread EXCEPT ![t] = @ \cup {target[t]}]
        /\ UNCHANGED failures
     \/ /\ Fails
        /\ UNCHANGED thread
  /\ Goto(t, "unblock")
  /\ UNCHANGED <<mailbox, disp, stranded, lost, process, mask, callerMask, frames,
                 guard, previous, target, sends>>

Rearm(t) ==
  /\ At(t, "idle") /\ Live(t)
  /\ Block(t, enabled[t])
  /\ Goto(t, "rearm")
  /\ UNCHANGED <<mailbox, guard, target, sends, failures>>

RearmInstall(t) == Install(t, "rearm", "unblock", "unblock")

OperationEnds(t) == Unblock(t, "unblock") /\ UNCHANGED enabled

-----------------------------------------------------------------------------
(* disarm, from restore and from Drop.  It goes on when the mask cannot be  *)
(* blocked, and then has no mask to put back.                               *)

Disarm(t) ==
  /\ At(t, "idle") /\ Live(t)
  /\ \/ /\ Block(t, enabled[t])
        /\ Goto(t, "restore")
        /\ UNCHANGED failures
     \/ /\ Fails
        /\ Goto(t, "abandon")
        /\ UNCHANGED <<os, previous>>
  /\ UNCHANGED <<mailbox, guard, target, sends>>

\* The undo path of with_signals and the body of disarm both end by unblocking;
\* the two paths without a mask to restore end at once.
RestoreSaved(t) == \/ Restore(t, "undo", "withdraw")
                   \/ Restore(t, "restore", "withdraw")
                   \/ Restore(t, "abandon", "forget")

\* Mutant of WithdrawActivation: the operation is over once the slot is free.
WithdrawBlocked(t) == Withdraw(t, "withdraw", "idle") \/ Withdraw(t, "forget", "idle")

WithdrawActivation(t) == \/ Withdraw(t, "withdraw", "unblock")
                         \/ Withdraw(t, "forget", "idle")

-----------------------------------------------------------------------------
(* The operating system and the trampoline.                                 *)

\* A signal for the process arrives from outside.
Send(s) == /\ sends < MaxSends
           /\ s \notin process
           /\ process' = process \cup {s}
           /\ sends' = sends + 1
           /\ UNCHANGED <<mailbox, disp, stranded, lost, thread, mask, callerMask, frames,
                          guard, pc, previous, target, failures>>

\* A signal's disposition runs on a thread that does not block it.  The
\* application's handler is one step; ours gets a frame.
Handle(t, s) ==
  /\ s \notin mask[t]
  /\ \/ /\ disp[s] = Caller
        /\ UNCHANGED <<frames, mask>>
     \/ /\ disp[s] # Caller
        /\ frames' = [frames EXCEPT ![t] =
                        Append(@, [signal |-> s, loaded |-> FALSE, mask |-> mask[t]])]
        /\ mask' = [mask EXCEPT ![t] = @ \cup disp[s] \cup {s}]
  /\ UNCHANGED <<mailbox, disp, stranded, lost, callerMask, guard, pc, previous, target,
                 sends, failures>>

\* A thread takes what was raised on it before what is pending on the process.
DeliverRaised(t, s) == /\ s \in thread[t]
                       /\ thread' = [thread EXCEPT ![t] = @ \ {s}]
                       /\ Handle(t, s)
                       /\ UNCHANGED process

DeliverSent(t, s) == /\ s \in process \ thread[t]
                     /\ process' = process \ {s}
                     /\ Handle(t, s)
                     /\ UNCHANGED thread

Top(t) == frames[t][Len(frames[t])]
Invocation(t) == <<t, Len(frames[t])>>

\* sig_trampoline loads the slot: with an owner it is bound to that scope.
TrampolineLoad(t) ==
  /\ frames[t] # <<>> /\ ~Top(t).loaded
  /\ \/ Mailbox!Begin(Invocation(t))
     \/ owner = NoClient /\ UNCHANGED mailbox
  /\ frames' = [frames EXCEPT ![t][Len(frames[t])].loaded = TRUE]
  /\ UNCHANGED <<disp, stranded, lost, process, thread, mask, callerMask, guard, pc,
                 previous, target, sends, failures>>

\* It publishes if its scope is still the live one, and returns.
TrampolineReturn(t) ==
  /\ frames[t] # <<>> /\ Top(t).loaded
  /\ \/ Mailbox!Post(Invocation(t), Top(t).signal)
     \/ Invocation(t) \notin armed /\ UNCHANGED mailbox
  /\ mask' = [mask EXCEPT ![t] = Top(t).mask]
  /\ frames' = [frames EXCEPT ![t] = SubSeq(@, 1, Len(@) - 1)]
  /\ UNCHANGED <<disp, stranded, lost, process, thread, callerMask, guard, pc, previous,
                 target, sends, failures>>

-----------------------------------------------------------------------------
Step(t) == \/ Claim(t) \/ ConstructInstall(t) \/ Commit(t) \/ Refuse(t)
           \/ GiveBack(t) \/ Raise(t) \/ RearmInstall(t) \/ OperationEnds(t)
           \/ RestoreSaved(t) \/ WithdrawActivation(t)

Operation(t) == \/ \E S \in SUBSET Signals : Construct(t, S)
                \/ \E s \in Signals : Propagate(t, s)
                \/ TakePending(t) \/ Rearm(t) \/ Disarm(t)

Trampoline(t) == TrampolineLoad(t) \/ TrampolineReturn(t)

Next == \/ \E t \in Threads : Step(t) \/ Operation(t) \/ Trampoline(t)
        \/ \E t \in Threads, s \in Signals : DeliverRaised(t, s) \/ DeliverSent(t, s)
        \/ \E s \in Signals : Send(s)

Spec == Init /\ [][Next]_vars

(* Started operations and handlers run on, and the kernel delivers what can *)
(* be delivered, at the latest when a thread that keeps blocking and        *)
(* unblocking it unblocks it; nobody is obliged to start an operation.      *)
Fairness == /\ \A t \in Threads : WF_vars(Step(t)) /\ WF_vars(Trampoline(t))
            /\ \A t \in Threads, s \in Signals :
                 WF_vars(DeliverRaised(t, s)) /\ SF_vars(DeliverSent(t, s))

FairSpec == Spec /\ Fairness

-----------------------------------------------------------------------------
Labels == {"idle", "claim", "install", "commit", "refuse", "undo", "abandon",
           "give back", "raise", "unblock", "rearm", "restore", "withdraw", "forget"}

TypeOK == /\ owner \in Threads \cup {NoClient}
          /\ inbox \in Signals \cup {NoSignal}
          /\ armed \subseteq Deliveries
          /\ \A s \in Signals : disp[s] = Caller \/ disp[s] \subseteq Signals
          /\ stranded \subseteq Signals /\ process \subseteq Signals
          /\ {thread, mask, callerMask, lost, enabled, saved, previous}
               \subseteq [Threads -> SUBSET Signals]
          /\ pc \in [Threads -> Labels]
          /\ target \in [Threads -> Signals \cup {NoSignal}]
          /\ sends \in 0..MaxSends /\ failures \in 0..MaxFailures

(* Wherever the trampoline is installed, the live owner still holds the    *)
(* disposition it displaced, at every step of every operation and of every *)
(* error path; only a restoration the system refused breaks the debt.  So  *)
(* no signal is ever swallowed by a handler nobody reads.                  *)
TrampolineOwed == \A s \in Signals : disp[s] # Caller =>
                     \/ s \in stranded
                     \/ owner # NoClient /\ s \in saved[owner]

(* The converse: a disposition recorded as displaced is displaced, so no   *)
(* operation overwrites the caller's disposition with a stale copy.        *)
SavedIsDisplaced == \A t \in Threads : \A s \in saved[t] :
                      owner = t /\ disp[s] # Caller

(* Together: a signal's disposition is always either the caller's or owed  *)
(* to it by the owner, whichever operation failed and wherever.            *)
DispositionsAreOwed == TrampolineOwed /\ SavedIsDisplaced

(* Outside its operations and handlers each thread runs with the mask the  *)
(* application gave it, whichever way the last operation ended and         *)
(* whichever of its calls failed: only a closing sigmask_set that failed   *)
(* itself leaves signals blocked, and those alone.                         *)
CallerMaskKept == \A t \in Threads :
                    At(t, "idle") => mask[t] = callerMask[t] \cup lost[t]

(* What propagate raises is the caller's to handle: it is not delivered to *)
(* the trampoline again, unless the caller itself keeps it blocked or the  *)
(* mask could not be put back before the guard was rearmed.                *)
RaisedIsTheCallers == \A t \in Threads :
                        \A s \in thread[t] \ (callerMask[t] \cup lost[t]) : disp[s] = Caller

(* Together: no operation leaves its masking or its handlers in the way of *)
(* the thread that called it.                                              *)
MasksAreTheCallers == CallerMaskKept /\ RaisedIsTheCallers

(* Every signal the process is sent is eventually taken by some handler,   *)
(* whichever operations run and fail: it can be stuck only when on every   *)
(* thread the application itself, or a closing sigmask_set that failed,    *)
(* keeps it blocked.                                                       *)
KeptOut(s) == \A t \in Threads : s \in callerMask[t] \cup lost[t]

SignalsGetThrough ==
  \A s \in Signals : s \in process ~> (s \notin process \/ KeptOut(s))

=============================================================================
