------------------------- MODULE MCReadlineHistory -------------------------
(***************************************************************************)
(* Four subjects of which a behaviour takes one: "handle", a C history     *)
(* under histedit.h or readline.h (ReadlineHistory); "cursors", one store  *)
(* under several cursors (HistoryCursors); "session", the readline layer's *)
(* reads and what hooks, commands and handlers do in them                  *)
(* (ReadlineSession); "saving", the steps of saving to a named file        *)
(* (HistorySaving).                                                        *)
(***************************************************************************)
EXTENDS HistoryCursors, ReadlineHistory, ReadlineSession, HistorySaving

VARIABLE subject

cursorVars == <<store, cursor>>
handleVars == <<h, api, base, length, offset, stifled, file, written, behind>>
sessionVars == <<frames, text, trailing, buffering, mode, reader, pushed, done, aborting, handler,
                 hooked, usedHook, keys, entry, asked, prepared, handed>>
savingVars == <<at, named, renames, temporaries, filled, synced, permissions>>

SomePositions == {-1, 0, 2}

MCInit ==
  /\ Init /\ HandleInit /\ SessionInit /\ SavingInit
  /\ subject \in {"handle", "cursors", "session", "saving"}
  /\ subject # "handle" => api = "histedit" /\ file = Absent
  /\ subject # "saving" => named = Original
  /\ subject # "cursors" => store.capacity = Unbounded

MCNext ==
  /\ UNCHANGED subject
  /\ \/ subject = "handle" /\ HandleNext /\ UNCHANGED <<cursorVars, sessionVars, savingVars>>
     \/ subject = "cursors" /\ Next /\ UNCHANGED <<handleVars, sessionVars, savingVars>>
     \/ subject = "session" /\ SessionNext /\ UNCHANGED <<handleVars, cursorVars, savingVars>>
     \/ subject = "saving" /\ SavingNext /\ UNCHANGED <<handleVars, cursorVars, sessionVars>>

MCSpec == MCInit /\ [][MCNext]_<<subject, handleVars, cursorVars, sessionVars, savingVars>>
=============================================================================
