--------------------------- MODULE HistorySaving ---------------------------
(***************************************************************************)
(* Saving a history to a named file (nshedit-abi/src/history/              *)
(* persistence.rs): the file is written under a temporary name, brought to *)
(* the disk, and renamed to its own name.  Several processes may save to   *)
(* one name; any step may fail, a process may be killed between two steps, *)
(* and the machine may stop.  A file is known by its owner, and its        *)
(* content by how many of its pieces (the header and the entries) have     *)
(* been written.  Which error it was, the cursor the traversal moves       *)
(* (CHistory!SaveAll) and names that are no regular file are left out;     *)
(* removing a temporary file is taken to succeed.                          *)
(***************************************************************************)
EXTENDS Naturals

CONSTANTS
  Savers,   \* processes, each of which saves its own history once
  Original, \* the file that has the name at the beginning
  NoFile,   \* there is none
  Pieces    \* what makes a whole file: the header and the entries

Files == Savers \cup {Original}

VARIABLES
  at,          \* at[p]: the next step of p's save_path, "saved", "failed" or "killed"
  named,       \* named: the file the destination names
  renames,     \* renames: the files it has named since the machine started
  temporaries, \* whose temporary names there are
  filled,      \* filled[f]: how many pieces a reader finds in f
  synced,      \* synced[f]: how many of them are sure to be on the disk
  permissions  \* permissions[f]: who may read f

saving == <<at, named, renames, temporaries, filled, synced, permissions>>

SavingInit ==
  /\ at = [p \in Savers |-> "create"]
  /\ named \in {Original, NoFile}
  /\ renames = {named}
  /\ temporaries = {}
  /\ filled = [f \in Files |-> IF f = Original THEN Pieces ELSE 0]
  /\ synced = filled
  /\ permissions = [f \in Files |-> IF f = Original THEN "shared" ELSE "private"]

-----------------------------------------------------------------------------

\* A file created where there is none stays as private as it was created.
Permissions(f) == IF f = NoFile THEN "private" ELSE permissions[f]

\* The `?` of a step that failed: the temporary file is dropped with its name.
Fail(p) ==
  /\ at' = [at EXCEPT ![p] = "failed"]
  /\ temporaries' = temporaries \ {p}
  /\ UNCHANGED <<named, renames, filled, synced, permissions>>

Create(p) ==
  /\ at[p] = "create"
  /\ \/ /\ at' = [at EXCEPT ![p] = "permit"]
        /\ temporaries' = temporaries \cup {p}
        /\ UNCHANGED <<named, renames, filled, synced, permissions>>
     \/ Fail(p)

Permit(p) ==
  /\ at[p] = "permit"
  /\ \/ /\ at' = [at EXCEPT ![p] = "write"]
        /\ permissions' = [permissions EXCEPT ![p] = Permissions(named)]
        /\ UNCHANGED <<named, renames, temporaries, filled, synced>>
     \/ Fail(p)

\* save_to: the buffer reaches the file piece by piece.
Write(p) ==
  /\ at[p] = "write"
  /\ \/ /\ filled' = [filled EXCEPT ![p] = @ + 1]
        /\ at' = IF filled'[p] = Pieces THEN [at EXCEPT ![p] = "sync"] ELSE at
        /\ UNCHANGED <<named, renames, temporaries, synced, permissions>>
     \/ Fail(p)

\* As it is without sync_all.
FlushOnly(p) ==
  /\ at[p] = "sync"
  /\ at' = [at EXCEPT ![p] = "persist"]
  /\ UNCHANGED <<named, renames, temporaries, filled, synced, permissions>>

Sync(p) ==
  /\ at[p] = "sync"
  /\ \/ /\ synced' = [synced EXCEPT ![p] = filled[p]]
        /\ at' = [at EXCEPT ![p] = "persist"]
        /\ UNCHANGED <<named, renames, temporaries, filled, permissions>>
     \/ Fail(p)

Persist(p) ==
  /\ at[p] = "persist"
  /\ \/ /\ named' = p
        /\ renames' = renames \cup {p}
        /\ temporaries' = temporaries \ {p}
        /\ at' = [at EXCEPT ![p] = "saved"]
        /\ UNCHANGED <<filled, synced, permissions>>
     \/ Fail(p)

\* A process that dies leaves its temporary file behind.
Kill(p) ==
  /\ at[p] \in {"permit", "write", "sync", "persist"}
  /\ at' = [at EXCEPT ![p] = "killed"]
  /\ UNCHANGED <<named, renames, temporaries, filled, synced, permissions>>

\* The machine stops.  Every file keeps what was synced and some of what was
\* written after it, and the destination names the file that any of its
\* renames gave it, since the directory is never synced.
PowerLoss ==
  /\ at' = [p \in Savers |->
              IF at[p] \in {"permit", "write", "sync", "persist"} THEN "killed" ELSE at[p]]
  /\ \E kept \in [Files -> 0..Pieces] :
       /\ \A f \in Files : kept[f] \in synced[f]..filled[f]
       /\ filled' = kept /\ synced' = kept
  /\ named' \in renames
  /\ renames' = {named'}
  /\ UNCHANGED <<temporaries, permissions>>

Step(p) == Create(p) \/ Permit(p) \/ Write(p) \/ Sync(p) \/ Persist(p) \/ Kill(p)

SavingNext == PowerLoss \/ \E p \in Savers : Step(p)

SavingSpec == SavingInit /\ [][SavingNext]_saving

-----------------------------------------------------------------------------

\* Whatever fails, dies or stops in the middle of a save, whoever else saves to
\* the name, the destination names a whole history: the one it had or one that
\* was saved.  A file that was shared stays so, a new one is private; a save
\* that failed has not touched the name, and leaves no temporary file.
SavesAreWhole ==
  /\ named # NoFile => filled[named] = Pieces
  /\ \A f \in renames : Permissions(f) = Permissions(named)
  /\ \A p \in Savers :
       /\ at[p] # "saved" => p \notin renames
       /\ p \in temporaries => at[p] \notin {"failed", "saved"}
=============================================================================
