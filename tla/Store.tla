-------------------------------- MODULE Store --------------------------------
(***************************************************************************)
(* LocalStateStore: how save puts a snapshot at the path of state.json, a  *)
(* system call at a time, and how load gets it back, while other processes *)
(* do the same, calls fail, processes are killed and the power goes.       *)
(*                                                                         *)
(* Each save writes a file of its own and no file is written again once it *)
(* is at the path, so a snapshot is named by the file it was written to.   *)
(* The directory of the path is taken to be there.                         *)
(***************************************************************************)
EXTENDS Naturals

CONSTANTS Procs,    \* processes that load and save
          Files,    \* the files that saves may write, each once
          NoFile,   \* what is at the path before the first save
          Unread,   \* what a process has that has loaded nothing
          Torn,     \* what a load makes of a file that is not all there
          Faults    \* what may go wrong

FaultNames == {"error", "kill", "power"}

ASSUME StoreAssumption ==
  /\ NoFile \notin Files /\ Unread \notin Files /\ Torn \notin Files
  /\ NoFile # Unread /\ NoFile # Torn /\ Unread # Torn
  /\ Faults \subseteq FaultNames

VARIABLES
  now,       \* the file at the path
  may,       \* what a power loss may leave there: the entries since the last
             \* sync of the directory
  temps,     \* files with a temporary name
  content,   \* how much of each file has been written
  synced,    \* files whose content is on the disk
  pc,        \* where each process is
  file,      \* the file each process is saving or reading
  seen,      \* what each process's last load found
  used,      \* files that were made
  clock, rank,   \* the replaces so far, and which of them put each file there
  returned,  \* files whose save has returned
  orphans    \* temporary files whose process is gone

vars == <<now, may, temps, content, synced, pc, file, seen, used, clock, rank,
          returned, orphans>>

ghosts == <<clock, rank, returned, orphans>>

Labels == {"idle", "write", "fsync", "replace", "fsync dir", "unlink", "open", "read"}
Amounts == {"nothing", "part", "whole"}
Loaded == Files \cup {NoFile, Unread}

TypeOK ==
  /\ now \in Files \cup {NoFile}
  /\ may \subseteq Files \cup {NoFile}
  /\ temps \subseteq Files
  /\ content \in [Files -> Amounts]
  /\ synced \subseteq Files
  /\ pc \in [Procs -> Labels]
  /\ file \in [Procs -> Files \cup {NoFile}]
  /\ seen \in [Procs -> Loaded]
  /\ used \subseteq Files
  /\ clock \in Nat
  /\ rank \in [Files -> Nat]
  /\ returned \subseteq Files
  /\ orphans \subseteq Files

Init ==
  /\ now = NoFile
  /\ may = {NoFile}
  /\ temps = {}
  /\ content = [f \in Files |-> "nothing"]
  /\ synced = {}
  /\ pc = [p \in Procs |-> "idle"]
  /\ file = [p \in Procs |-> NoFile]
  /\ seen = [p \in Procs |-> Unread]
  /\ used = {}
  /\ clock = 0
  /\ rank = [f \in Files |-> 0]
  /\ returned = {}
  /\ orphans = {}

Goes(p, from, to) == pc[p] = from /\ pc' = [pc EXCEPT ![p] = to]

-----------------------------------------------------------------------------
(* save *)

\* mkstemp.  The snapshot was encoded before it; what fails there leaves nothing.
MakeTemp(p) ==
  /\ Goes(p, "idle", "write")
  /\ \E f \in Files \ used :
       /\ used' = used \cup {f}
       /\ temps' = temps \cup {f}
       /\ file' = [file EXCEPT ![p] = f]
  /\ UNCHANGED <<now, may, content, synced, seen, ghosts>>

\* Some of the payload is in the file, and the rest is not yet.
WritePart(p) ==
  /\ pc[p] = "write"
  /\ content' = [content EXCEPT ![file[p]] = "part"]
  /\ UNCHANGED <<now, may, temps, synced, pc, file, seen, used, ghosts>>

\* write and flush have returned.
Write(p) ==
  /\ Goes(p, "write", "fsync")
  /\ content' = [content EXCEPT ![file[p]] = "whole"]
  /\ UNCHANGED <<now, may, temps, synced, file, seen, used, ghosts>>

\* Mutant of FsyncFile: the call is missing.
SkipFsync(p) ==
  /\ Goes(p, "fsync", "replace")
  /\ UNCHANGED <<now, may, temps, content, synced, file, seen, used, ghosts>>

FsyncFile(p) ==
  /\ Goes(p, "fsync", "replace")
  /\ synced' = synced \cup {file[p]}
  /\ UNCHANGED <<now, may, temps, content, file, seen, used, ghosts>>

\* Mutant of Replace: the file is put in place before it is written out.
ReplaceEarly(p) ==
  /\ pc[p] \in {"write", "replace"}
  /\ pc' = [pc EXCEPT ![p] = "fsync dir"]
  /\ now' = file[p]
  /\ may' = may \cup {file[p]}
  /\ temps' = temps \ {file[p]}
  /\ clock' = clock + 1
  /\ rank' = [rank EXCEPT ![file[p]] = clock + 1]
  /\ UNCHANGED <<content, synced, file, seen, used, returned, orphans>>

Replace(p) ==
  /\ Goes(p, "replace", "fsync dir")
  /\ now' = file[p]
  /\ may' = may \cup {file[p]}
  /\ temps' = temps \ {file[p]}
  /\ clock' = clock + 1
  /\ rank' = [rank EXCEPT ![file[p]] = clock + 1]
  /\ UNCHANGED <<content, synced, file, seen, used, returned, orphans>>

\* Mutant of FsyncDir: save returns without it.
SkipFsyncDir(p) ==
  /\ Goes(p, "fsync dir", "idle")
  /\ returned' = returned \cup {file[p]}
  /\ file' = [file EXCEPT ![p] = NoFile]
  /\ UNCHANGED <<now, may, temps, content, synced, seen, used, clock, rank, orphans>>

\* save returns.
FsyncDir(p) ==
  /\ Goes(p, "fsync dir", "idle")
  /\ may' = {now}
  /\ returned' = returned \cup {file[p]}
  /\ file' = [file EXCEPT ![p] = NoFile]
  /\ UNCHANGED <<now, temps, content, synced, seen, used, clock, rank, orphans>>

\* Mutant of Fail: what is raised is not caught.
FailUncaught(p) ==
  /\ "error" \in Faults
  /\ pc[p] \in {"write", "fsync", "replace", "fsync dir"}
  /\ pc' = [pc EXCEPT ![p] = "idle"]
  /\ file' = [file EXCEPT ![p] = NoFile]
  /\ UNCHANGED <<now, may, temps, content, synced, seen, used, ghosts>>

\* A call of save raises: a full disk, a denied replace.
Fail(p) ==
  /\ "error" \in Faults
  /\ pc[p] \in {"write", "fsync", "replace", "fsync dir"}
  /\ pc' = [pc EXCEPT ![p] = "unlink"]
  /\ UNCHANGED <<now, may, temps, content, synced, file, seen, used, ghosts>>

\* The handler removes the temporary file if it is still there, and raises.
Unlink(p) ==
  /\ Goes(p, "unlink", "idle")
  /\ temps' = temps \ {file[p]}
  /\ file' = [file EXCEPT ![p] = NoFile]
  /\ UNCHANGED <<now, may, content, synced, seen, used, ghosts>>

-----------------------------------------------------------------------------
(* load *)

\* There is no file: a state of its own.
LoadNothing(p) ==
  /\ pc[p] = "idle" /\ now = NoFile
  /\ seen' = [seen EXCEPT ![p] = NoFile]
  /\ UNCHANGED <<now, may, temps, content, synced, pc, file, used, ghosts>>

\* There is one.
Exists(p) ==
  /\ Goes(p, "idle", "open") /\ now # NoFile
  /\ UNCHANGED <<now, may, temps, content, synced, file, seen, used, ghosts>>

\* The file that is opened stays the one that is read, whatever replaces it.
Open(p) ==
  /\ Goes(p, "open", "read")
  /\ file' = [file EXCEPT ![p] = now]
  /\ UNCHANGED <<now, may, temps, content, synced, seen, used, ghosts>>

ContentOf(f) == IF f \in Files /\ content[f] # "whole" THEN Torn ELSE f

Read(p) ==
  /\ Goes(p, "read", "idle")
  /\ seen' = [seen EXCEPT ![p] = ContentOf(file[p])]
  /\ file' = [file EXCEPT ![p] = NoFile]
  /\ UNCHANGED <<now, may, temps, content, synced, used, ghosts>>

-----------------------------------------------------------------------------
(* What no handler sees. *)

\* The process is killed or interrupted, or its unlink raises: everything stays
\* where it is.
Kill(p) ==
  /\ "kill" \in Faults
  /\ pc[p] # "idle"
  /\ pc' = [pc EXCEPT ![p] = "idle"]
  /\ file' = [file EXCEPT ![p] = NoFile]
  /\ seen' = [seen EXCEPT ![p] = Unread]
  /\ orphans' = orphans \cup (temps \cap {file[p]})
  /\ UNCHANGED <<now, may, temps, content, synced, used, clock, rank, returned>>

\* What the disk has of a file that was written so far.
Remains(amount) ==
  CASE amount = "nothing" -> {"nothing"}
    [] amount = "part"    -> {"nothing", "part"}
    [] OTHER              -> Amounts

\* The path goes back to one of its entries since the directory was synced, and
\* a file that was not synced may lose what it has.  Any other file that was made
\* may be back under its temporary name.
PowerLoss ==
  /\ "power" \in Faults
  /\ \E f \in may : now' = f /\ may' = {f}
  /\ \E after \in [Files -> Amounts] :
       /\ \A f \in Files : after[f] \in IF f \in synced THEN {content[f]}
                                        ELSE Remains(content[f])
       /\ content' = after
  /\ \E left \in SUBSET (used \ {now'}) : temps' = left /\ orphans' = left
  /\ pc' = [p \in Procs |-> "idle"]
  /\ file' = [p \in Procs |-> NoFile]
  /\ seen' = [p \in Procs |-> Unread]
  /\ UNCHANGED <<synced, used, clock, rank, returned>>

-----------------------------------------------------------------------------
Next ==
  \/ \E p \in Procs :
       \/ MakeTemp(p) \/ WritePart(p) \/ Write(p) \/ FsyncFile(p) \/ Replace(p)
       \/ FsyncDir(p) \/ Fail(p) \/ Unlink(p)
       \/ LoadNothing(p) \/ Exists(p) \/ Open(p) \/ Read(p)
       \/ Kill(p)
  \/ PowerLoss

Spec == Init /\ [][Next]_vars

-----------------------------------------------------------------------------
(* Properties. *)

Atomic == INSTANCE AtomicFile WITH
  Snapshots <- Files,
  current   <- ContentOf(now),
  possible  <- {ContentOf(f) : f \in may},
  seen      <- [p \in Procs |-> IF pc[p] = "read" THEN ContentOf(file[p]) ELSE seen[p]]

\* Saves and loads are those of an atomic file: whatever fails, is killed or
\* loses power, a load finds one whole snapshot, the last that was put there.
SavesAreAtomic == Atomic!Spec

\* What a save has returned for is not lost to anything but a later save: a power
\* loss leaves at the path that snapshot or one that was put there after it.
ReturnedSavesSurvive ==
  \A f \in returned, e \in may : e \in Files /\ rank[e] >= rank[f]

\* No temporary file is left behind, but by a process that was killed.
NothingLeftBehind ==
  \A f \in temps : f \in orphans \/ \E p \in Procs : file[p] = f
=============================================================================
