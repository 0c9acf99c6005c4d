----------------------------- MODULE AtomicFile -----------------------------
(***************************************************************************)
(* What save and load of storage.py promise of state.json: a load finds a  *)
(* whole snapshot, the one saved last; and a power loss brings back no     *)
(* snapshot that is older than the last one known to be on the disk.       *)
(* Store has the temporary files, the syncs and what can fail in between.  *)
(***************************************************************************)

CONSTANTS Procs, Snapshots,
          NoFile,   \* what is at the path before the first save
          Unread    \* what a process has that has loaded nothing

VARIABLES current,    \* what a load finds
          possible,   \* what may be there after a power loss
          seen        \* what each process's last load found

file == <<current, possible, seen>>

Init ==
  /\ current = NoFile
  /\ possible = {NoFile}
  /\ seen = [p \in Procs |-> Unread]

Write ==
  /\ \E s \in Snapshots : current' = s /\ possible' = possible \cup {s}
  /\ UNCHANGED seen

Settle ==
  /\ possible' = {current}
  /\ UNCHANGED <<current, seen>>

Load(p) ==
  /\ seen' = [seen EXCEPT ![p] = current]
  /\ UNCHANGED <<current, possible>>

Forget(p) ==
  /\ seen' = [seen EXCEPT ![p] = Unread]
  /\ UNCHANGED <<current, possible>>

PowerLoss ==
  /\ \E s \in possible : current' = s /\ possible' = {s}
  /\ seen' = [p \in Procs |-> Unread]

Next ==
  \/ Write \/ Settle \/ PowerLoss
  \/ \E p \in Procs : Load(p) \/ Forget(p)

Spec == Init /\ [][Next]_file
=============================================================================
