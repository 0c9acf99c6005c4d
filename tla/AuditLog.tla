------------------------------ MODULE AuditLog ------------------------------
(***************************************************************************)
(* JsonlAuditLog: several processes append to audit.jsonl while writes     *)
(* fall short, processes are killed and the power goes; and what           *)
(* count_rule_events, which the evidence gate reads, makes of the file.    *)
(*                                                                         *)
(* The file is the sequence of what its writes left.  An event is written  *)
(* once, so it names its line; its text is left out.                       *)
(***************************************************************************)
EXTENDS Naturals, Sequences

CONSTANTS Procs, Events,
          NoEvent,   \* what a process has that appends nothing
          Faults     \* what may go wrong

FaultNames == {"short", "error", "kill", "power"}

ASSUME AuditAssumption == NoEvent \notin Events /\ Faults \subseteq FaultNames

VARIABLES
  file,      \* what was written to the file, in order
  synced,    \* how much of it is on the disk
  exists,    \* is there a file
  linked,    \* is its name on the disk: a state saved later synced the directory
  pc,        \* where each process is in append
  event,     \* the event each process appends
  used,      \* events that were appended
  sent,      \* events that are attempts, whose exit was sent
  adrift     \* events lost with a file whose name was not on the disk

vars == <<file, synced, exists, linked, pc, event, used, sent, adrift>>

\* A line with its end, one without it, and part of one.
Kinds == {"line", "unended", "part"}

TypeOK ==
  /\ file \in Seq([event : Events, kind : Kinds])
  /\ synced \in 0..Len(file)
  /\ exists \in BOOLEAN /\ linked \in BOOLEAN
  /\ ~exists => file = <<>> /\ ~linked
  /\ pc \in [Procs -> {"idle", "write", "fsync", "appended"}]
  /\ event \in [Procs -> Events \cup {NoEvent}]
  /\ used \subseteq Events /\ sent \subseteq used /\ adrift \subseteq used

Init ==
  /\ file = <<>> /\ synced = 0
  /\ exists = FALSE /\ linked = FALSE
  /\ pc = [p \in Procs |-> "idle"]
  /\ event = [p \in Procs |-> NoEvent]
  /\ used = {} /\ sent = {} /\ adrift = {}

Goes(p, from, to) == pc[p] = from /\ pc' = [pc EXCEPT ![p] = to]

Leaves(p) == event' = [event EXCEPT ![p] = NoEvent]

-----------------------------------------------------------------------------
(* append *)

\* Mutant of Open: the file is opened for writing, not for appending.
OpenAfresh(p) ==
  /\ Goes(p, "idle", "write")
  /\ \E e \in Events \ used :
       /\ used' = used \cup {e}
       /\ event' = [event EXCEPT ![p] = e]
  /\ exists' = TRUE
  /\ file' = <<>>
  /\ UNCHANGED <<synced, linked, sent, adrift>>

Open(p) ==
  /\ Goes(p, "idle", "write")
  /\ \E e \in Events \ used :
       /\ used' = used \cup {e}
       /\ event' = [event EXCEPT ![p] = e]
  /\ exists' = TRUE
  /\ UNCHANGED <<file, synced, linked, sent, adrift>>

Written(p, kind) == file' = Append(file, [event |-> event[p], kind |-> kind])

\* The line and its end go out with one flush.
Write(p) ==
  /\ Goes(p, "write", "fsync")
  /\ Written(p, "line")
  /\ UNCHANGED <<synced, exists, linked, event, used, sent, adrift>>

\* The disk is full: what fits is written, and append raises.
WriteShort(p) ==
  /\ "short" \in Faults
  /\ Goes(p, "write", "idle") /\ Leaves(p)
  /\ \E kind \in {"unended", "part"} : Written(p, kind)
  /\ UNCHANGED <<synced, exists, linked, used, sent, adrift>>

\* Mutant of Fsync: the call is missing.
FsyncMissing(p) ==
  /\ Goes(p, "fsync", "appended")
  /\ UNCHANGED <<file, synced, exists, linked, event, used, sent, adrift>>

\* append returns.
Fsync(p) ==
  /\ Goes(p, "fsync", "appended")
  /\ synced' = Len(file)
  /\ UNCHANGED <<file, exists, linked, event, used, sent, adrift>>

\* A call of append raises, with nothing or all of the line written.
Fail(p) ==
  /\ "error" \in Faults
  /\ pc[p] \in {"write", "fsync"} /\ pc' = [pc EXCEPT ![p] = "idle"]
  /\ Leaves(p)
  /\ UNCHANGED <<file, synced, exists, linked, used, sent, adrift>>

\* The event was live_submission_attempted, and the exit is sent.
Send(p) ==
  /\ Goes(p, "appended", "idle") /\ Leaves(p)
  /\ sent' = sent \cup {event[p]}
  /\ UNCHANGED <<file, synced, exists, linked, used, adrift>>

\* It was another event.
Return(p) ==
  /\ Goes(p, "appended", "idle") /\ Leaves(p)
  /\ UNCHANGED <<file, synced, exists, linked, used, sent, adrift>>

-----------------------------------------------------------------------------
(* What happens around it. *)

\* A save of the state file syncs the directory, in which the log is too.
SyncDir ==
  /\ linked' = exists
  /\ UNCHANGED <<file, synced, exists, pc, event, used, sent, adrift>>

Kill(p) ==
  /\ "kill" \in Faults
  /\ pc[p] # "idle" /\ pc' = [pc EXCEPT ![p] = "idle"]
  /\ Leaves(p)
  /\ UNCHANGED <<file, synced, exists, linked, used, sent, adrift>>

\* What a power loss may leave of one write.
Cut(w) == IF w.kind = "line" THEN {[w EXCEPT !.kind = k] : k \in {"unended", "part"}}
          ELSE {[w EXCEPT !.kind = "part"]}

AfterPowerLoss ==
  {SubSeq(file, 1, n) : n \in synced..Len(file)}
    \cup UNION {{Append(SubSeq(file, 1, n), w) : w \in Cut(file[n + 1])}
                : n \in synced..Len(file) - 1}

\* Writes that were not synced are lost from some point on; and all of the file is,
\* as long as its name is not on the disk.
PowerLoss ==
  /\ "power" \in Faults
  /\ \/ /\ exists
        /\ file' \in AfterPowerLoss
        /\ exists' = TRUE /\ linked' = TRUE
        /\ UNCHANGED adrift
     \/ /\ ~linked
        /\ file' = <<>>
        /\ exists' = FALSE /\ linked' = FALSE
        /\ adrift' = adrift \cup {file[i].event : i \in DOMAIN file}
  /\ synced' = Len(file')
  /\ pc' = [p \in Procs |-> "idle"]
  /\ event' = [p \in Procs |-> NoEvent]
  /\ UNCHANGED <<used, sent>>

-----------------------------------------------------------------------------
Next ==
  \/ \E p \in Procs : \/ Open(p) \/ Write(p) \/ WriteShort(p) \/ Fsync(p) \/ Fail(p)
                      \/ Send(p) \/ Return(p) \/ Kill(p)
  \/ SyncDir \/ PowerLoss

Spec == Init /\ [][Next]_vars

-----------------------------------------------------------------------------
(* count_rule_events *)

\* A line is as long as it takes to its end: a write that has none makes one with
\* the next.
Glued(f, i) == i > 1 /\ f[i - 1].kind # "line"

\* json.loads raises on some line.
Unreadable(f) == \E i \in DOMAIN f : Glued(f, i) \/ f[i].kind = "part"

\* The events it counts, when it does not raise.
Counted(f) == {f[i].event : i \in DOMAIN f}

-----------------------------------------------------------------------------
(* Properties. *)

\* Whatever fails and whoever dies, an exit that was sent is in the log as an
\* attempt, written to its end and on the disk; unless the power went before any
\* state was saved after the log was made.
SentIsLogged ==
  \A e \in sent :
    \/ e \in adrift
    \/ \E i \in 1..synced : file[i] = [event |-> e, kind |-> "line"]

\* Evidence is not taken back: but for a power loss, what was counted once is
\* counted again, or the log cannot be read; and it is not read again once it
\* could not be.
EvidenceGrows ==
  [][\/ PowerLoss
     \/ Unreadable(file')
     \/ ~Unreadable(file) /\ Counted(file) \subseteq Counted(file')]_vars
=============================================================================
