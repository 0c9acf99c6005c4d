---------------------------- MODULE AuditProofs ----------------------------
(***************************************************************************)
(* Theorems about AuditLog, for any processes, events and faults.          *)
(***************************************************************************)
EXTENDS AuditLog, TLAPS

Writes == [event : Events, kind : Kinds]
LineOf(e) == [event |-> e, kind |-> "line"]

Types ==
  /\ file \in Seq(Writes) /\ synced \in Nat /\ synced <= Len(file)
  /\ exists \in BOOLEAN /\ linked \in BOOLEAN
  /\ ~exists => file = <<>> /\ ~linked
  /\ pc \in [Procs -> {"idle", "write", "fsync", "appended"}]
  /\ event \in [Procs -> Events \cup {NoEvent}]
  /\ used \subseteq Events /\ sent \subseteq used /\ adrift \subseteq used

\* What is in the file, and what processes append, was used.
UsedInv ==
  /\ \A i \in 1..Len(file) : file[i].event \in used
  /\ \A p \in Procs : pc[p] # "idle" => event[p] \in used

\* The line of e is on the disk, or went with the file.
Logged(e) == e \in adrift \/ \E i \in 1..synced : file[i] = LineOf(e)

\* How far the line of each process is.
LineInv ==
  \A p \in Procs :
    /\ pc[p] = "fsync" => \E i \in 1..Len(file) : file[i] = LineOf(event[p])
    /\ pc[p] = "appended" => Logged(event[p])

AuditInv ==
  /\ Types /\ UsedInv /\ LineInv
  /\ \A e \in sent : Logged(e)
  /\ \A p \in Procs : pc[p] # "idle" => exists

LEMMA InitAudit == Init => AuditInv
  <1> SUFFICES ASSUME Init
               PROVE  AuditInv
    OBVIOUS
  <1>1. <<>> \in Seq(Writes) /\ Len(<<>>) = 0
    OBVIOUS
  <1>2. Types
    <2>1. file \in Seq(Writes) /\ synced \in Nat /\ synced <= Len(file)
      BY <1>1 DEF Init
    <2>2. /\ exists \in BOOLEAN /\ linked \in BOOLEAN
          /\ ~exists => file = <<>> /\ ~linked
      BY DEF Init
    <2>3. /\ pc \in [Procs -> {"idle", "write", "fsync", "appended"}]
          /\ event \in [Procs -> Events \cup {NoEvent}]
      BY DEF Init
    <2>4. used \subseteq Events /\ sent \subseteq used /\ adrift \subseteq used
      BY DEF Init
    <2> QED BY <2>1, <2>2, <2>3, <2>4 DEF Types
  <1>3. UsedInv
    BY <1>1 DEF Init, UsedInv
  <1>4. LineInv
    BY DEF Init, LineInv
  <1>5. sent = {} /\ \A p \in Procs : pc[p] = "idle"
    BY DEF Init
  <1> QED BY <1>2, <1>3, <1>4, <1>5 DEF AuditInv

-----------------------------------------------------------------------------
(* What each step keeps.  Nothing that is on the disk is lost: the file only *)
(* grows, and synced with it.                                                *)

\* Everything on the disk is still there.
Stays ==
  /\ synced <= synced' /\ adrift \subseteq adrift'
  /\ \A i \in 1..synced : file'[i] = file[i]

LEMMA StaysLogged ==
  ASSUME Types, Types', Stays
  PROVE  \A e : Logged(e) => Logged(e)'
  <1> SUFFICES ASSUME NEW e, Logged(e)
               PROVE  Logged(e)'
    OBVIOUS
  <1>1. synced \in Nat /\ synced' \in Nat
    BY DEF Types
  <1>2. \A i \in 1..synced : i \in 1..synced' /\ file'[i] = file[i]
    BY <1>1 DEF Stays
  <1> QED BY <1>2 DEF Logged, Stays

\* A line written to the end of the file stays what was before it.
LEMMA AppendTo ==
  ASSUME Types, NEW w \in Writes, file' = Append(file, w)
  PROVE  /\ file' \in Seq(Writes) /\ Len(file') = Len(file) + 1
         /\ \A i \in 1..Len(file) : file'[i] = file[i]
         /\ file'[Len(file) + 1] = w
  BY DEF Types

\* What holds after a step when the file stays as it is or gets one more line, the
\* disk loses nothing and one process moves.
LEMMA KeepsInv ==
  ASSUME AuditInv, Types', Stays, NEW p \in Procs,
         Len(file') >= Len(file),
         \A i \in 1..Len(file) : file'[i] = file[i],
         \A i \in 1..Len(file') : file'[i].event \in used',
         used \subseteq used', exists => exists',
         \A q \in Procs \ {p} : pc'[q] = pc[q] /\ event'[q] = event[q],
         pc'[p] # "idle" => event'[p] \in used' /\ exists',
         pc'[p] = "fsync" => \E i \in 1..Len(file') : file'[i] = LineOf(event'[p]),
         pc'[p] = "appended" => Logged(event[p])' /\ event'[p] = event[p],
         \A e \in sent' : e \in sent \/ Logged(e)
  PROVE  AuditInv'
  <1> USE DEF AuditInv
  <1>1. \A e : Logged(e) => Logged(e)'
    BY StaysLogged
  <1>2. UsedInv'
    BY DEF UsedInv
  <1>3. Len(file) \in Nat /\ Len(file') \in Nat
    BY DEF Types
  <1>4. LineInv'
    <2> SUFFICES ASSUME NEW q \in Procs
                 PROVE  /\ pc'[q] = "fsync" => \E i \in 1..Len(file') : file'[i] = LineOf(event'[q])
                        /\ pc'[q] = "appended" => Logged(event[q])'
      BY DEF LineInv, LineOf
    <2>1. CASE q = p
      BY <2>1
    <2>2. CASE q # p
      <3>1. pc'[q] = pc[q] /\ event'[q] = event[q]
        BY <2>2
      <3>2. ASSUME pc[q] = "fsync"
            PROVE  \E i \in 1..Len(file') : file'[i] = LineOf(event[q])
        <4>1. PICK i \in 1..Len(file) : file[i] = LineOf(event[q])
          BY <3>2 DEF LineInv
        <4>2. i \in 1..Len(file') /\ file'[i] = file[i]
          BY <1>3
        <4> QED BY <4>1, <4>2
      <3>3. pc[q] = "appended" => Logged(event[q])
        BY DEF LineInv
      <3>4. pc[q] = "appended" => Logged(event[q])'
        BY <3>1, <3>3, <1>1 DEF Logged, LineOf
      <3> QED BY <3>1, <3>2, <3>4
    <2> QED BY <2>1, <2>2
  <1>5. \A e \in sent' : Logged(e)'
    BY <1>1
  <1>6. \A q \in Procs : pc'[q] # "idle" => exists'
    BY DEF LineInv
  <1> QED BY <1>2, <1>4, <1>5, <1>6

-----------------------------------------------------------------------------
(* The steps of append. *)

LEMMA OpenInv ==
  ASSUME AuditInv, NEW p \in Procs, Open(p)
  PROVE  AuditInv'
  <1> USE DEF AuditInv
  <1>1. PICK e \in Events \ used : used' = used \cup {e} /\ event' = [event EXCEPT ![p] = e]
    BY DEF Open
  <1>2. /\ UNCHANGED <<file, synced, linked, sent, adrift>> /\ exists'
        /\ pc' = [pc EXCEPT ![p] = "write"]
    BY DEF Open, Goes
  <1>3. Types'
    BY <1>1, <1>2 DEF Types
  <1>4. Stays /\ Len(file') >= Len(file)
    BY <1>2 DEF Stays, Types
  <1>5. \A i \in 1..Len(file') : file'[i].event \in used'
    BY <1>1, <1>2 DEF UsedInv
  <1>6. /\ pc'[p] = "write" /\ event'[p] \in used'
        /\ \A q \in Procs \ {p} : pc'[q] = pc[q] /\ event'[q] = event[q]
    BY <1>1, <1>2 DEF Types
  <1> QED BY <1>1, <1>2, <1>3, <1>4, <1>5, <1>6, KeepsInv

LEMMA WriteInv ==
  ASSUME AuditInv, NEW p \in Procs, Write(p)
  PROVE  AuditInv'
  <1> USE DEF AuditInv
  <1> DEFINE w == LineOf(event[p])
  <1>1. /\ UNCHANGED <<synced, exists, linked, event, used, sent, adrift>>
        /\ pc[p] = "write" /\ pc' = [pc EXCEPT ![p] = "fsync"] /\ file' = Append(file, w)
    BY DEF Write, Goes, Written, LineOf
  <1>2. event[p] \in used /\ exists
    BY <1>1 DEF UsedInv
  <1>3. w \in Writes /\ w.event = event[p]
    BY <1>2 DEF Types, LineOf, Writes, Kinds
  <1> HIDE DEF w
  <1>4. /\ file' \in Seq(Writes) /\ Len(file') = Len(file) + 1
        /\ \A i \in 1..Len(file) : file'[i] = file[i]
        /\ file'[Len(file) + 1] = w
    BY <1>1, <1>3, AppendTo
  <1>5. Len(file) \in Nat /\ synced \in Nat /\ synced <= Len(file)
    BY DEF Types
  <1>6. /\ file' \in Seq(Writes) /\ synced' \in Nat /\ synced' <= Len(file')
        /\ pc' \in [Procs -> {"idle", "write", "fsync", "appended"}]
    BY <1>1, <1>4, <1>5 DEF Types
  <1>7. Types'
    BY <1>1, <1>2, <1>6 DEF Types
  <1>8. Stays
    BY <1>1, <1>4, <1>5 DEF Stays
  <1>9. \A i \in 1..Len(file') : file'[i].event \in used'
    <2> TAKE i \in 1..Len(file')
    <2>1. CASE i \in 1..Len(file)
      BY <1>1, <1>4, <2>1 DEF UsedInv
    <2>2. CASE i = Len(file) + 1
      BY <1>1, <1>2, <1>3, <1>4, <2>2
    <2> QED BY <1>4, <1>5, <2>1, <2>2
  <1>10. \E i \in 1..Len(file') : file'[i] = LineOf(event'[p])
    <2> Len(file) + 1 \in 1..Len(file')
      BY <1>4, <1>5
    <2> QED BY <1>1, <1>4 DEF w
  <1>11. /\ pc'[p] = "fsync"
         /\ \A q \in Procs \ {p} : pc'[q] = pc[q] /\ event'[q] = event[q]
    BY <1>1 DEF Types
  <1>12. Len(file') >= Len(file)
    BY <1>4, <1>5
  <1> QED BY <1>1, <1>2, <1>4, <1>7, <1>8, <1>9, <1>10, <1>11, <1>12, KeepsInv

LEMMA WriteShortInv ==
  ASSUME AuditInv, NEW p \in Procs, WriteShort(p)
  PROVE  AuditInv'
  <1> USE DEF AuditInv
  <1>1. PICK kind \in {"unended", "part"} : file' = Append(file, [event |-> event[p], kind |-> kind])
    BY DEF WriteShort, Written
  <1> DEFINE w == [event |-> event[p], kind |-> kind]
  <1>2. /\ UNCHANGED <<synced, exists, linked, used, sent, adrift>>
        /\ pc[p] = "write" /\ pc' = [pc EXCEPT ![p] = "idle"]
        /\ event' = [event EXCEPT ![p] = NoEvent]
    BY DEF WriteShort, Goes, Leaves
  <1>3. event[p] \in used /\ exists
    BY <1>2 DEF UsedInv
  <1>4. w \in Writes /\ w.event = event[p] /\ file' = Append(file, w)
    BY <1>1, <1>3 DEF Types, Writes, Kinds
  <1> HIDE DEF w
  <1>5. /\ file' \in Seq(Writes) /\ Len(file') = Len(file) + 1
        /\ \A i \in 1..Len(file) : file'[i] = file[i]
        /\ file'[Len(file) + 1] = w
    BY <1>4, AppendTo
  <1>6. Len(file) \in Nat /\ synced \in Nat /\ synced <= Len(file)
    BY DEF Types
  <1>7. /\ file' \in Seq(Writes) /\ synced' \in Nat /\ synced' <= Len(file')
        /\ pc' \in [Procs -> {"idle", "write", "fsync", "appended"}]
        /\ event' \in [Procs -> Events \cup {NoEvent}]
    BY <1>2, <1>5, <1>6 DEF Types
  <1>8. Types'
    BY <1>2, <1>3, <1>7 DEF Types
  <1>9. Stays
    BY <1>2, <1>5, <1>6 DEF Stays
  <1>10. \A i \in 1..Len(file') : file'[i].event \in used'
    <2> TAKE i \in 1..Len(file')
    <2>1. CASE i \in 1..Len(file)
      BY <1>2, <1>5, <2>1 DEF UsedInv
    <2>2. CASE i = Len(file) + 1
      BY <1>2, <1>3, <1>4, <1>5, <2>2
    <2> QED BY <1>5, <1>6, <2>1, <2>2
  <1>11. /\ pc'[p] = "idle"
         /\ \A q \in Procs \ {p} : pc'[q] = pc[q] /\ event'[q] = event[q]
    BY <1>2 DEF Types
  <1>12. Len(file') >= Len(file)
    BY <1>5, <1>6
  <1> QED BY <1>2, <1>5, <1>8, <1>9, <1>10, <1>11, <1>12, KeepsInv

LEMMA FsyncInv ==
  ASSUME AuditInv, NEW p \in Procs, Fsync(p)
  PROVE  AuditInv'
  <1> USE DEF AuditInv
  <1>1. /\ UNCHANGED <<file, exists, linked, event, used, sent, adrift>>
        /\ synced' = Len(file)
        /\ pc[p] = "fsync" /\ pc' = [pc EXCEPT ![p] = "appended"]
    BY DEF Fsync, Goes
  <1>2. Len(file) \in Nat /\ synced \in Nat /\ synced <= Len(file)
    BY DEF Types
  <1>3. Types'
    BY <1>1, <1>2 DEF Types
  <1>4. Stays /\ Len(file') >= Len(file)
    BY <1>1, <1>2 DEF Stays
  <1>5. Logged(event[p])'
    BY <1>1 DEF LineInv, Logged, LineOf
  <1>6. \A i \in 1..Len(file') : file'[i].event \in used'
    BY <1>1 DEF UsedInv
  <1>7. /\ pc'[p] = "appended" /\ event'[p] \in used' /\ exists'
        /\ \A q \in Procs \ {p} : pc'[q] = pc[q] /\ event'[q] = event[q]
    BY <1>1 DEF Types, UsedInv
  <1> QED BY <1>1, <1>3, <1>4, <1>5, <1>6, <1>7, KeepsInv

\* A process that leaves append, whatever it has sent.
LEMMA LeavesInv ==
  ASSUME AuditInv, NEW p \in Procs, pc' = [pc EXCEPT ![p] = "idle"], Leaves(p),
         UNCHANGED <<file, synced, exists, linked, used, adrift>>,
         sent' \subseteq used, \A e \in sent' : e \in sent \/ Logged(e)
  PROVE  AuditInv'
  <1> USE DEF AuditInv
  <1>1. event' = [event EXCEPT ![p] = NoEvent]
    BY DEF Leaves
  <1>2. Types'
    BY <1>1 DEF Types
  <1>3. Stays /\ Len(file') >= Len(file)
    BY DEF Stays, Types
  <1>4. \A i \in 1..Len(file') : file'[i].event \in used'
    BY DEF UsedInv
  <1>5. /\ pc'[p] = "idle"
        /\ \A q \in Procs \ {p} : pc'[q] = pc[q] /\ event'[q] = event[q]
    BY <1>1 DEF Types
  <1> QED BY <1>2, <1>3, <1>4, <1>5, KeepsInv

LEMMA SendInv ==
  ASSUME AuditInv, NEW p \in Procs, Send(p)
  PROVE  AuditInv'
  <1> USE DEF AuditInv
  <1>1. Logged(event[p]) /\ event[p] \in used
    BY DEF Send, Goes, LineInv, UsedInv
  <1>2. sent' \subseteq used
    BY <1>1 DEF Send, Types
  <1> QED BY <1>1, <1>2, LeavesInv DEF Send, Goes

LEMMA OtherLeavesInv ==
  ASSUME AuditInv, NEW p \in Procs, Fail(p) \/ Return(p) \/ Kill(p)
  PROVE  AuditInv'
  <1>1. sent \subseteq used
    BY DEF AuditInv, Types
  <1> QED BY <1>1, LeavesInv DEF Fail, Return, Kill, Goes

-----------------------------------------------------------------------------
(* A power loss. *)

\* What is left of the file has what was on the disk, and nothing that was not written.
LEMMA CutShort ==
  ASSUME Types, NEW g \in AfterPowerLoss
  PROVE  /\ g \in Seq(Writes) /\ Len(g) \in Nat /\ synced <= Len(g) /\ Len(g) <= Len(file)
         /\ \A i \in 1..synced : g[i] = file[i]
         /\ \A i \in 1..Len(g) : g[i].event = file[i].event
  <1>1. /\ Len(file) \in Nat /\ synced \in Nat /\ synced <= Len(file)
        /\ file \in Seq(Writes)
    BY DEF Types
  <1>2. ASSUME NEW n \in synced..Len(file)
        PROVE  /\ SubSeq(file, 1, n) \in Seq(Writes) /\ Len(SubSeq(file, 1, n)) = n
               /\ \A i \in 1..n : SubSeq(file, 1, n)[i] = file[i]
    BY <1>1
  <1>3. CASE \E n \in synced..Len(file) : g = SubSeq(file, 1, n)
    BY <1>1, <1>2, <1>3
  <1>4. CASE \E n \in synced..Len(file) - 1 : \E w \in Cut(file[n + 1]) :
               g = Append(SubSeq(file, 1, n), w)
    <2>1. PICK n \in synced..Len(file) - 1 : \E w \in Cut(file[n + 1]) :
                 g = Append(SubSeq(file, 1, n), w)
      BY <1>4
    <2>2. PICK w \in Cut(file[n + 1]) : g = Append(SubSeq(file, 1, n), w)
      BY <2>1
    <2>3. n \in synced..Len(file) /\ n + 1 \in 1..Len(file)
      BY <1>1
    <2>4. w \in Writes /\ w.event = file[n + 1].event
      <3>1. file[n + 1] \in Writes
        BY <1>1, <2>3
      <3>2. PICK k \in Kinds : w = [file[n + 1] EXCEPT !.kind = k]
        BY DEF Cut, Kinds
      <3> QED BY <3>1, <3>2 DEF Writes
    <2> DEFINE head == SubSeq(file, 1, n)
    <2>5. /\ head \in Seq(Writes) /\ Len(head) = n
          /\ \A i \in 1..n : head[i] = file[i]
      BY <1>2, <2>3
    <2>6. n \in Nat /\ synced <= n /\ n < Len(file)
      BY <1>1
    <2> HIDE DEF head
    <2>7. /\ g \in Seq(Writes) /\ Len(g) = n + 1
          /\ \A i \in 1..n : g[i] = head[i]
          /\ g[n + 1] = w
      <3>1. g = Append(head, w)
        BY <2>2 DEF head
      <3> QED BY <2>4, <2>5, <2>6, <3>1
    <2>8. \A i \in 1..n + 1 : g[i].event = file[i].event
      BY <2>4, <2>5, <2>6, <2>7
    <2> QED BY <1>1, <2>5, <2>6, <2>7, <2>8
  <1>5. \/ \E n \in synced..Len(file) : g = SubSeq(file, 1, n)
        \/ \E n \in synced..Len(file) - 1 : \E w \in Cut(file[n + 1]) :
               g = Append(SubSeq(file, 1, n), w)
    BY DEF AfterPowerLoss
  <1> QED BY <1>3, <1>4, <1>5

LEMMA PowerLossInv ==
  ASSUME AuditInv, PowerLoss
  PROVE  AuditInv'
  <1> USE DEF AuditInv
  <1>1. /\ synced' = Len(file') /\ pc' = [q \in Procs |-> "idle"]
        /\ event' = [q \in Procs |-> NoEvent] /\ UNCHANGED <<used, sent>>
    BY DEF PowerLoss
  <1>2. /\ pc' \in [Procs -> {"idle", "write", "fsync", "appended"}]
        /\ event' \in [Procs -> Events \cup {NoEvent}]
        /\ \A q \in Procs : pc'[q] = "idle"
    BY <1>1
  <1>3. Len(file) \in Nat /\ synced \in Nat /\ synced <= Len(file)
    BY DEF Types
  <1>4. CASE exists /\ file' \in AfterPowerLoss /\ exists' = TRUE /\ linked' = TRUE
             /\ UNCHANGED adrift
    <2>1. /\ file' \in Seq(Writes) /\ Len(file') \in Nat
          /\ synced <= Len(file') /\ Len(file') <= Len(file)
          /\ \A i \in 1..synced : file'[i] = file[i]
          /\ \A i \in 1..Len(file') : file'[i].event = file[i].event
      BY <1>4, CutShort
    <2>2. Types'
      BY <1>1, <1>2, <1>4, <2>1 DEF Types
    <2>3. Stays
      BY <1>1, <1>4, <2>1 DEF Stays
    <2>4. \A e \in sent' : Logged(e)'
      BY <1>1, <2>2, <2>3, StaysLogged
    <2>5. UsedInv'
      BY <1>1, <1>2, <1>3, <2>1 DEF UsedInv
    <2>6. LineInv'
      BY <1>2 DEF LineInv
    <2> QED BY <1>2, <2>2, <2>4, <2>5, <2>6
  <1>5. CASE ~linked /\ file' = <<>> /\ exists' = FALSE /\ linked' = FALSE
             /\ adrift' = adrift \cup {file[i].event : i \in DOMAIN file}
    <2>1. file' \in Seq(Writes) /\ Len(file') = 0
      BY <1>5
    <2>2. DOMAIN file = 1..Len(file)
      BY DEF Types
    <2>3. adrift' \subseteq used
      BY <1>5, <2>2 DEF Types, UsedInv
    <2>4. Types'
      <3>1. file' \in Seq(Writes) /\ synced' \in Nat /\ synced' <= Len(file')
        BY <1>1, <2>1
      <3>2. /\ exists' \in BOOLEAN /\ linked' \in BOOLEAN
            /\ ~exists' => file' = <<>> /\ ~linked'
        BY <1>5
      <3>3. used' \subseteq Events /\ sent' \subseteq used' /\ adrift' \subseteq used'
        BY <1>1, <2>3 DEF Types
      <3> QED BY <1>2, <3>1, <3>2, <3>3 DEF Types
    <2>5. \A e \in sent' : Logged(e)'
      <3> SUFFICES ASSUME NEW e \in sent
                   PROVE  e \in adrift'
        BY <1>1 DEF Logged
      <3>1. CASE e \in adrift
        BY <1>5, <3>1
      <3>2. CASE \E i \in 1..synced : file[i] = LineOf(e)
        <4>1. PICK i \in 1..synced : file[i] = LineOf(e)
          BY <3>2
        <4>2. i \in DOMAIN file /\ file[i].event = e
          BY <1>3, <2>2, <4>1 DEF LineOf
        <4> QED BY <1>5, <4>2
      <3> QED BY <3>1, <3>2 DEF Logged
    <2>6. UsedInv' /\ LineInv'
      BY <1>2, <2>1 DEF UsedInv, LineInv
    <2> QED BY <1>2, <2>4, <2>5, <2>6
  <1> QED BY <1>4, <1>5 DEF PowerLoss

-----------------------------------------------------------------------------
(* The theorems. *)

LEMMA SyncDirInv == AuditInv /\ SyncDir => AuditInv'
  BY DEF SyncDir, AuditInv, Types, UsedInv, LineInv, Logged, LineOf

LEMMA StutterInv == AuditInv /\ UNCHANGED vars => AuditInv'
  BY DEF vars, AuditInv, Types, UsedInv, LineInv, Logged, LineOf

LEMMA StepAudit == AuditInv /\ [Next]_vars => AuditInv'
  <1> SUFFICES ASSUME AuditInv, [Next]_vars
               PROVE  AuditInv'
    OBVIOUS
  <1>1. ASSUME NEW p \in Procs,
               \/ Open(p) \/ Write(p) \/ WriteShort(p) \/ Fsync(p) \/ Fail(p)
               \/ Send(p) \/ Return(p) \/ Kill(p)
        PROVE  AuditInv'
    BY <1>1, OpenInv, WriteInv, WriteShortInv, FsyncInv, SendInv, OtherLeavesInv
  <1> QED BY <1>1, PowerLossInv, SyncDirInv, StutterInv DEF Next

\* Every reachable state of the log is well typed: what counts as synced is in the file.
THEOREM AuditTypeCorrect == Spec => []TypeOK
  <1>1. AuditInv => TypeOK
    BY DEF AuditInv, Types, TypeOK, Writes
  <1> QED BY <1>1, InitAudit, StepAudit, PTL DEF Spec

\* An attempt is on the disk, written to its end, before its exit is sent, and stays
\* there: submission.py appends it, with its fsync, before it calls the exchange.
THEOREM SentTheorem == Spec => []SentIsLogged
  <1>1. AuditInv => SentIsLogged
    BY DEF AuditInv, Logged, LineOf, SentIsLogged
  <1> QED BY <1>1, InitAudit, StepAudit, PTL DEF Spec

\* A step leaves the file as it is, appends one write to it, or is a power loss.
LEMMA FileGrows ==
  ASSUME AuditInv, [Next]_vars
  PROVE  \/ PowerLoss \/ file' = file
         \/ \E w \in Writes : file' = Append(file, w)
  <1> USE DEF AuditInv
  <1>1. ASSUME NEW p \in Procs, NEW kind \in Kinds, Written(p, kind), pc[p] = "write"
        PROVE  \E w \in Writes : file' = Append(file, w)
    <2>1. event[p] \in Events
      BY <1>1 DEF UsedInv, Types
    <2>2. [event |-> event[p], kind |-> kind] \in Writes
      BY <2>1 DEF Writes
    <2> QED BY <1>1, <2>2 DEF Written
  <1>2. ASSUME NEW p \in Procs, Write(p) \/ WriteShort(p)
        PROVE  \E w \in Writes : file' = Append(file, w)
    <2>1. pc[p] = "write" /\ \E kind \in Kinds : Written(p, kind)
      BY <1>2 DEF Write, WriteShort, Goes, Kinds
    <2> QED BY <1>1, <2>1
  <1>3. ASSUME NEW p \in Procs,
               Open(p) \/ Fsync(p) \/ Fail(p) \/ Send(p) \/ Return(p) \/ Kill(p)
        PROVE  file' = file
    BY <1>3 DEF Open, Fsync, Fail, Send, Return, Kill
  <1>4. SyncDir \/ UNCHANGED vars => file' = file
    BY DEF SyncDir, vars
  <1> QED BY <1>2, <1>3, <1>4 DEF Next

\* What was counted is counted again, and a line that cannot be read stays one: the
\* file is opened for appending and no line of it is ever written again.
THEOREM EvidenceTheorem == Spec => EvidenceGrows
  <1> DEFINE Kept == \/ PowerLoss
                     \/ Unreadable(file')
                     \/ ~Unreadable(file) /\ Counted(file) \subseteq Counted(file')
  <1>1. ASSUME AuditInv, [Next]_vars
        PROVE  Kept
    <2>1. CASE file' = file
      BY <2>1 DEF Counted
    <2>2. CASE \E w \in Writes : file' = Append(file, w)
      <3>1. PICK w \in Writes : file' = Append(file, w)
        BY <2>2
      <3>2. /\ Types /\ DOMAIN file = 1..Len(file) /\ Len(file) \in Nat
        BY <1>1 DEF AuditInv, Types
      <3>3. /\ file' \in Seq(Writes) /\ Len(file') = Len(file) + 1
            /\ \A i \in 1..Len(file) : file'[i] = file[i]
        BY <3>1, <3>2, AppendTo
      <3>4. DOMAIN file \subseteq DOMAIN file' /\ \A i \in DOMAIN file : file'[i] = file[i]
        BY <3>2, <3>3
      <3>5. Counted(file) \subseteq Counted(file')
        BY <3>4 DEF Counted
      <3>6. ASSUME Unreadable(file)
            PROVE  Unreadable(file')
        <4>1. PICK i \in DOMAIN file : Glued(file, i) \/ file[i].kind = "part"
          BY <3>6 DEF Unreadable
        <4>2. i > 1 => i - 1 \in DOMAIN file
          BY <3>2
        <4>3. Glued(file, i) => Glued(file', i)
          BY <3>4, <4>2 DEF Glued
        <4> QED BY <3>4, <4>1, <4>3 DEF Unreadable
      <3> QED BY <3>5, <3>6
    <2> QED BY <1>1, <2>1, <2>2, FileGrows
  <1>2. AuditInv /\ [Next]_vars => [Kept]_vars
    BY <1>1
  <1> QED BY <1>2, InitAudit, StepAudit, PTL DEF Spec, EvidenceGrows
=============================================================================
