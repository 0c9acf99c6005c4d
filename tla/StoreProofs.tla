---------------------------- MODULE StoreProofs ----------------------------
(***************************************************************************)
(* Theorems about Store, for any processes, files and faults: what may be  *)
(* at the path is whole and on the disk, so saves and loads are those of   *)
(* an atomic file, and a save that returned is not lost.                   *)
(***************************************************************************)
EXTENDS Store, TLAPS

Before == {"write", "fsync", "replace"}
Saving == {"write", "fsync", "replace", "fsync dir", "unlink"}

\* What may be at the path has its content on the disk.
PlaceInv ==
  /\ now \in may /\ synced \subseteq used /\ returned \subseteq used
  /\ \A f \in may : f \in Files =>
       f \in synced /\ content[f] = "whole" /\ f \in used /\ f \notin temps

\* How far the file of process p is, by where p is.
InHand(p) ==
  /\ pc[p] \in Saving => file[p] \in Files /\ file[p] \in used
  /\ pc[p] \in Before => file[p] \notin may /\ file[p] \notin returned
  /\ pc[p] = "write" => file[p] \notin synced
  /\ pc[p] = "fsync" => content[file[p]] = "whole"
  /\ pc[p] = "replace" => content[file[p]] = "whole" /\ file[p] \in synced
  /\ pc[p] = "fsync dir" => file[p] \notin temps
  /\ pc[p] = "open" => now # NoFile
  /\ pc[p] = "read" => file[p] \in Files /\ content[file[p]] = "whole"
                       /\ file[p] \in synced /\ file[p] \in used /\ file[p] \notin temps
  /\ pc[p] \in {"idle", "open"} => file[p] = NoFile

ProcInv == \A p \in Procs : InHand(p)

\* No two processes save to one file.
Differ(p, q) == pc[p] \in Saving /\ pc[q] \in Saving => file[p] # file[q]

Apart == \A p, q \in Procs : p # q => Differ(p, q)

\* The file at the path is the last that was put there of those that may be.
RankInv ==
  /\ \A f \in Files : rank[f] <= clock
  /\ \A f \in may : f \in Files => now \in Files /\ rank[f] <= rank[now]
  /\ \A p \in Procs : pc[p] = "fsync dir" => now \in Files /\ rank[file[p]] <= rank[now]

StoreInv == /\ TypeOK /\ PlaceInv /\ ProcInv /\ Apart /\ RankInv
            /\ ReturnedSavesSurvive /\ NothingLeftBehind

LEMMA InitInv == Init => StoreInv
  <1> SUFFICES ASSUME Init
               PROVE  StoreInv
    OBVIOUS
  <1>1. TypeOK
    BY DEF Init, TypeOK, Labels, Amounts, Loaded
  <1>2. PlaceInv
    BY StoreAssumption DEF Init, PlaceInv
  <1>3. ProcInv /\ Apart
    BY StoreAssumption DEF Init, ProcInv, InHand, Apart, Differ, Before, Saving
  <1>4. RankInv /\ ReturnedSavesSurvive /\ NothingLeftBehind
    BY StoreAssumption DEF Init, RankInv, ReturnedSavesSurvive, NothingLeftBehind
  <1> QED BY <1>1, <1>2, <1>3, <1>4 DEF StoreInv

-----------------------------------------------------------------------------
(* What each step keeps. *)

LEMMA MakeTempKeeps ==
  ASSUME StoreInv, NEW p \in Procs, MakeTemp(p)
  PROVE  StoreInv'
  <1> PICK f \in Files \ used :
        /\ used' = used \cup {f}
        /\ temps' = temps \cup {f}
        /\ file' = [file EXCEPT ![p] = f]
    BY DEF MakeTemp
  <1>1. TypeOK /\ PlaceInv /\ RankInv /\ ReturnedSavesSurvive /\ NothingLeftBehind
    BY DEF StoreInv
  <1>2. /\ \A q \in Procs : InHand(q)
        /\ \A q, r \in Procs : q # r => Differ(q, r)
    BY DEF StoreInv, ProcInv, Apart
  <1>3. /\ pc' = [pc EXCEPT ![p] = "write"] /\ file' = [file EXCEPT ![p] = f]
        /\ pc \in [Procs -> Labels] /\ file \in [Procs -> Files \cup {NoFile}]
    BY <1>1 DEF MakeTemp, Goes, TypeOK
  <1>4. /\ pc[p] = "idle" /\ f \in Files \ used
        /\ used' = used \cup {f} /\ temps' = temps \cup {f}
        /\ UNCHANGED <<now, may, content, synced, seen, clock, rank, returned, orphans>>
    BY <1>1, <1>2, StoreAssumption DEF MakeTemp, Goes, ghosts, TypeOK, InHand, Before, Saving, Amounts
  <1>12. f \in Files /\ f \notin may /\ f \notin synced /\ f \notin returned /\ f # NoFile
    BY <1>1, <1>4, StoreAssumption DEF PlaceInv
  <1>5. TypeOK'
    BY <1>1, <1>3, <1>4 DEF TypeOK, Labels, Amounts, Loaded
  <1>6. PlaceInv'
    BY <1>1, <1>4, <1>12 DEF PlaceInv
  <1>7. ASSUME NEW q \in Procs PROVE InHand(q)'
    <2>1. CASE q = p
      <3>1. pc'[q] = "write" /\ file'[q] = f
        BY <1>3, <2>1
      <3> QED BY <1>4, <1>12, <3>1 DEF InHand, Before, Saving
    <2>2. CASE q # p
      <3>1. pc'[q] = pc[q] /\ file'[q] = file[q]
        BY <1>3, <2>2
      <3>2. InHand(q) /\ Differ(p, q) /\ InHand(p)
        BY <1>2, <2>2
      <3> QED BY <1>1, <1>4, <3>1, <3>2, StoreAssumption DEF TypeOK, PlaceInv, InHand, Differ, Before, Saving
    <2> QED BY <2>1, <2>2
  <1>8. ASSUME NEW q \in Procs, NEW r \in Procs, q # r PROVE Differ(q, r)'
    <2>1. Differ(q, r) /\ InHand(q) /\ InHand(r)
      BY <1>2, <1>8
    <2>2. \A s \in Procs : /\ pc'[s] = IF s = p THEN "write" ELSE pc[s]
                           /\ file'[s] = IF s = p THEN f ELSE file[s]
      BY <1>3
    <2>3. CASE q = p
      <3>1. file'[q] = f /\ pc'[r] = pc[r] /\ file'[r] = file[r]
        BY <1>8, <2>2, <2>3
      <3> QED BY <1>4, <2>1, <3>1 DEF InHand, Differ, Saving
    <2>4. CASE r = p
      <3>1. file'[r] = f /\ pc'[q] = pc[q] /\ file'[q] = file[q]
        BY <1>8, <2>2, <2>4
      <3> QED BY <1>4, <2>1, <3>1 DEF InHand, Differ, Saving
    <2>5. CASE q # p /\ r # p
      BY <2>1, <2>2, <2>5 DEF Differ
    <2> QED BY <2>3, <2>4, <2>5
  <1>9. RankInv'
    <2>1. \A q \in Procs : pc'[q] = "fsync dir" => pc[q] = "fsync dir" /\ file'[q] = file[q]
      BY <1>3
    <2> QED BY <1>1, <1>4, <2>1 DEF RankInv
  <1>10. ReturnedSavesSurvive'
    BY <1>1, <1>2, <1>4 DEF TypeOK, ReturnedSavesSurvive, RankInv, PlaceInv, InHand, Before, Saving
  <1>11. NothingLeftBehind'
    <2> SUFFICES ASSUME NEW g \in temps', g \notin orphans'
                 PROVE  \E q \in Procs : file'[q] = g
      BY DEF NothingLeftBehind
    <2>1. CASE g = f
      BY <1>3, <2>1
    <2>2. CASE g # f
      <3>1. PICK q \in Procs : file[q] = g
        BY <1>1, <1>4, <2>2 DEF NothingLeftBehind
      <3>2. g # NoFile
        BY <1>1, <1>4, <2>2, StoreAssumption DEF TypeOK
      <3>3. q # p
        BY <1>2, <1>4, <3>1, <3>2 DEF InHand
      <3> QED BY <1>3, <3>1, <3>3
    <2> QED BY <2>1, <2>2
  <1> QED BY <1>5, <1>6, <1>7, <1>8, <1>9, <1>10, <1>11 DEF StoreInv, ProcInv, Apart

LEMMA WritePartKeeps ==
  ASSUME StoreInv, NEW p \in Procs, WritePart(p)
  PROVE  StoreInv'
  <1>1. TypeOK /\ PlaceInv /\ RankInv /\ ReturnedSavesSurvive /\ NothingLeftBehind
    BY DEF StoreInv
  <1>2. /\ \A q \in Procs : InHand(q)
        /\ \A q, r \in Procs : q # r => Differ(q, r)
    BY DEF StoreInv, ProcInv, Apart
  <1>3. /\ pc' = [pc EXCEPT ![p] = "write"] /\ file' = file
        /\ pc \in [Procs -> Labels] /\ file \in [Procs -> Files \cup {NoFile}]
    BY <1>1 DEF WritePart, TypeOK
  <1>4. /\ pc[p] = "write" /\ file[p] \in Files
        /\ content' = [content EXCEPT ![file[p]] = "part"]
        /\ UNCHANGED <<now, may, temps, synced, seen, used, clock, rank, returned, orphans>>
    BY <1>1, <1>2, StoreAssumption DEF WritePart, ghosts, TypeOK, InHand, Before, Saving, Amounts
  <1>5. TypeOK'
    BY <1>1, <1>3, <1>4 DEF TypeOK, Labels, Amounts, Loaded
  <1>6. PlaceInv'
    BY <1>1, <1>2, <1>4, StoreAssumption DEF TypeOK, PlaceInv, InHand, Before, Saving
  <1>7. ASSUME NEW q \in Procs PROVE InHand(q)'
    <2>1. CASE q = p
      <3>1. pc'[q] = "write" /\ file'[q] = file[p]
        BY <1>3, <2>1
      <3>2. InHand(p)
        BY <1>2
      <3> QED BY <1>1, <1>4, <2>1, <3>1, <3>2, StoreAssumption DEF TypeOK, PlaceInv, InHand, Before, Saving
    <2>2. CASE q # p
      <3>1. pc'[q] = pc[q] /\ file'[q] = file[q]
        BY <1>3, <2>2
      <3>2. InHand(q) /\ Differ(p, q) /\ InHand(p)
        BY <1>2, <2>2
      <3> QED BY <1>1, <1>4, <3>1, <3>2, StoreAssumption DEF TypeOK, PlaceInv, InHand, Differ, Before, Saving
    <2> QED BY <2>1, <2>2
  <1>8. ASSUME NEW q \in Procs, NEW r \in Procs, q # r PROVE Differ(q, r)'
    BY <1>2, <1>3, <1>4, <1>8 DEF InHand, Differ, Before, Saving
  <1>9. RankInv'
    <2>1. \A q \in Procs : pc'[q] = "fsync dir" => pc[q] = "fsync dir" /\ file'[q] = file[q]
      BY <1>3
    <2> QED BY <1>1, <1>4, <2>1 DEF RankInv
  <1>10. ReturnedSavesSurvive'
    BY <1>1, <1>2, <1>4 DEF TypeOK, ReturnedSavesSurvive, RankInv, PlaceInv, InHand, Before, Saving
  <1>11. NothingLeftBehind'
    BY <1>1, <1>2, <1>3, <1>4 DEF TypeOK, NothingLeftBehind, InHand, Before, Saving
  <1> QED BY <1>5, <1>6, <1>7, <1>8, <1>9, <1>10, <1>11 DEF StoreInv, ProcInv, Apart

LEMMA WriteKeeps ==
  ASSUME StoreInv, NEW p \in Procs, Write(p)
  PROVE  StoreInv'
  <1>1. TypeOK /\ PlaceInv /\ RankInv /\ ReturnedSavesSurvive /\ NothingLeftBehind
    BY DEF StoreInv
  <1>2. /\ \A q \in Procs : InHand(q)
        /\ \A q, r \in Procs : q # r => Differ(q, r)
    BY DEF StoreInv, ProcInv, Apart
  <1>3. /\ pc' = [pc EXCEPT ![p] = "fsync"] /\ file' = file
        /\ pc \in [Procs -> Labels] /\ file \in [Procs -> Files \cup {NoFile}]
    BY <1>1 DEF Write, Goes, TypeOK
  <1>4. /\ pc[p] = "write" /\ file[p] \in Files
        /\ content' = [content EXCEPT ![file[p]] = "whole"]
        /\ UNCHANGED <<now, may, temps, synced, seen, used, clock, rank, returned, orphans>>
    BY <1>1, <1>2, StoreAssumption DEF Write, Goes, ghosts, TypeOK, InHand, Before, Saving, Amounts
  <1>5. TypeOK'
    BY <1>1, <1>3, <1>4 DEF TypeOK, Labels, Amounts, Loaded
  <1>6. PlaceInv'
    BY <1>1, <1>2, <1>4, StoreAssumption DEF TypeOK, PlaceInv, InHand, Before, Saving
  <1>7. ASSUME NEW q \in Procs PROVE InHand(q)'
    <2>1. CASE q = p
      <3>1. pc'[q] = "fsync" /\ file'[q] = file[p]
        BY <1>3, <2>1
      <3>2. InHand(p)
        BY <1>2
      <3> QED BY <1>1, <1>4, <2>1, <3>1, <3>2, StoreAssumption DEF TypeOK, PlaceInv, InHand, Before, Saving
    <2>2. CASE q # p
      <3>1. pc'[q] = pc[q] /\ file'[q] = file[q]
        BY <1>3, <2>2
      <3>2. InHand(q) /\ Differ(p, q) /\ InHand(p)
        BY <1>2, <2>2
      <3> QED BY <1>1, <1>4, <3>1, <3>2, StoreAssumption DEF TypeOK, PlaceInv, InHand, Differ, Before, Saving
    <2> QED BY <2>1, <2>2
  <1>8. ASSUME NEW q \in Procs, NEW r \in Procs, q # r PROVE Differ(q, r)'
    BY <1>2, <1>3, <1>4, <1>8 DEF InHand, Differ, Before, Saving
  <1>9. RankInv'
    <2>1. \A q \in Procs : pc'[q] = "fsync dir" => pc[q] = "fsync dir" /\ file'[q] = file[q]
      BY <1>3
    <2> QED BY <1>1, <1>4, <2>1 DEF RankInv
  <1>10. ReturnedSavesSurvive'
    BY <1>1, <1>2, <1>4 DEF TypeOK, ReturnedSavesSurvive, RankInv, PlaceInv, InHand, Before, Saving
  <1>11. NothingLeftBehind'
    BY <1>1, <1>2, <1>3, <1>4 DEF TypeOK, NothingLeftBehind, InHand, Before, Saving
  <1> QED BY <1>5, <1>6, <1>7, <1>8, <1>9, <1>10, <1>11 DEF StoreInv, ProcInv, Apart

LEMMA FsyncFileKeeps ==
  ASSUME StoreInv, NEW p \in Procs, FsyncFile(p)
  PROVE  StoreInv'
  <1>1. TypeOK /\ PlaceInv /\ RankInv /\ ReturnedSavesSurvive /\ NothingLeftBehind
    BY DEF StoreInv
  <1>2. /\ \A q \in Procs : InHand(q)
        /\ \A q, r \in Procs : q # r => Differ(q, r)
    BY DEF StoreInv, ProcInv, Apart
  <1>3. /\ pc' = [pc EXCEPT ![p] = "replace"] /\ file' = file
        /\ pc \in [Procs -> Labels] /\ file \in [Procs -> Files \cup {NoFile}]
    BY <1>1 DEF FsyncFile, Goes, TypeOK
  <1>4. /\ pc[p] = "fsync" /\ file[p] \in Files
        /\ synced' = synced \cup {file[p]}
        /\ UNCHANGED <<now, may, temps, content, seen, used, clock, rank, returned, orphans>>
    BY <1>1, <1>2, StoreAssumption DEF FsyncFile, Goes, ghosts, TypeOK, InHand, Before, Saving, Amounts
  <1>5. TypeOK'
    BY <1>1, <1>3, <1>4 DEF TypeOK, Labels, Amounts, Loaded
  <1>6. PlaceInv'
    <2>1. file[p] \in used
      BY <1>2, <1>4 DEF InHand, Saving
    <2> QED BY <1>1, <1>4, <2>1 DEF PlaceInv
  <1>7. ASSUME NEW q \in Procs PROVE InHand(q)'
    <2>1. CASE q = p
      <3>1. pc'[q] = "replace" /\ file'[q] = file[p]
        BY <1>3, <2>1
      <3>2. InHand(p)
        BY <1>2
      <3> QED BY <1>1, <1>4, <2>1, <3>1, <3>2, StoreAssumption DEF TypeOK, PlaceInv, InHand, Before, Saving
    <2>2. CASE q # p
      <3>1. pc'[q] = pc[q] /\ file'[q] = file[q]
        BY <1>3, <2>2
      <3>2. InHand(q) /\ Differ(p, q) /\ InHand(p)
        BY <1>2, <2>2
      <3> QED BY <1>1, <1>4, <3>1, <3>2, StoreAssumption DEF TypeOK, PlaceInv, InHand, Differ, Before, Saving
    <2> QED BY <2>1, <2>2
  <1>8. ASSUME NEW q \in Procs, NEW r \in Procs, q # r PROVE Differ(q, r)'
    BY <1>2, <1>3, <1>4, <1>8 DEF InHand, Differ, Before, Saving
  <1>9. RankInv'
    <2>1. \A q \in Procs : pc'[q] = "fsync dir" => pc[q] = "fsync dir" /\ file'[q] = file[q]
      BY <1>3
    <2> QED BY <1>1, <1>4, <2>1 DEF RankInv
  <1>10. ReturnedSavesSurvive'
    BY <1>1, <1>2, <1>4 DEF TypeOK, ReturnedSavesSurvive, RankInv, PlaceInv, InHand, Before, Saving
  <1>11. NothingLeftBehind'
    BY <1>1, <1>2, <1>3, <1>4 DEF TypeOK, NothingLeftBehind, InHand, Before, Saving
  <1> QED BY <1>5, <1>6, <1>7, <1>8, <1>9, <1>10, <1>11 DEF StoreInv, ProcInv, Apart

LEMMA ReplaceKeeps ==
  ASSUME StoreInv, NEW p \in Procs, Replace(p)
  PROVE  StoreInv'
  <1>1. TypeOK /\ PlaceInv /\ RankInv /\ ReturnedSavesSurvive /\ NothingLeftBehind
    BY DEF StoreInv
  <1>2. /\ \A q \in Procs : InHand(q)
        /\ \A q, r \in Procs : q # r => Differ(q, r)
    BY DEF StoreInv, ProcInv, Apart
  <1>3. /\ pc' = [pc EXCEPT ![p] = "fsync dir"] /\ file' = file
        /\ pc \in [Procs -> Labels] /\ file \in [Procs -> Files \cup {NoFile}]
    BY <1>1 DEF Replace, Goes, TypeOK
  <1>4. /\ pc[p] = "replace" /\ file[p] \in Files
        /\ now' = file[p] /\ may' = may \cup {file[p]} /\ temps' = temps \ {file[p]}
        /\ clock' = clock + 1 /\ rank' = [rank EXCEPT ![file[p]] = clock + 1]
        /\ UNCHANGED <<content, synced, seen, used, returned, orphans>>
    BY <1>1, <1>2, StoreAssumption DEF Replace, Goes, ghosts, TypeOK, InHand, Before, Saving, Amounts
  <1>12. /\ file[p] \in used /\ file[p] \notin may /\ file[p] \notin returned
         /\ content[file[p]] = "whole" /\ file[p] \in synced /\ file[p] # NoFile
    BY <1>2, <1>4, StoreAssumption DEF InHand, Before, Saving
  <1>13. /\ clock \in Nat /\ rank \in [Files -> Nat]
         /\ rank'[file[p]] = clock + 1 /\ \A f \in Files : f # file[p] => rank'[f] = rank[f]
    BY <1>1, <1>4 DEF TypeOK
  <1>5. TypeOK'
    <2>1. rank' \in [Files -> Nat] /\ clock' \in Nat
      BY <1>4, <1>13
    <2>2. pc' \in [Procs -> Labels] /\ file' \in [Procs -> Files \cup {NoFile}]
      BY <1>3 DEF Labels
    <2> QED BY <1>1, <1>4, <2>1, <2>2 DEF TypeOK
  <1>6. PlaceInv'
    BY <1>1, <1>4, <1>12 DEF PlaceInv
  <1>7. ASSUME NEW q \in Procs PROVE InHand(q)'
    <2>1. CASE q = p
      <3>1. pc'[q] = "fsync dir" /\ file'[q] = file[p]
        BY <1>3, <2>1
      <3> QED BY <1>4, <1>12, <3>1 DEF InHand, Before, Saving
    <2>2. CASE q # p
      <3>1. pc'[q] = pc[q] /\ file'[q] = file[q]
        BY <1>3, <2>2
      <3>2. InHand(q) /\ Differ(p, q) /\ InHand(p)
        BY <1>2, <2>2
      <3> QED BY <1>1, <1>4, <3>1, <3>2, StoreAssumption DEF TypeOK, PlaceInv, InHand, Differ, Before, Saving
    <2> QED BY <2>1, <2>2
  <1>8. ASSUME NEW q \in Procs, NEW r \in Procs, q # r PROVE Differ(q, r)'
    BY <1>2, <1>3, <1>4, <1>8 DEF InHand, Differ, Before, Saving
  <1>9. RankInv'
    <2>1. ASSUME NEW f \in Files PROVE rank'[f] \in Nat /\ rank'[f] <= clock'
      <3>1. rank[f] \in Nat /\ rank[f] <= clock /\ clock' = clock + 1 /\ clock \in Nat
        BY <1>1, <1>4, <1>13 DEF RankInv
      <3> QED BY <1>13, <3>1
    <2>2. now' \in Files /\ rank'[now'] = clock'
      BY <1>4, <1>13
    <2>3. \A q \in Procs : pc'[q] = "fsync dir" => file'[q] \in Files
      <3> SUFFICES ASSUME NEW q \in Procs, pc'[q] = "fsync dir"
                   PROVE  file'[q] \in Files
        OBVIOUS
      <3>1. InHand(q)'
        BY <1>7
      <3> QED BY <3>1 DEF InHand, Saving
    <2> QED BY <2>1, <2>2, <2>3 DEF RankInv
  <1>10. ReturnedSavesSurvive'
    <2> SUFFICES ASSUME NEW f \in returned, NEW e \in may \cup {file[p]}
                 PROVE  e \in Files /\ rank'[e] >= rank'[f]
      BY <1>4 DEF ReturnedSavesSurvive
    <2>1. f \in Files /\ rank'[f] = rank[f] /\ rank[f] \in Nat /\ rank[f] <= clock
      BY <1>1, <1>12, <1>13 DEF TypeOK, RankInv
    <2>2. CASE e = file[p]
      BY <1>4, <1>13, <2>1, <2>2
    <2>3. CASE e # file[p]
      BY <1>1, <1>13, <2>1, <2>3 DEF ReturnedSavesSurvive
    <2> QED BY <2>2, <2>3
  <1>11. NothingLeftBehind'
    BY <1>1, <1>2, <1>3, <1>4 DEF TypeOK, NothingLeftBehind, InHand, Before, Saving
  <1> QED BY <1>5, <1>6, <1>7, <1>8, <1>9, <1>10, <1>11 DEF StoreInv, ProcInv, Apart

LEMMA FsyncDirKeeps ==
  ASSUME StoreInv, NEW p \in Procs, FsyncDir(p)
  PROVE  StoreInv'
  <1>1. TypeOK /\ PlaceInv /\ RankInv /\ ReturnedSavesSurvive /\ NothingLeftBehind
    BY DEF StoreInv
  <1>2. /\ \A q \in Procs : InHand(q)
        /\ \A q, r \in Procs : q # r => Differ(q, r)
    BY DEF StoreInv, ProcInv, Apart
  <1>3. /\ pc' = [pc EXCEPT ![p] = "idle"] /\ file' = [file EXCEPT ![p] = NoFile]
        /\ pc \in [Procs -> Labels] /\ file \in [Procs -> Files \cup {NoFile}]
    BY <1>1 DEF FsyncDir, Goes, TypeOK
  <1>4. /\ pc[p] = "fsync dir" /\ file[p] \in Files
        /\ may' = {now} /\ returned' = returned \cup {file[p]}
        /\ UNCHANGED <<now, temps, content, synced, seen, used, clock, rank, orphans>>
    BY <1>1, <1>2, StoreAssumption DEF FsyncDir, Goes, ghosts, TypeOK, InHand, Before, Saving, Amounts
  <1>5. TypeOK'
    BY <1>1, <1>3, <1>4 DEF TypeOK, Labels, Amounts, Loaded
  <1>6. PlaceInv'
    <2>1. file[p] \in used
      BY <1>2, <1>4 DEF InHand, Saving
    <2> QED BY <1>1, <1>4, <2>1 DEF PlaceInv
  <1>7. ASSUME NEW q \in Procs PROVE InHand(q)'
    <2>1. CASE q = p
      <3>1. pc'[q] = "idle" /\ file'[q] = NoFile
        BY <1>3, <2>1
      <3>2. InHand(p)
        BY <1>2
      <3> QED BY <1>1, <1>4, <2>1, <3>1, <3>2, StoreAssumption DEF TypeOK, PlaceInv, InHand, Before, Saving
    <2>2. CASE q # p
      <3>1. pc'[q] = pc[q] /\ file'[q] = file[q]
        BY <1>3, <2>2
      <3>2. InHand(q) /\ Differ(p, q) /\ InHand(p)
        BY <1>2, <2>2
      <3> QED BY <1>1, <1>4, <3>1, <3>2, StoreAssumption DEF TypeOK, PlaceInv, InHand, Differ, Before, Saving
    <2> QED BY <2>1, <2>2
  <1>8. ASSUME NEW q \in Procs, NEW r \in Procs, q # r PROVE Differ(q, r)'
    BY <1>2, <1>3, <1>4, <1>8 DEF InHand, Differ, Before, Saving
  <1>9. RankInv'
    BY <1>1, <1>2, <1>3, <1>4, StoreAssumption DEF TypeOK, RankInv, PlaceInv, InHand, Before, Saving
  <1>10. ReturnedSavesSurvive'
    <2>1. now \in Files /\ rank[file[p]] <= rank[now]
      BY <1>1, <1>4 DEF RankInv
    <2>2. \A f \in Files : rank[f] \in Nat
      BY <1>1 DEF TypeOK
    <2>3. \A f \in returned : rank[now] >= rank[f]
      BY <1>1 DEF ReturnedSavesSurvive, PlaceInv
    <2> QED BY <1>4, <2>1, <2>2, <2>3 DEF ReturnedSavesSurvive
  <1>11. NothingLeftBehind'
    <2> SUFFICES ASSUME NEW g \in temps, g \notin orphans
                 PROVE  \E q \in Procs : file'[q] = g
      BY <1>4 DEF NothingLeftBehind
    <2>1. PICK q \in Procs : file[q] = g
      BY <1>1 DEF NothingLeftBehind
    <2>2. q # p
      BY <1>2, <1>4, <2>1 DEF InHand
    <2> QED BY <1>3, <2>1, <2>2
  <1> QED BY <1>5, <1>6, <1>7, <1>8, <1>9, <1>10, <1>11 DEF StoreInv, ProcInv, Apart

LEMMA FailKeeps ==
  ASSUME StoreInv, NEW p \in Procs, Fail(p)
  PROVE  StoreInv'
  <1>1. TypeOK /\ PlaceInv /\ RankInv /\ ReturnedSavesSurvive /\ NothingLeftBehind
    BY DEF StoreInv
  <1>2. /\ \A q \in Procs : InHand(q)
        /\ \A q, r \in Procs : q # r => Differ(q, r)
    BY DEF StoreInv, ProcInv, Apart
  <1>3. /\ pc' = [pc EXCEPT ![p] = "unlink"] /\ file' = file
        /\ pc \in [Procs -> Labels] /\ file \in [Procs -> Files \cup {NoFile}]
    BY <1>1 DEF Fail, TypeOK
  <1>4. /\ pc[p] \in {"write", "fsync", "replace", "fsync dir"} /\ file[p] \in Files
        /\ UNCHANGED <<now, may, temps, content, synced, seen, used, clock, rank, returned, orphans>>
    BY <1>1, <1>2, StoreAssumption DEF Fail, ghosts, TypeOK, InHand, Before, Saving, Amounts
  <1>5. TypeOK'
    BY <1>1, <1>3, <1>4 DEF TypeOK, Labels, Amounts, Loaded
  <1>6. PlaceInv'
    BY <1>1, <1>2, <1>4, StoreAssumption DEF TypeOK, PlaceInv, InHand, Before, Saving
  <1>7. ASSUME NEW q \in Procs PROVE InHand(q)'
    <2>1. CASE q = p
      <3>1. pc'[q] = "unlink" /\ file'[q] = file[p]
        BY <1>3, <2>1
      <3>2. InHand(p)
        BY <1>2
      <3> QED BY <1>1, <1>4, <2>1, <3>1, <3>2, StoreAssumption DEF TypeOK, PlaceInv, InHand, Before, Saving
    <2>2. CASE q # p
      <3>1. pc'[q] = pc[q] /\ file'[q] = file[q]
        BY <1>3, <2>2
      <3>2. InHand(q) /\ Differ(p, q) /\ InHand(p)
        BY <1>2, <2>2
      <3> QED BY <1>1, <1>4, <3>1, <3>2, StoreAssumption DEF TypeOK, PlaceInv, InHand, Differ, Before, Saving
    <2> QED BY <2>1, <2>2
  <1>8. ASSUME NEW q \in Procs, NEW r \in Procs, q # r PROVE Differ(q, r)'
    BY <1>2, <1>3, <1>4, <1>8 DEF InHand, Differ, Before, Saving
  <1>9. RankInv'
    <2>1. \A q \in Procs : pc'[q] = "fsync dir" => pc[q] = "fsync dir" /\ file'[q] = file[q]
      BY <1>3
    <2> QED BY <1>1, <1>4, <2>1 DEF RankInv
  <1>10. ReturnedSavesSurvive'
    BY <1>1, <1>2, <1>4 DEF TypeOK, ReturnedSavesSurvive, RankInv, PlaceInv, InHand, Before, Saving
  <1>11. NothingLeftBehind'
    BY <1>1, <1>2, <1>3, <1>4 DEF TypeOK, NothingLeftBehind, InHand, Before, Saving
  <1> QED BY <1>5, <1>6, <1>7, <1>8, <1>9, <1>10, <1>11 DEF StoreInv, ProcInv, Apart

LEMMA UnlinkKeeps ==
  ASSUME StoreInv, NEW p \in Procs, Unlink(p)
  PROVE  StoreInv'
  <1>1. TypeOK /\ PlaceInv /\ RankInv /\ ReturnedSavesSurvive /\ NothingLeftBehind
    BY DEF StoreInv
  <1>2. /\ \A q \in Procs : InHand(q)
        /\ \A q, r \in Procs : q # r => Differ(q, r)
    BY DEF StoreInv, ProcInv, Apart
  <1>3. /\ pc' = [pc EXCEPT ![p] = "idle"] /\ file' = [file EXCEPT ![p] = NoFile]
        /\ pc \in [Procs -> Labels] /\ file \in [Procs -> Files \cup {NoFile}]
    BY <1>1 DEF Unlink, Goes, TypeOK
  <1>4. /\ pc[p] = "unlink" /\ file[p] \in Files
        /\ temps' = temps \ {file[p]}
        /\ UNCHANGED <<now, may, content, synced, seen, used, clock, rank, returned, orphans>>
    BY <1>1, <1>2, StoreAssumption DEF Unlink, Goes, ghosts, TypeOK, InHand, Before, Saving, Amounts
  <1>5. TypeOK'
    BY <1>1, <1>3, <1>4 DEF TypeOK, Labels, Amounts, Loaded
  <1>6. PlaceInv'
    BY <1>1, <1>2, <1>4, StoreAssumption DEF TypeOK, PlaceInv, InHand, Before, Saving
  <1>7. ASSUME NEW q \in Procs PROVE InHand(q)'
    <2>1. CASE q = p
      <3>1. pc'[q] = "idle" /\ file'[q] = NoFile
        BY <1>3, <2>1
      <3>2. InHand(p)
        BY <1>2
      <3> QED BY <1>1, <1>4, <2>1, <3>1, <3>2, StoreAssumption DEF TypeOK, PlaceInv, InHand, Before, Saving
    <2>2. CASE q # p
      <3>1. pc'[q] = pc[q] /\ file'[q] = file[q]
        BY <1>3, <2>2
      <3>2. InHand(q) /\ Differ(p, q) /\ InHand(p)
        BY <1>2, <2>2
      <3> QED BY <1>1, <1>4, <3>1, <3>2, StoreAssumption DEF TypeOK, PlaceInv, InHand, Differ, Before, Saving
    <2> QED BY <2>1, <2>2
  <1>8. ASSUME NEW q \in Procs, NEW r \in Procs, q # r PROVE Differ(q, r)'
    BY <1>2, <1>3, <1>4, <1>8 DEF InHand, Differ, Before, Saving
  <1>9. RankInv'
    <2>1. \A q \in Procs : pc'[q] = "fsync dir" => pc[q] = "fsync dir" /\ file'[q] = file[q]
      BY <1>3
    <2> QED BY <1>1, <1>4, <2>1 DEF RankInv
  <1>10. ReturnedSavesSurvive'
    BY <1>1, <1>2, <1>4 DEF TypeOK, ReturnedSavesSurvive, RankInv, PlaceInv, InHand, Before, Saving
  <1>11. NothingLeftBehind'
    BY <1>1, <1>2, <1>3, <1>4 DEF TypeOK, NothingLeftBehind, InHand, Before, Saving
  <1> QED BY <1>5, <1>6, <1>7, <1>8, <1>9, <1>10, <1>11 DEF StoreInv, ProcInv, Apart

LEMMA LoadNothingKeeps ==
  ASSUME StoreInv, NEW p \in Procs, LoadNothing(p)
  PROVE  StoreInv'
  <1>1. TypeOK /\ PlaceInv /\ RankInv /\ ReturnedSavesSurvive /\ NothingLeftBehind
    BY DEF StoreInv
  <1>2. /\ \A q \in Procs : InHand(q)
        /\ \A q, r \in Procs : q # r => Differ(q, r)
    BY DEF StoreInv, ProcInv, Apart
  <1>3. /\ pc' = [pc EXCEPT ![p] = "idle"] /\ file' = file
        /\ pc \in [Procs -> Labels] /\ file \in [Procs -> Files \cup {NoFile}]
    BY <1>1 DEF LoadNothing, TypeOK
  <1>4. /\ pc[p] = "idle" /\ now = NoFile
        /\ seen' = [seen EXCEPT ![p] = NoFile]
        /\ UNCHANGED <<now, may, temps, content, synced, used, clock, rank, returned, orphans>>
    BY <1>1, <1>2, StoreAssumption DEF LoadNothing, ghosts, TypeOK, InHand, Before, Saving, Amounts
  <1>5. TypeOK'
    BY <1>1, <1>3, <1>4 DEF TypeOK, Labels, Amounts, Loaded
  <1>6. PlaceInv'
    BY <1>1, <1>2, <1>4, StoreAssumption DEF TypeOK, PlaceInv, InHand, Before, Saving
  <1>7. ASSUME NEW q \in Procs PROVE InHand(q)'
    <2>1. CASE q = p
      <3>1. pc'[q] = "idle" /\ file'[q] = file[p]
        BY <1>3, <2>1
      <3>2. InHand(p)
        BY <1>2
      <3> QED BY <1>1, <1>4, <2>1, <3>1, <3>2, StoreAssumption DEF TypeOK, PlaceInv, InHand, Before, Saving
    <2>2. CASE q # p
      <3>1. pc'[q] = pc[q] /\ file'[q] = file[q]
        BY <1>3, <2>2
      <3>2. InHand(q) /\ Differ(p, q) /\ InHand(p)
        BY <1>2, <2>2
      <3> QED BY <1>1, <1>4, <3>1, <3>2, StoreAssumption DEF TypeOK, PlaceInv, InHand, Differ, Before, Saving
    <2> QED BY <2>1, <2>2
  <1>8. ASSUME NEW q \in Procs, NEW r \in Procs, q # r PROVE Differ(q, r)'
    BY <1>2, <1>3, <1>4, <1>8 DEF InHand, Differ, Before, Saving
  <1>9. RankInv'
    <2>1. \A q \in Procs : pc'[q] = "fsync dir" => pc[q] = "fsync dir" /\ file'[q] = file[q]
      BY <1>3
    <2> QED BY <1>1, <1>4, <2>1 DEF RankInv
  <1>10. ReturnedSavesSurvive'
    BY <1>1, <1>2, <1>4 DEF TypeOK, ReturnedSavesSurvive, RankInv, PlaceInv, InHand, Before, Saving
  <1>11. NothingLeftBehind'
    BY <1>1, <1>2, <1>3, <1>4 DEF TypeOK, NothingLeftBehind, InHand, Before, Saving
  <1> QED BY <1>5, <1>6, <1>7, <1>8, <1>9, <1>10, <1>11 DEF StoreInv, ProcInv, Apart

LEMMA ExistsKeeps ==
  ASSUME StoreInv, NEW p \in Procs, Exists(p)
  PROVE  StoreInv'
  <1>1. TypeOK /\ PlaceInv /\ RankInv /\ ReturnedSavesSurvive /\ NothingLeftBehind
    BY DEF StoreInv
  <1>2. /\ \A q \in Procs : InHand(q)
        /\ \A q, r \in Procs : q # r => Differ(q, r)
    BY DEF StoreInv, ProcInv, Apart
  <1>3. /\ pc' = [pc EXCEPT ![p] = "open"] /\ file' = file
        /\ pc \in [Procs -> Labels] /\ file \in [Procs -> Files \cup {NoFile}]
    BY <1>1 DEF Exists, Goes, TypeOK
  <1>4. /\ pc[p] = "idle" /\ now # NoFile
        /\ UNCHANGED <<now, may, temps, content, synced, seen, used, clock, rank, returned, orphans>>
    BY <1>1, <1>2, StoreAssumption DEF Exists, Goes, ghosts, TypeOK, InHand, Before, Saving, Amounts
  <1>5. TypeOK'
    BY <1>1, <1>3, <1>4 DEF TypeOK, Labels, Amounts, Loaded
  <1>6. PlaceInv'
    BY <1>1, <1>2, <1>4, StoreAssumption DEF TypeOK, PlaceInv, InHand, Before, Saving
  <1>7. ASSUME NEW q \in Procs PROVE InHand(q)'
    <2>1. CASE q = p
      <3>1. pc'[q] = "open" /\ file'[q] = file[p]
        BY <1>3, <2>1
      <3>2. InHand(p)
        BY <1>2
      <3> QED BY <1>1, <1>4, <2>1, <3>1, <3>2, StoreAssumption DEF TypeOK, PlaceInv, InHand, Before, Saving
    <2>2. CASE q # p
      <3>1. pc'[q] = pc[q] /\ file'[q] = file[q]
        BY <1>3, <2>2
      <3>2. InHand(q) /\ Differ(p, q) /\ InHand(p)
        BY <1>2, <2>2
      <3> QED BY <1>1, <1>4, <3>1, <3>2, StoreAssumption DEF TypeOK, PlaceInv, InHand, Differ, Before, Saving
    <2> QED BY <2>1, <2>2
  <1>8. ASSUME NEW q \in Procs, NEW r \in Procs, q # r PROVE Differ(q, r)'
    BY <1>2, <1>3, <1>4, <1>8 DEF InHand, Differ, Before, Saving
  <1>9. RankInv'
    <2>1. \A q \in Procs : pc'[q] = "fsync dir" => pc[q] = "fsync dir" /\ file'[q] = file[q]
      BY <1>3
    <2> QED BY <1>1, <1>4, <2>1 DEF RankInv
  <1>10. ReturnedSavesSurvive'
    BY <1>1, <1>2, <1>4 DEF TypeOK, ReturnedSavesSurvive, RankInv, PlaceInv, InHand, Before, Saving
  <1>11. NothingLeftBehind'
    BY <1>1, <1>2, <1>3, <1>4 DEF TypeOK, NothingLeftBehind, InHand, Before, Saving
  <1> QED BY <1>5, <1>6, <1>7, <1>8, <1>9, <1>10, <1>11 DEF StoreInv, ProcInv, Apart

LEMMA OpenKeeps ==
  ASSUME StoreInv, NEW p \in Procs, Open(p)
  PROVE  StoreInv'
  <1>1. TypeOK /\ PlaceInv /\ RankInv /\ ReturnedSavesSurvive /\ NothingLeftBehind
    BY DEF StoreInv
  <1>2. /\ \A q \in Procs : InHand(q)
        /\ \A q, r \in Procs : q # r => Differ(q, r)
    BY DEF StoreInv, ProcInv, Apart
  <1>3. /\ pc' = [pc EXCEPT ![p] = "read"] /\ file' = [file EXCEPT ![p] = now]
        /\ pc \in [Procs -> Labels] /\ file \in [Procs -> Files \cup {NoFile}]
    BY <1>1 DEF Open, Goes, TypeOK
  <1>4. /\ pc[p] = "open" /\ now \in Files
        /\ UNCHANGED <<now, may, temps, content, synced, seen, used, clock, rank, returned, orphans>>
    BY <1>1, <1>2, StoreAssumption DEF Open, Goes, ghosts, TypeOK, InHand, Before, Saving, Amounts
  <1>5. TypeOK'
    BY <1>1, <1>3, <1>4 DEF TypeOK, Labels, Amounts, Loaded
  <1>6. PlaceInv'
    BY <1>1, <1>2, <1>4, StoreAssumption DEF TypeOK, PlaceInv, InHand, Before, Saving
  <1>7. ASSUME NEW q \in Procs PROVE InHand(q)'
    <2>1. CASE q = p
      <3>1. pc'[q] = "read" /\ file'[q] = now
        BY <1>3, <2>1
      <3>2. InHand(p)
        BY <1>2
      <3> QED BY <1>1, <1>4, <2>1, <3>1, <3>2, StoreAssumption DEF TypeOK, PlaceInv, InHand, Before, Saving
    <2>2. CASE q # p
      <3>1. pc'[q] = pc[q] /\ file'[q] = file[q]
        BY <1>3, <2>2
      <3>2. InHand(q) /\ Differ(p, q) /\ InHand(p)
        BY <1>2, <2>2
      <3> QED BY <1>1, <1>4, <3>1, <3>2, StoreAssumption DEF TypeOK, PlaceInv, InHand, Differ, Before, Saving
    <2> QED BY <2>1, <2>2
  <1>8. ASSUME NEW q \in Procs, NEW r \in Procs, q # r PROVE Differ(q, r)'
    BY <1>2, <1>3, <1>4, <1>8 DEF InHand, Differ, Before, Saving
  <1>9. RankInv'
    <2>1. \A q \in Procs : pc'[q] = "fsync dir" => pc[q] = "fsync dir" /\ file'[q] = file[q]
      BY <1>3
    <2> QED BY <1>1, <1>4, <2>1 DEF RankInv
  <1>10. ReturnedSavesSurvive'
    BY <1>1, <1>2, <1>4 DEF TypeOK, ReturnedSavesSurvive, RankInv, PlaceInv, InHand, Before, Saving
  <1>11. NothingLeftBehind'
    <2> SUFFICES ASSUME NEW g \in temps, g \notin orphans
                 PROVE  \E q \in Procs : file'[q] = g
      BY <1>4 DEF NothingLeftBehind
    <2>1. PICK q \in Procs : file[q] = g
      BY <1>1 DEF NothingLeftBehind
    <2>2. q # p
      BY <1>1, <1>2, <1>4, <2>1, StoreAssumption DEF TypeOK, InHand
    <2> QED BY <1>3, <2>1, <2>2
  <1> QED BY <1>5, <1>6, <1>7, <1>8, <1>9, <1>10, <1>11 DEF StoreInv, ProcInv, Apart

LEMMA ReadKeeps ==
  ASSUME StoreInv, NEW p \in Procs, Read(p)
  PROVE  StoreInv'
  <1>1. TypeOK /\ PlaceInv /\ RankInv /\ ReturnedSavesSurvive /\ NothingLeftBehind
    BY DEF StoreInv
  <1>2. /\ \A q \in Procs : InHand(q)
        /\ \A q, r \in Procs : q # r => Differ(q, r)
    BY DEF StoreInv, ProcInv, Apart
  <1>3. /\ pc' = [pc EXCEPT ![p] = "idle"] /\ file' = [file EXCEPT ![p] = NoFile]
        /\ pc \in [Procs -> Labels] /\ file \in [Procs -> Files \cup {NoFile}]
    BY <1>1 DEF Read, Goes, ContentOf, TypeOK
  <1>4. /\ pc[p] = "read" /\ file[p] \in Files
        /\ seen' = [seen EXCEPT ![p] = file[p]]
        /\ UNCHANGED <<now, may, temps, content, synced, used, clock, rank, returned, orphans>>
    BY <1>1, <1>2, StoreAssumption DEF Read, Goes, ContentOf, ghosts, TypeOK, InHand, Before, Saving, Amounts
  <1>5. TypeOK'
    BY <1>1, <1>3, <1>4 DEF TypeOK, Labels, Amounts, Loaded
  <1>6. PlaceInv'
    BY <1>1, <1>2, <1>4, StoreAssumption DEF TypeOK, PlaceInv, InHand, Before, Saving
  <1>7. ASSUME NEW q \in Procs PROVE InHand(q)'
    <2>1. CASE q = p
      <3>1. pc'[q] = "idle" /\ file'[q] = NoFile
        BY <1>3, <2>1
      <3>2. InHand(p)
        BY <1>2
      <3> QED BY <1>1, <1>4, <2>1, <3>1, <3>2, StoreAssumption DEF TypeOK, PlaceInv, InHand, Before, Saving
    <2>2. CASE q # p
      <3>1. pc'[q] = pc[q] /\ file'[q] = file[q]
        BY <1>3, <2>2
      <3>2. InHand(q) /\ Differ(p, q) /\ InHand(p)
        BY <1>2, <2>2
      <3> QED BY <1>1, <1>4, <3>1, <3>2, StoreAssumption DEF TypeOK, PlaceInv, InHand, Differ, Before, Saving
    <2> QED BY <2>1, <2>2
  <1>8. ASSUME NEW q \in Procs, NEW r \in Procs, q # r PROVE Differ(q, r)'
    BY <1>2, <1>3, <1>4, <1>8 DEF InHand, Differ, Before, Saving
  <1>9. RankInv'
    <2>1. \A q \in Procs : pc'[q] = "fsync dir" => pc[q] = "fsync dir" /\ file'[q] = file[q]
      BY <1>3
    <2> QED BY <1>1, <1>4, <2>1 DEF RankInv
  <1>10. ReturnedSavesSurvive'
    BY <1>1, <1>2, <1>4 DEF TypeOK, ReturnedSavesSurvive, RankInv, PlaceInv, InHand, Before, Saving
  <1>11. NothingLeftBehind'
    BY <1>1, <1>2, <1>3, <1>4 DEF TypeOK, NothingLeftBehind, InHand, Before, Saving
  <1> QED BY <1>5, <1>6, <1>7, <1>8, <1>9, <1>10, <1>11 DEF StoreInv, ProcInv, Apart

LEMMA KillKeeps ==
  ASSUME StoreInv, NEW p \in Procs, Kill(p)
  PROVE  StoreInv'
  <1>1. TypeOK /\ PlaceInv /\ RankInv /\ ReturnedSavesSurvive /\ NothingLeftBehind
    BY DEF StoreInv
  <1>2. /\ \A q \in Procs : InHand(q)
        /\ \A q, r \in Procs : q # r => Differ(q, r)
    BY DEF StoreInv, ProcInv, Apart
  <1>3. /\ pc' = [pc EXCEPT ![p] = "idle"] /\ file' = [file EXCEPT ![p] = NoFile]
        /\ pc \in [Procs -> Labels] /\ file \in [Procs -> Files \cup {NoFile}]
    BY <1>1 DEF Kill, TypeOK
  <1>4. /\ pc[p] # "idle"
        /\ seen' = [seen EXCEPT ![p] = Unread]
        /\ orphans' = orphans \cup (temps \cap {file[p]})
        /\ UNCHANGED <<now, may, temps, content, synced, used, clock, rank, returned>>
    BY <1>1, <1>2, StoreAssumption DEF Kill, ghosts, TypeOK, InHand, Before, Saving, Amounts
  <1>5. TypeOK'
    BY <1>1, <1>3, <1>4 DEF TypeOK, Labels, Amounts, Loaded
  <1>6. PlaceInv'
    BY <1>1, <1>2, <1>4, StoreAssumption DEF TypeOK, PlaceInv, InHand, Before, Saving
  <1>7. ASSUME NEW q \in Procs PROVE InHand(q)'
    <2>1. CASE q = p
      <3>1. pc'[q] = "idle" /\ file'[q] = NoFile
        BY <1>3, <2>1
      <3>2. InHand(p)
        BY <1>2
      <3> QED BY <1>1, <1>4, <2>1, <3>1, <3>2, StoreAssumption DEF TypeOK, PlaceInv, InHand, Before, Saving
    <2>2. CASE q # p
      <3>1. pc'[q] = pc[q] /\ file'[q] = file[q]
        BY <1>3, <2>2
      <3>2. InHand(q) /\ Differ(p, q) /\ InHand(p)
        BY <1>2, <2>2
      <3> QED BY <1>1, <1>4, <3>1, <3>2, StoreAssumption DEF TypeOK, PlaceInv, InHand, Differ, Before, Saving
    <2> QED BY <2>1, <2>2
  <1>8. ASSUME NEW q \in Procs, NEW r \in Procs, q # r PROVE Differ(q, r)'
    BY <1>2, <1>3, <1>4, <1>8 DEF InHand, Differ, Before, Saving
  <1>9. RankInv'
    <2>1. \A q \in Procs : pc'[q] = "fsync dir" => pc[q] = "fsync dir" /\ file'[q] = file[q]
      BY <1>3
    <2> QED BY <1>1, <1>4, <2>1 DEF RankInv
  <1>10. ReturnedSavesSurvive'
    BY <1>1, <1>2, <1>4 DEF TypeOK, ReturnedSavesSurvive, RankInv, PlaceInv, InHand, Before, Saving
  <1>11. NothingLeftBehind'
    BY <1>1, <1>2, <1>3, <1>4 DEF TypeOK, NothingLeftBehind, InHand, Before, Saving
  <1> QED BY <1>5, <1>6, <1>7, <1>8, <1>9, <1>10, <1>11 DEF StoreInv, ProcInv, Apart

LEMMA PowerLossKeeps ==
  ASSUME StoreInv, PowerLoss
  PROVE  StoreInv'
  <1>1. TypeOK /\ PlaceInv /\ RankInv /\ ReturnedSavesSurvive /\ NothingLeftBehind
    BY DEF StoreInv
  <1>2. PICK e \in may : now' = e /\ may' = {e}
    BY DEF PowerLoss
  <1>3. PICK after \in [Files -> Amounts] :
          /\ \A f \in Files : after[f] \in IF f \in synced THEN {content[f]}
                                           ELSE Remains(content[f])
          /\ content' = after
    BY DEF PowerLoss
  <1>4. PICK left \in SUBSET (used \ {now'}) : temps' = left /\ orphans' = left
    BY DEF PowerLoss
  <1>5. /\ pc' = [p \in Procs |-> "idle"] /\ file' = [p \in Procs |-> NoFile]
        /\ seen' = [p \in Procs |-> Unread]
        /\ UNCHANGED <<synced, used, clock, rank, returned>>
    BY DEF PowerLoss
  <1>6. \A f \in synced : content'[f] = content[f]
    BY <1>1, <1>3 DEF TypeOK
  <1>7. TypeOK'
    BY <1>1, <1>2, <1>3, <1>4, <1>5 DEF TypeOK, Labels, Loaded
  <1>8. PlaceInv'
    BY <1>1, <1>2, <1>4, <1>5, <1>6 DEF PlaceInv
  <1>9. ProcInv' /\ Apart'
    BY <1>5 DEF ProcInv, Apart, InHand, Differ, Before, Saving
  <1>10. RankInv'
    <2>1. \A p \in Procs : pc'[p] # "fsync dir"
      BY <1>5
    <2>2. \A f \in Files : rank[f] \in Nat
      BY <1>1 DEF TypeOK
    <2>3. \A f \in Files : rank'[f] <= clock'
      BY <1>1, <1>5 DEF RankInv
    <2>4. \A f \in may' : f \in Files => now' \in Files /\ rank'[f] <= rank'[now']
      BY <1>2, <1>5, <2>2
    <2> QED BY <2>1, <2>3, <2>4 DEF RankInv
  <1>11. ReturnedSavesSurvive' /\ NothingLeftBehind'
    BY <1>1, <1>2, <1>4, <1>5 DEF ReturnedSavesSurvive, NothingLeftBehind
  <1> QED BY <1>7, <1>8, <1>9, <1>10, <1>11 DEF StoreInv

LEMMA StutterKeeps ==
  ASSUME StoreInv, UNCHANGED vars
  PROVE  StoreInv'
  <1>1. TypeOK'
    BY DEF StoreInv, vars, ghosts, TypeOK
  <1>2. PlaceInv'
    BY DEF StoreInv, vars, ghosts, PlaceInv
  <1>3. ProcInv' /\ Apart'
    BY DEF StoreInv, vars, ghosts, ProcInv, InHand, Apart, Differ
  <1>4. RankInv' /\ ReturnedSavesSurvive' /\ NothingLeftBehind'
    BY DEF StoreInv, vars, ghosts, RankInv, ReturnedSavesSurvive, NothingLeftBehind
  <1> QED BY <1>1, <1>2, <1>3, <1>4 DEF StoreInv

-----------------------------------------------------------------------------
(* The theorems. *)

LEMMA StoreInvHolds == Spec => []StoreInv
  <1>1. StoreInv /\ [Next]_vars => StoreInv'
    <2> SUFFICES ASSUME StoreInv, [Next]_vars
                 PROVE  StoreInv'
      OBVIOUS
    <2>1. ASSUME NEW p \in Procs,
                 \/ MakeTemp(p) \/ WritePart(p) \/ Write(p) \/ FsyncFile(p) \/ Replace(p)
                 \/ FsyncDir(p) \/ Fail(p) \/ Unlink(p)
                 \/ LoadNothing(p) \/ Exists(p) \/ Open(p) \/ Read(p)
                 \/ Kill(p)
          PROVE  StoreInv'
      BY <2>1, MakeTempKeeps, WritePartKeeps, WriteKeeps, FsyncFileKeeps, ReplaceKeeps,
         FsyncDirKeeps, FailKeeps, UnlinkKeeps, LoadNothingKeeps, ExistsKeeps, OpenKeeps,
         ReadKeeps, KillKeeps
    <2>2. CASE UNCHANGED vars
      BY <2>2, StutterKeeps
    <2> QED BY <2>1, <2>2, PowerLossKeeps DEF Next
  <1> QED BY <1>1, InitInv, PTL DEF Spec

\* Every variable of the store keeps its type.
THEOREM StoreTypeCorrect == Spec => []TypeOK
  BY StoreInvHolds, PTL DEF StoreInv

\* What a save has returned for is at the path until a later save is, whatever
\* fails, is killed or loses power: the sync of the directory (_fsync_parent_dir)
\* comes before save returns, and what it puts on the disk is what is at the path,
\* which was put there after the file being saved or is that file.
THEOREM SurviveTheorem == Spec => []ReturnedSavesSurvive
  BY StoreInvHolds, PTL DEF StoreInv

\* A temporary file that no killed process left is one that some save still has:
\* the handler of save removes it whatever call raised.
THEOREM CleanTheorem == Spec => []NothingLeftBehind
  BY StoreInvHolds, PTL DEF StoreInv

-----------------------------------------------------------------------------
(* Store implements AtomicFile: StoreInv makes what AtomicFile sees simple. *)

\* What each process has read, or is reading.
Sees == [p \in Procs |-> IF pc[p] = "read" THEN file[p] ELSE seen[p]]

Simple ==
  /\ ContentOf(now) = now
  /\ {ContentOf(f) : f \in may} = may
  /\ [p \in Procs |-> IF pc[p] = "read" THEN ContentOf(file[p]) ELSE seen[p]] = Sees

LEMMA MappingIsSimple == StoreInv => Simple
  <1> SUFFICES ASSUME StoreInv
               PROVE  Simple
    OBVIOUS
  <1>1. PlaceInv /\ \A p \in Procs : InHand(p)
    BY DEF StoreInv, ProcInv
  <1>2. \A f \in may : ContentOf(f) = f
    BY <1>1 DEF PlaceInv, ContentOf
  <1>3. ContentOf(now) = now /\ {ContentOf(f) : f \in may} = may
    BY <1>1, <1>2 DEF PlaceInv
  <1>4. \A p \in Procs : pc[p] = "read" => ContentOf(file[p]) = file[p]
    BY <1>1 DEF InHand, ContentOf
  <1> QED BY <1>3, <1>4 DEF Simple, Sees

\* A step of AtomicFile, told of the state of Store.
AtomicStep ==
  \/ \E s \in Files : now' = s /\ may' = may \cup {s} /\ Sees' = Sees
  \/ may' = {now} /\ now' = now /\ Sees' = Sees
  \/ (\E s \in may : now' = s /\ may' = {s}) /\ Sees' = [p \in Procs |-> Unread]
  \/ \E p \in Procs, s \in {now, Unread} :
       Sees' = [Sees EXCEPT ![p] = s] /\ now' = now /\ may' = may
  \/ now' = now /\ may' = may /\ Sees' = Sees

LEMMA StepIsAtomic ==
  ASSUME Simple, Simple', AtomicStep
  PROVE  [Atomic!Next]_(Atomic!file)
  <1>1. CASE \E s \in Files : now' = s /\ may' = may \cup {s} /\ Sees' = Sees
    <2>1. Atomic!Write
      BY <1>1 DEF Atomic!Write, Simple
    <2> QED BY <2>1 DEF Atomic!Next
  <1>2. CASE may' = {now} /\ now' = now /\ Sees' = Sees
    <2>1. Atomic!Settle
      BY <1>2 DEF Atomic!Settle, Simple
    <2> QED BY <2>1 DEF Atomic!Next
  <1>3. CASE (\E s \in may : now' = s /\ may' = {s}) /\ Sees' = [p \in Procs |-> Unread]
    <2>1. Atomic!PowerLoss
      BY <1>3 DEF Atomic!PowerLoss, Simple
    <2> QED BY <2>1 DEF Atomic!Next
  <1>4. ASSUME NEW p \in Procs, NEW s \in {now, Unread},
               Sees' = [Sees EXCEPT ![p] = s] /\ now' = now /\ may' = may
        PROVE  [Atomic!Next]_(Atomic!file)
    <2>1. CASE s = now
      <3>1. Atomic!Load(p)
        BY <1>4, <2>1 DEF Atomic!Load, Simple
      <3> QED BY <3>1 DEF Atomic!Next
    <2>2. CASE s = Unread
      <3>1. Atomic!Forget(p)
        BY <1>4, <2>2 DEF Atomic!Forget, Simple
      <3> QED BY <3>1 DEF Atomic!Next
    <2> QED BY <2>1, <2>2
  <1>5. CASE now' = now /\ may' = may /\ Sees' = Sees
    BY <1>5 DEF Atomic!file, Simple
  <1> QED BY <1>1, <1>2, <1>3, <1>4, <1>5 DEF AtomicStep

\* p sees s now, and the others what they saw.
SeesOnly(p, s) ==
  \A q \in Procs : (IF pc'[q] = "read" THEN file'[q] ELSE seen'[q])
                     = IF q = p THEN s ELSE IF pc[q] = "read" THEN file[q] ELSE seen[q]

LEMMA SeesChange ==
  ASSUME NEW p \in Procs, NEW s, SeesOnly(p, s)
  PROVE  Sees' = [Sees EXCEPT ![p] = s]
  BY DEF Sees, SeesOnly

LEMMA SeesSame ==
  ASSUME \A q \in Procs : (IF pc'[q] = "read" THEN file'[q] ELSE seen'[q])
                            = IF pc[q] = "read" THEN file[q] ELSE seen[q]
  PROVE  Sees' = Sees
  BY DEF Sees

LEMMA NextIsAtomic ==
  ASSUME StoreInv, [Next]_vars
  PROVE  AtomicStep
  <1>1. TypeOK /\ PlaceInv /\ \A p \in Procs : InHand(p)
    BY DEF StoreInv, ProcInv
  <1>2. pc \in [Procs -> Labels] /\ file \in [Procs -> Files \cup {NoFile}]
        /\ seen \in [Procs -> Loaded]
    BY <1>1 DEF TypeOK
  <1>3. ASSUME NEW p \in Procs,
               MakeTemp(p) \/ WritePart(p) \/ Write(p) \/ FsyncFile(p) \/ Fail(p)
               \/ Unlink(p) \/ Exists(p)
        PROVE  AtomicStep
    <2>1. now' = now /\ may' = may /\ seen' = seen
      BY <1>3 DEF MakeTemp, WritePart, Write, FsyncFile, Fail, Unlink, Exists, ghosts
    <2>2. \A q \in Procs : pc'[q] = "read" <=> pc[q] = "read"
      BY <1>2, <1>3 DEF MakeTemp, WritePart, Write, FsyncFile, Fail, Unlink, Exists, Goes
    <2>3. \A q \in Procs : pc[q] = "read" => file'[q] = file[q]
      BY <1>2, <1>3 DEF MakeTemp, WritePart, Write, FsyncFile, Fail, Unlink, Exists, Goes
    <2> QED BY <2>1, <2>2, <2>3, SeesSame DEF AtomicStep
  <1>4. ASSUME NEW p \in Procs, Replace(p)
        PROVE  AtomicStep
    <2>1. now' = file[p] /\ may' = may \cup {file[p]} /\ file[p] \in Files
      BY <1>1, <1>4 DEF Replace, Goes, InHand, Saving
    <2>2. \A q \in Procs : (pc'[q] = "read" <=> pc[q] = "read") /\ file'[q] = file[q]
                           /\ seen'[q] = seen[q]
      BY <1>2, <1>4 DEF Replace, Goes
    <2> QED BY <2>1, <2>2, SeesSame DEF AtomicStep
  <1>5. ASSUME NEW p \in Procs, FsyncDir(p)
        PROVE  AtomicStep
    <2>1. may' = {now} /\ now' = now
      BY <1>5 DEF FsyncDir
    <2>2. \A q \in Procs : (pc'[q] = "read" <=> pc[q] = "read") /\ seen'[q] = seen[q]
                           /\ (pc[q] = "read" => file'[q] = file[q])
      BY <1>2, <1>5 DEF FsyncDir, Goes
    <2> QED BY <2>1, <2>2, SeesSame DEF AtomicStep
  <1>6. ASSUME NEW p \in Procs, LoadNothing(p) \/ Open(p)
        PROVE  AtomicStep
    <2>1. now' = now /\ may' = may
      BY <1>6 DEF LoadNothing, Open
    <2>2. SeesOnly(p, now)
      BY <1>2, <1>6 DEF LoadNothing, Open, Goes, SeesOnly
    <2> QED BY <2>1, <2>2, SeesChange DEF AtomicStep
  <1>7. ASSUME NEW p \in Procs, Read(p)
        PROVE  AtomicStep
    <2>1. now' = now /\ may' = may
      BY <1>7 DEF Read
    <2>2. ContentOf(file[p]) = file[p]
      BY <1>1, <1>7 DEF Read, Goes, InHand, ContentOf
    <2>3. \A q \in Procs : (IF pc'[q] = "read" THEN file'[q] ELSE seen'[q])
                             = IF pc[q] = "read" THEN file[q] ELSE seen[q]
      BY <1>2, <1>7, <2>2 DEF Read, Goes
    <2> QED BY <2>1, <2>3, SeesSame DEF AtomicStep
  <1>8. ASSUME NEW p \in Procs, Kill(p)
        PROVE  AtomicStep
    <2>1. now' = now /\ may' = may
      BY <1>8 DEF Kill
    <2>2. SeesOnly(p, Unread)
      BY <1>2, <1>8 DEF Kill, SeesOnly
    <2> QED BY <2>1, <2>2, SeesChange DEF AtomicStep
  <1>9. CASE PowerLoss
    <2>1. \E s \in may : now' = s /\ may' = {s}
      BY <1>9 DEF PowerLoss
    <2>2. Sees' = [p \in Procs |-> Unread]
      BY <1>9 DEF PowerLoss, Sees
    <2> QED BY <2>1, <2>2 DEF AtomicStep
  <1>10. CASE UNCHANGED vars
    BY <1>10 DEF vars, AtomicStep, Sees
  <1> QED BY <1>3, <1>4, <1>5, <1>6, <1>7, <1>8, <1>9, <1>10 DEF Next

\* Saves and loads are those of an atomic file.  save puts only a file at the path
\* that is whole and on the disk, and what is there is never written again, so a
\* load finds the snapshot that was there when it opened the file, and a power
\* loss one of those since the last sync of the directory.
THEOREM AtomicTheorem == Spec => SavesAreAtomic
  <1>1. Init => Atomic!Init
    <2> SUFFICES ASSUME Init
                 PROVE  Atomic!Init
      OBVIOUS
    <2>1. Simple
      BY InitInv, MappingIsSimple
    <2>2. Sees = [p \in Procs |-> Unread]
      BY DEF Init, Sees
    <2> QED BY <2>1, <2>2 DEF Atomic!Init, Init, Simple
  <1>2. StoreInv /\ StoreInv' /\ [Next]_vars => [Atomic!Next]_(Atomic!file)
    <2> SUFFICES ASSUME StoreInv, StoreInv', [Next]_vars
                 PROVE  [Atomic!Next]_(Atomic!file)
      OBVIOUS
    <2>1. Simple /\ Simple'
      <3>1. StoreInv => Simple
        BY MappingIsSimple
      <3> QED BY <3>1, MappingIsSimple, PTL
    <2>2. AtomicStep
      BY NextIsAtomic
    <2> QED BY <2>1, <2>2, StepIsAtomic
  <1> QED BY <1>1, <1>2, StoreInvHolds, PTL DEF Spec, SavesAreAtomic, Atomic!Spec

=============================================================================
