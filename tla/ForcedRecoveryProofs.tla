------------------------ MODULE ForcedRecoveryProofs ------------------------
(* Theorems about forced moves and their recovery, for any number of       *)
(* commands, operators, roots and files and pairs of any length.           *)
EXTENDS ForcedRecovery, SequenceTheorems, TLAPS

USE ProcAssumption, RootAssumption, LengthAssumption, BoundsAssumption, FilesAssumption,
    NoMarkerAssumption

-----------------------------------------------------------------------------
(* The inductive invariant, in three layers: the locks, what an operator   *)
(* under the locks has done so far, and what a pending move has left.      *)

Effects == {"truncate", "sync", "install", "append", "unmark"}

Locked == Effects \cup {"locked"}

\* Who holds which guards, by stage and by how far a process has come.
Guarded ==
    /\ \A c \in Command :
         /\ stage[c] = "entering" =>
              index[c] \in Roots /\ \A r \in Roots : r < index[c] => c \in shared[r]
         /\ stage[c] = "inside" => \A r \in Roots : c \in shared[r]
    /\ \A p \in Operator :
         /\ stage[p] = "guards" =>
              /\ runLocks = p /\ index[p] \in Roots
              /\ \A r \in Roots : r < index[p] => exclusive[r] = p
         /\ stage[p] \in Locked => runLocks = p /\ \A r \in Roots : exclusive[r] = p
    /\ \A r \in Roots : exclusive[r] # None => shared[r] = {}

LockInv == RecoveryTypeOK /\ Guarded /\ NoCommandBesideAMarker

\* The ledger a marker was published on, and n bytes of its pair.
Begun(m, n) == m.prefix \o SubSeq(Pair(m.id), 1, n)

\* How much of the pair an operator past the first effect has in the ledger.
Written(p) ==
    CASE shown[p].does = "rollback" -> 0
      [] shown[p].does = "forward" -> PairLength
      [] shown[p].does = "force" ->
           IF stage[p] = "install" THEN 0
           ELSE IF stage[p] = "append" THEN index[p] - 1 ELSE PairLength

\* An image that is installed is on the disk.
Installed(p, f) == files[f] = Image(p)[f] /\ older[f] = {}

\* An operator under the locks: what it works on and how far it has come.
AtWork(p) ==
    /\ marker \in Marker /\ ImagesKnown(marker)
    /\ stage[p] = "truncate" => shown[p].does = "rollback"
    /\ stage[p] = "append" => shown[p].does = "force" /\ index[p] \in 1..PairLength
    /\ shown[p].does # "force" => marker = shown[p].marker
    /\ IF stage[p] = "truncate"
       THEN \E n \in 0..PairLength - 1 : ledger = Begun(marker, n)
       ELSE ledger = Begun(marker, Written(p))
    /\ stage[p] = "install" =>
         index[p] \in Files /\ \A f \in Files : f < index[p] => Installed(p, f)
    /\ stage[p] \in {"append", "unmark"} \/ (stage[p] = "sync" /\ shown[p].does = "force") =>
         \A f \in Files : Installed(p, f)
    /\ stage[p] = "unmark" \/ (stage[p] = "install" /\ shown[p].does # "force") => disk = ledger

HopInv ==
    \A p \in Operator :
      /\ stage[p] # "idle" => shown[p] \in Shown
      /\ stage[p] \in Effects => AtWork(p)

\* The ledger holds a part of the pair, or has lost a part of what the marker
\* was published on, and the disk has lost it too.
LedgerFits ==
    marker # None =>
      \/ \E n \in 0..PairLength : ledger = Begun(marker, n)
      \/ /\ Len(ledger) < Len(marker.prefix) /\ used.outages > 0
         /\ ledger = SubSeq(marker.prefix, 1, Len(ledger))
         /\ disk = ledger

\* The files are as the move found or left them, but for hands and outages.
FilesFit ==
    marker # None /\ used.edits = 0 =>
      \/ ImagesKnown(marker)
      \/ used.outages > 0 /\ \E f \in Files : ~(marker.before[f] \subseteq files[f])

\* The ledger without the pair of a pending move.
Base == IF marker = None THEN ledger ELSE marker.prefix

\* Every earlier forced move is on the disk to its last byte.
DiskFits ==
    /\ marker = None => disk = ledger \/ Len(disk) < Len(ledger)
    /\ marker # None =>
         \/ Len(disk) < Len(marker.prefix)
         \/ \E n \in 0..PairLength :
              disk = Begun(marker, n) /\ (n = PairLength => ledger = disk)
    /\ \A n \in DOMAIN Base : Base[n][2] # 0 => n <= Len(disk)

\* What the power can take from a file is later than every earlier forced move,
\* and what a pending move has not replaced is what it found.
OlderFits ==
    \A f \in Files : \A v \in older[f] :
      /\ v \subseteq files[f] /\ v # files[f]
      /\ \A w \in files[f] \ v : \A n \in DOMAIN Base : Base[n][2] # 0 => Base[n][1] < w
      /\ marker # None => files[f] = marker.before[f] /\ ledger = marker.prefix

\* Whatever was written before was written with another number.
Numbered ==
    /\ \A f \in Files : \A i \in files[f] : i <= used.writes
    /\ marker = None => \A n \in DOMAIN ledger : ledger[n][1] <= used.writes
    /\ marker # None =>
         /\ marker.id <= used.writes
         /\ \A n \in DOMAIN marker.prefix : marker.prefix[n][1] < marker.id
         /\ \A f \in Files : /\ \A i \in marker.before[f] : i < marker.id
                             /\ marker.after[f] = marker.before[f] \cup {marker.id}

Fits == LedgerFits /\ FilesFit /\ DiskFits /\ OlderFits /\ Numbered

RecoveryInv == LockInv /\ HopInv /\ Fits

-----------------------------------------------------------------------------
(* Types.                                                                  *)

DataTyped ==
    /\ files \in Images
    /\ older \in [Files -> SUBSET SUBSET (0..MaxWrites)]
    /\ ledger \in Seq(Byte) /\ disk \in Seq(Byte)
    /\ marker \in Marker \cup {None}

StageOf(p) == IF p \in Command THEN OrdinaryStages ELSE HopStages

StandsTyped ==
    /\ stage \in [Proc -> OrdinaryStages \cup HopStages]
    /\ \A p \in Proc : stage[p] \in StageOf(p)
    /\ index \in [Proc -> Nat]
    /\ shown \in [Operator -> Shown \cup {None}]

UsedTyped == used \in [{"writes", "visits", "previews", "stops", "outages", "edits"} -> Nat]

LEMMA TypeParts == RecoveryTypeOK <=> GuardsTypeOK /\ DataTyped /\ StandsTyped /\ UsedTyped
BY DEF RecoveryTypeOK, DataTyped, StandsTyped, UsedTyped, StageOf

LEMMA GoesTyped ==
    ASSUME StandsTyped, NEW p \in Proc, NEW to \in StageOf(p), Goes(p, to)
    PROVE  /\ StandsTyped'
           /\ stage'[p] = to /\ index'[p] = 1
           /\ \A q \in Proc \ {p} : stage'[q] = stage[q] /\ index'[q] = index[q]
BY DEF StandsTyped, Goes, StageOf, OrdinaryStages, HopStages

LEMMA StaysTyped ==
    ASSUME StandsTyped, NEW p \in Proc, Stays(p)
    PROVE  /\ StandsTyped'
           /\ stage' = stage /\ index'[p] = index[p] + 1
           /\ \A q \in Proc \ {p} : index'[q] = index[q]
BY DEF StandsTyped, Stays, StageOf

LEMMA EndsTyped ==
    ASSUME StandsTyped, GuardsTypeOK, NEW P \in SUBSET Proc, Ends(P)
    PROVE  /\ StandsTyped' /\ GuardsTypeOK'
           /\ \A q \in Proc : IF q \in P THEN stage'[q] = "idle"
                              ELSE stage'[q] = stage[q] /\ index'[q] = index[q]
           /\ \A q \in Operator \ P : shown'[q] = shown[q]
<1>1. StandsTyped'
  BY DEF StandsTyped, Ends, StageOf, OrdinaryStages, HopStages, Proc
<1>2. GuardsTypeOK'
  BY DEF Ends, LetGo, GuardsTypeOK
<1> QED
  BY <1>1, <1>2 DEF Ends

LEMMA SpendTyped ==
    ASSUME UsedTyped, NEW what \in {"writes", "visits", "previews", "stops", "outages", "edits"}, Spend(what)
    PROVE  /\ UsedTyped' /\ used'[what] = used[what] + 1
           /\ \A other \in {"writes", "visits", "previews", "stops", "outages", "edits"} \ {what} :
                used'[other] = used[other]
BY DEF UsedTyped, Spend

LEMMA TakesTyped ==
    ASSUME GuardsTypeOK, NEW p, NEW r \in Roots
    PROVE  /\ p \in Command /\ TakeShared(p, r) => GuardsTypeOK'
           /\ p \in Operator /\ TakeExclusive(p, r) => GuardsTypeOK'
           /\ p \in Operator /\ TryRunLocks(p) => GuardsTypeOK'
BY DEF GuardsTypeOK, TakeShared, TakeExclusive, TryRunLocks

\* The next write has a number of its own.
LEMMA NextId ==
    ASSUME UsedTyped, Affords("writes")
    PROVE  used.writes \in Nat /\ used.writes + 1 \in Ids /\ used.writes + 1 \in 0..MaxWrites
BY DEF UsedTyped, Affords, Bound, Ids

LEMMA LongerLedger ==
    ASSUME ledger \in Seq(Byte), NEW id \in Ids, NEW k \in 0..PairLength
    PROVE  Append(ledger, <<id, k>>) \in Seq(Byte)
<1>1. <<id, k>> \in Byte
  BY DEF Byte
<1> QED
  BY <1>1, AppendProperties

\* The files a process writes keep their type.
LEMMA WrittenImages ==
    ASSUME files \in Images, NEW f \in Files, NEW id \in 0..MaxWrites
    PROVE  [files EXCEPT ![f] = @ \cup {id}] \in Images
BY DEF Images

LEMMA MarkerTyped ==
    ASSUME files \in Images, ledger \in Seq(Byte), NEW id \in Ids
    PROVE  LET m == [id |-> id, before |-> ImagesNow(id).before,
                     after |-> ImagesNow(id).after, prefix |-> ledger]
           IN  m \in Marker /\ m # None
<1> DEFINE m == [id |-> id, before |-> ImagesNow(id).before,
                 after |-> ImagesNow(id).after, prefix |-> ledger]
<1>1. files[1] \subseteq 0..MaxWrites /\ MaxWrites \in Nat
  BY DEF Images, Files
<1>2. [f \in Files |-> files[f] \cup {id}] \in Images
  <2>1. Ids \subseteq 0..MaxWrites
    BY <1>1 DEF Ids
  <2> QED
    BY <2>1 DEF Images
<1>3. m \in Marker
  BY <1>2 DEF ImagesNow, Marker
<1> QED
  BY <1>3

\* What a loss of power leaves is one of the two ledgers, cut somewhere.
LEMMA SurvivorsTyped ==
    ASSUME DataTyped, NEW found \in Survivors
    PROVE  /\ found \in Seq(Byte)
           /\ \E longer \in {ledger, disk} :
                \E n \in 0..Len(longer) :
                  /\ found = SubSeq(longer, 1, n)
                  /\ Len(disk) <= Len(ledger) => longer = ledger /\ Len(disk) <= n
                  /\ Len(ledger) < Len(disk) => longer = disk /\ Len(ledger) <= n
<1> DEFINE longer == IF Len(ledger) < Len(disk) THEN disk ELSE ledger
           least == IF Len(ledger) < Len(disk) THEN Len(ledger) ELSE Len(disk)
<1>1. ledger \in Seq(Byte) /\ disk \in Seq(Byte) /\ Len(ledger) \in Nat /\ Len(disk) \in Nat
  BY LenProperties DEF DataTyped
<1>2. PICK n \in least..Len(longer) : found = SubSeq(longer, 1, n)
  BY DEF Survivors
<1>3. n \in 0..Len(longer) /\ longer \in Seq(Byte)
  BY <1>1
<1>4. found \in Seq(Byte)
  <2>1. \A i \in 1..n : longer[i] \in Byte
    BY <1>3, ElementOfSeq
  <2> QED
    BY <1>2, <1>3, <2>1, SubSeqProperties
<1> QED
  BY <1>1, <1>2, <1>3, <1>4

LEMMA TypeKept == LockInv /\ HopInv /\ [Next]_vars => RecoveryTypeOK'
<1> SUFFICES ASSUME LockInv, HopInv, [Next]_vars PROVE RecoveryTypeOK'
  OBVIOUS
<1>0. GuardsTypeOK /\ DataTyped /\ StandsTyped /\ UsedTyped
  BY TypeParts DEF LockInv
<1> SUFFICES GuardsTypeOK' /\ DataTyped' /\ StandsTyped' /\ UsedTyped'
  BY DEF RecoveryTypeOK, DataTyped, StandsTyped, UsedTyped, StageOf, GuardsTypeOK, Images, Marker
<1>a. UNCHANGED guardVars => GuardsTypeOK'
  BY <1>0 DEF guardVars, GuardsTypeOK
<1>b. UNCHANGED dataVars => DataTyped'
  BY <1>0 DEF dataVars, DataTyped
<1>c. UNCHANGED <<stage, index, shown>> => StandsTyped'
  BY <1>0 DEF StandsTyped
<1>d. UNCHANGED used => UsedTyped'
  BY <1>0 DEF UsedTyped
<1>1. CASE UNCHANGED vars
  BY <1>1, <1>a, <1>b, <1>c, <1>d DEF vars
<1>2. ASSUME NEW c \in Command, Begin(c) PROVE GuardsTypeOK' /\ DataTyped' /\ StandsTyped' /\ UsedTyped'
  BY <1>0, <1>2, <1>a, <1>b, GoesTyped, SpendTyped DEF Begin, StageOf, OrdinaryStages, Proc
<1>3. ASSUME NEW c \in Command, EnterRoot(c) PROVE GuardsTypeOK' /\ DataTyped' /\ StandsTyped' /\ UsedTyped'
  <2>1. index[c] \in Roots
    BY <1>3 DEF EnterRoot, LockInv, Guarded
  <2>2. StandsTyped'
    BY <1>0, <1>3, GoesTyped, StaysTyped DEF EnterRoot, StageOf, OrdinaryStages, Proc
  <2> QED
    BY <1>0, <1>3, <1>b, <1>d, <2>1, <2>2, TakesTyped DEF EnterRoot
<1>4. ASSUME NEW c \in Command, RefusedAtMarker(c) \/ Leave(c)
      PROVE  GuardsTypeOK' /\ DataTyped' /\ StandsTyped' /\ UsedTyped'
  BY <1>0, <1>4, <1>b, <1>d, EndsTyped DEF RefusedAtMarker, Leave, Proc
<1>5. ASSUME NEW c \in Command, NEW f \in Files, WriteFile(c, f)
      PROVE  GuardsTypeOK' /\ DataTyped' /\ StandsTyped' /\ UsedTyped'
  <2>1. used.writes + 1 \in 0..MaxWrites /\ UsedTyped'
    BY <1>0, <1>5, NextId, SpendTyped DEF WriteFile
  <2>2. files[f] \in SUBSET (0..MaxWrites)
    BY <1>0 DEF DataTyped, Images
  <2>3. older' \in [Files -> SUBSET SUBSET (0..MaxWrites)]
    BY <1>0, <1>5, <2>2 DEF WriteFile, DataTyped
  <2>4. DataTyped'
    BY <1>0, <1>5, <2>1, <2>3, WrittenImages DEF WriteFile, DataTyped
  <2> QED
    BY <1>5, <1>a, <1>c, <2>1, <2>4 DEF WriteFile
<1>6. ASSUME NEW c \in Command, WriteLine(c)
      PROVE  GuardsTypeOK' /\ DataTyped' /\ StandsTyped' /\ UsedTyped'
  <2>1. used.writes + 1 \in Ids /\ UsedTyped' /\ 0 \in 0..PairLength
    BY <1>0, <1>6, NextId, SpendTyped DEF WriteLine
  <2>2. DataTyped'
    BY <1>0, <1>6, <2>1, LongerLedger DEF WriteLine, DataTyped
  <2> QED
    BY <1>6, <1>a, <1>c, <2>1, <2>2 DEF WriteLine
<1>7. ASSUME NEW p \in Operator, PreviewForce(p) \/ PreviewRecovery(p)
      PROVE  GuardsTypeOK' /\ DataTyped' /\ StandsTyped' /\ UsedTyped'
  <2>1. PICK what \in Meanings, m \in Marker \cup {None} : Confirms(p, what, m)
    BY <1>0, <1>7 DEF PreviewForce, PreviewRecovery, DataTyped, Meanings
  <2>2. StandsTyped'
    BY <1>0, <2>1 DEF Confirms, StandsTyped, StageOf, HopStages, Shown, Proc
  <2> QED
    BY <1>0, <1>a, <1>b, <2>1, <2>2, SpendTyped DEF Confirms
<1>8. ASSUME NEW p \in Operator, LockRuns(p)
      PROVE  GuardsTypeOK' /\ DataTyped' /\ StandsTyped' /\ UsedTyped'
  <2>1. 1 \in Roots /\ "guards" \in StageOf(p) /\ p \in Proc
    BY DEF Roots, StageOf, HopStages, Proc
  <2> QED
    BY <1>0, <1>8, <1>b, <1>d, <2>1, GoesTyped, TakesTyped DEF LockRuns
<1>9. ASSUME NEW p \in Operator, TakeGuard(p)
      PROVE  GuardsTypeOK' /\ DataTyped' /\ StandsTyped' /\ UsedTyped'
  <2>1. index[p] \in Roots /\ "locked" \in StageOf(p) /\ p \in Proc
    BY <1>9 DEF TakeGuard, LockInv, Guarded, StageOf, HopStages, Proc
  <2> QED
    BY <1>0, <1>9, <1>b, <1>d, <2>1, GoesTyped, StaysTyped, TakesTyped DEF TakeGuard
<1>10. ASSUME NEW p \in Operator
       PROVE  \A to \in {"truncate", "sync", "install", "append", "unmark"} :
                Goes(p, to) => StandsTyped'
  BY <1>0, GoesTyped DEF StageOf, HopStages, Proc
<1>11. ASSUME NEW p \in Operator, Publish(p)
       PROVE  GuardsTypeOK' /\ DataTyped' /\ StandsTyped' /\ UsedTyped'
  <2>1. used.writes + 1 \in Ids /\ UsedTyped'
    BY <1>0, <1>11, NextId, SpendTyped DEF Publish
  <2>2. DataTyped'
    BY <1>0, <1>11, <2>1, MarkerTyped DEF Publish, DataTyped
  <2> QED
    BY <1>10, <1>11, <1>a, <2>1, <2>2 DEF Publish
<1>12. ASSUME NEW p \in Operator, Recheck(p)
       PROVE  GuardsTypeOK' /\ DataTyped' /\ StandsTyped' /\ UsedTyped'
  BY <1>10, <1>12, <1>a, <1>b, <1>d DEF Recheck
<1>13. ASSUME NEW p \in Operator, stage[p] \in Effects
       PROVE  marker \in Marker /\ AtWork(p) /\ shown[p] \in Shown
  BY <1>13 DEF HopInv, AtWork, Effects
<1>14. ASSUME NEW p \in Operator, Truncate(p)
       PROVE  GuardsTypeOK' /\ DataTyped' /\ StandsTyped' /\ UsedTyped'
  <2>1. marker.prefix \in Seq(Byte)
    BY <1>13, <1>14 DEF Truncate, Effects, Marker
  <2> QED
    BY <1>0, <1>10, <1>14, <1>a, <1>d, <2>1 DEF Truncate, DataTyped
<1>15. ASSUME NEW p \in Operator, SyncLedger(p)
       PROVE  GuardsTypeOK' /\ DataTyped' /\ StandsTyped' /\ UsedTyped'
  BY <1>0, <1>10, <1>15, <1>a, <1>d DEF SyncLedger, DataTyped
<1>16. ASSUME NEW p \in Operator, InstallImage(p)
       PROVE  GuardsTypeOK' /\ DataTyped' /\ StandsTyped' /\ UsedTyped'
  <2>1. Image(p) \in Images
    BY <1>13, <1>16 DEF InstallImage, Effects, Image, Marker
  <2>2. index[p] \in Files
    BY <1>13, <1>16 DEF InstallImage, Effects, AtWork
  <2>3. files' \in Images
    BY <1>0, <1>16, <2>1, <2>2 DEF InstallImage, DataTyped, Images
  <2>4. StandsTyped'
    BY <1>0, <1>10, <1>16, StaysTyped DEF InstallImage, Proc
  <2>5. older' \in [Files -> SUBSET SUBSET (0..MaxWrites)]
    BY <1>0, <1>16 DEF InstallImage, DataTyped
  <2> QED
    BY <1>0, <1>16, <1>a, <1>d, <2>3, <2>4, <2>5 DEF InstallImage, DataTyped
<1>17. ASSUME NEW p \in Operator, AppendPair(p)
       PROVE  GuardsTypeOK' /\ DataTyped' /\ StandsTyped' /\ UsedTyped'
  <2>1. index[p] \in 1..PairLength /\ marker.id \in Ids
    BY <1>13, <1>17 DEF AppendPair, Effects, AtWork, Marker
  <2>2. Pair(marker.id)[index[p]] = <<marker.id, index[p]>> /\ index[p] \in 0..PairLength
    BY <2>1 DEF Pair
  <2>3. ledger' \in Seq(Byte)
    BY <1>0, <1>17, <2>1, <2>2, LongerLedger DEF AppendPair, DataTyped
  <2>4. StandsTyped'
    BY <1>0, <1>10, <1>17, StaysTyped DEF AppendPair, Proc
  <2> QED
    BY <1>0, <1>17, <1>a, <1>d, <2>3, <2>4 DEF AppendPair, DataTyped
<1>18. ASSUME NEW p \in Operator, Unmark(p)
       PROVE  GuardsTypeOK' /\ DataTyped' /\ StandsTyped' /\ UsedTyped'
  BY <1>0, <1>18, <1>d, EndsTyped DEF Unmark, DataTyped, Proc
<1>19. ASSUME NEW p \in Operator, GiveUp(p)
       PROVE  GuardsTypeOK' /\ DataTyped' /\ StandsTyped' /\ UsedTyped'
  BY <1>0, <1>19, <1>b, <1>d, EndsTyped DEF GiveUp, Proc
<1>20. ASSUME NEW p \in Proc, Stop(p)
       PROVE  GuardsTypeOK' /\ DataTyped' /\ StandsTyped' /\ UsedTyped'
  BY <1>0, <1>20, <1>b, EndsTyped, SpendTyped DEF Stop
<1>21. ASSUME NEW f \in Files, Edit(f)
       PROVE  GuardsTypeOK' /\ DataTyped' /\ StandsTyped' /\ UsedTyped'
  <2>1. used.writes + 1 \in 0..MaxWrites
    BY <1>0, <1>21, NextId DEF Edit
  <2>2. DataTyped'
    <3>1. older' \in [Files -> SUBSET SUBSET (0..MaxWrites)]
      BY <1>0, <1>21 DEF Edit, DataTyped
    <3> QED
      BY <1>0, <1>21, <2>1, <3>1, WrittenImages DEF Edit, DataTyped
  <2>3. UsedTyped'
    <3>1. used.writes + 1 \in Nat /\ used.edits + 1 \in Nat
      BY <1>0 DEF UsedTyped
    <3>2. used' = [used EXCEPT !.writes = used.writes + 1, !.edits = used.edits + 1]
      BY <1>21 DEF Edit
    <3> QED
      BY <1>0, <3>1, <3>2 DEF UsedTyped
  <2> QED
    BY <1>21, <1>a, <1>c, <2>2, <2>3 DEF Edit
<1>22. CASE PowerLoss
  <2>1. \A found \in Survivors : found \in Seq(Byte)
    BY <1>0, SurvivorsTyped
  <2>2. files' \in Images
    <3>1. \A f \in Files : older[f] \cup {files[f]} \subseteq SUBSET (0..MaxWrites)
      BY <1>0 DEF DataTyped, Images
    <3>2. files' \in [Files -> UNION {older[f] \cup {files[f]} : f \in Files}]
      BY <1>22 DEF PowerLoss
    <3> QED
      BY <3>1, <3>2 DEF Images
  <2>3. older' \in [Files -> SUBSET SUBSET (0..MaxWrites)]
    BY <1>22 DEF PowerLoss
  <2>4. DataTyped'
    BY <1>0, <1>22, <2>1, <2>2, <2>3 DEF PowerLoss, DataTyped
  <2> QED
    BY <1>0, <1>22, <2>4, EndsTyped, SpendTyped DEF PowerLoss
<1> QED
  BY <1>1, <1>2, <1>3, <1>4, <1>5, <1>6, <1>7, <1>8, <1>9, <1>11, <1>12, <1>14, <1>15, <1>16,
     <1>17, <1>18, <1>19, <1>20, <1>21, <1>22
     DEF Next, CommandStep, HopStep, Locking, Replaying

-----------------------------------------------------------------------------
(* The locks.                                                              *)

\* A step that takes or drops no lock, and moves nobody past one.
LEMMA GuardsStay ==
    ASSUME Guarded, UNCHANGED guardVars,
           \A c \in Command :
             \/ stage'[c] \notin {"entering", "inside"}
             \/ stage'[c] = stage[c] /\ index'[c] = index[c]
             \/ stage'[c] = "entering" /\ index'[c] = 1,
           \A p \in Operator :
             /\ stage'[p] = "guards" => stage[p] = "guards" /\ index'[p] = index[p]
             /\ stage'[p] \in Locked => stage[p] \in Locked
    PROVE  Guarded'
BY DEF Guarded, guardVars, Roots, Locked, Effects

\* What processes that end let go of, nobody else held.
LEMMA GuardsGo ==
    ASSUME RecoveryTypeOK, Guarded, NEW P \in SUBSET Proc, Ends(P)
    PROVE  Guarded'
<1>1. /\ \A q \in P : stage'[q] = "idle"
      /\ \A q \in Proc \ P : stage'[q] = stage[q] /\ index'[q] = index[q]
  BY EndsTyped, TypeParts
<1>2. /\ \A r \in Roots : shared'[r] = shared[r] \ P
      /\ \A r \in Roots : exclusive'[r] = IF exclusive[r] \in P THEN None ELSE exclusive[r]
      /\ runLocks' = IF runLocks \in P THEN None ELSE runLocks
  BY DEF Ends, LetGo
<1>3. ASSUME NEW c \in Command, stage'[c] \in {"entering", "inside"}
      PROVE  c \notin P /\ stage'[c] = stage[c] /\ index'[c] = index[c]
  BY <1>1, <1>3 DEF Proc
<1>4. ASSUME NEW p \in Operator, stage'[p] \in Locked \cup {"guards"}
      PROVE  p \notin P /\ stage'[p] = stage[p] /\ index'[p] = index[p]
  BY <1>1, <1>4 DEF Proc, Locked, Effects
<1> QED
  BY <1>2, <1>3, <1>4 DEF Guarded

\* Under every exclusive lock there is one operator.
LEMMA OneAtWork ==
    ASSUME Guarded, NEW p \in Operator, NEW q \in Operator,
           stage[p] \in Locked, stage[q] \in Locked
    PROVE  p = q
BY DEF Guarded

\* An operator under the locks works beside no command.
LEMMA NobodyInside ==
    ASSUME RecoveryTypeOK, Guarded, NEW p \in Operator, stage[p] \in Locked
    PROVE  \A c \in Command : stage[c] # "inside"
<1>1. 1 \in Roots
  BY DEF Roots
<1>2. exclusive[1] = p /\ p # None
  BY <1>1 DEF Guarded
<1>3. shared[1] = {}
  BY <1>1, <1>2 DEF Guarded
<1> QED
  BY <1>1, <1>3 DEF Guarded

LEMMA EnterRootGuarded ==
    ASSUME RecoveryTypeOK, Guarded, NEW c \in Command, EnterRoot(c)
    PROVE  Guarded'
<1>1. /\ index[c] \in Roots /\ \A r \in Roots : r < index[c] => c \in shared[r]
      /\ exclusive[index[c]] = None /\ UNCHANGED <<exclusive, runLocks>>
      /\ \A r \in Roots : shared'[r] = IF r = index[c] THEN shared[r] \cup {c} ELSE shared[r]
  <2>1. stage[c] = "entering" /\ TakeShared(c, index[c])
    BY DEF EnterRoot
  <2>2. index[c] \in Roots /\ \A r \in Roots : r < index[c] => c \in shared[r]
    BY <2>1 DEF Guarded
  <2>3. shared' = [shared EXCEPT ![index[c]] = @ \cup {c}] /\ shared \in [Roots -> SUBSET Command]
    BY <2>1 DEF TakeShared, RecoveryTypeOK, GuardsTypeOK
  <2> QED
    BY <2>1, <2>2, <2>3 DEF TakeShared
<1>a. c \in shared'[index[c]] /\ \A r \in Roots : shared[r] \subseteq shared'[r]
  BY <1>1
<1>b. /\ index[c] \in Roots /\ index[c] \in Nat /\ index[c] <= LastRoot
      /\ \A r \in Roots : r < index[c] \/ r = index[c] => c \in shared'[r]
  BY <1>1, <1>a DEF Roots
<1>2. /\ \A q \in Proc \ {c} : stage'[q] = stage[q] /\ index'[q] = index[q]
      /\ IF index[c] = LastRoot THEN stage'[c] = "inside"
         ELSE stage'[c] = stage[c] /\ index'[c] = index[c] + 1
  BY TypeParts, GoesTyped, StaysTyped DEF EnterRoot, StageOf, OrdinaryStages, Proc
<1>3. /\ stage'[c] = "entering" =>
           index'[c] \in Roots /\ \A r \in Roots : r < index'[c] => c \in shared'[r]
      /\ stage'[c] = "inside" => \A r \in Roots : c \in shared'[r]
  <2>1. stage[c] = "entering"
    BY DEF EnterRoot
  <2>2. CASE index[c] = LastRoot
    <3>1. \A r \in Roots : c \in shared'[r]
      BY <1>b, <2>2 DEF Roots
    <3> QED
      BY <1>2, <2>2, <3>1
  <2>3. CASE index[c] # LastRoot
    <3>1. index[c] + 1 \in Roots
      BY <1>b, <2>3 DEF Roots
    <3>2. \A r \in Roots : r < index[c] + 1 => c \in shared'[r]
      BY <1>b DEF Roots
    <3> QED
      BY <1>2, <2>1, <2>3, <3>1, <3>2
  <2> QED
    BY <2>2, <2>3
<1>4. \A q \in Operator \cup (Command \ {c}) : stage'[q] = stage[q] /\ index'[q] = index[q]
  BY <1>2 DEF Proc
<1>5. ASSUME NEW d \in Command
      PROVE  /\ stage'[d] = "entering" =>
                  index'[d] \in Roots /\ \A r \in Roots : r < index'[d] => d \in shared'[r]
             /\ stage'[d] = "inside" => \A r \in Roots : d \in shared'[r]
  <2>1. CASE d = c
    BY <1>3, <2>1
  <2>2. CASE d # c
    <3>1. stage'[d] = stage[d] /\ index'[d] = index[d]
      BY <1>4, <2>2
    <3> QED
      BY <1>a, <3>1 DEF Guarded
  <2> QED
    BY <2>1, <2>2
<1>6. \A r \in Roots : exclusive'[r] # None => shared'[r] = {}
  BY <1>1 DEF Guarded
<1> QED
  BY <1>1, <1>4, <1>5, <1>6 DEF Guarded

LEMMA LockRunsGuarded ==
    ASSUME RecoveryTypeOK, Guarded, NEW p \in Operator, LockRuns(p)
    PROVE  Guarded'
<1>1. /\ stage'[p] = "guards" /\ index'[p] = 1 /\ runLocks' = p /\ runLocks = None
      /\ UNCHANGED <<shared, exclusive>>
      /\ \A q \in Proc \ {p} : stage'[q] = stage[q] /\ index'[q] = index[q]
  BY TypeParts, GoesTyped DEF LockRuns, TryRunLocks, StageOf, HopStages, Proc
<1>2. \A q \in (Operator \ {p}) \cup Command : stage'[q] = stage[q] /\ index'[q] = index[q]
  BY <1>1 DEF Proc
<1>3. \A q \in Operator : stage[q] \notin Locked \cup {"guards"}
  BY <1>1 DEF Guarded
<1>4. 1 \in Roots /\ \A r \in Roots : ~(r < 1)
  BY DEF Roots
<1>5. stage'[p] \notin Locked
  BY <1>1 DEF Locked, Effects
<1> QED
  BY <1>1, <1>2, <1>3, <1>4, <1>5 DEF Guarded

LEMMA TakeGuardGuarded ==
    ASSUME RecoveryTypeOK, Guarded, NEW p \in Operator, TakeGuard(p)
    PROVE  Guarded'
<1>1. /\ index[p] \in Roots /\ \A r \in Roots : r < index[p] => exclusive[r] = p
      /\ runLocks = p /\ shared[index[p]] = {} /\ exclusive[index[p]] = None
      /\ UNCHANGED <<shared, runLocks>>
      /\ \A r \in Roots : exclusive'[r] = IF r = index[p] THEN p ELSE exclusive[r]
  BY DEF TakeGuard, Guarded, TakeExclusive, RecoveryTypeOK, GuardsTypeOK
<1>2. /\ \A q \in Proc \ {p} : stage'[q] = stage[q] /\ index'[q] = index[q]
      /\ IF index[p] = LastRoot THEN stage'[p] = "locked"
         ELSE stage'[p] = "guards" /\ index'[p] = index[p] + 1
  BY TypeParts, GoesTyped, StaysTyped DEF TakeGuard, StageOf, HopStages, Proc
<1>3. /\ stage'[p] = "guards" =>
           index'[p] \in Roots /\ \A r \in Roots : r < index'[p] => exclusive'[r] = p
      /\ stage'[p] \in Locked => \A r \in Roots : exclusive'[r] = p
  BY <1>1, <1>2 DEF Roots, Locked, Effects
<1>4. \A q \in (Operator \ {p}) \cup Command : stage'[q] = stage[q] /\ index'[q] = index[q]
  BY <1>2 DEF Proc
<1>5. \A q \in Operator \ {p} : stage[q] \notin Locked \cup {"guards"}
  BY <1>1 DEF Guarded
<1> QED
  BY <1>1, <1>3, <1>4, <1>5 DEF Guarded

LEMMA GuardsKept == LockInv /\ [Next]_vars => Guarded'
<1> SUFFICES ASSUME LockInv, [Next]_vars PROVE Guarded'
  OBVIOUS
<1>0. RecoveryTypeOK /\ Guarded /\ StandsTyped
  BY TypeParts DEF LockInv
<1>1. CASE UNCHANGED vars
  BY <1>0, <1>1, GuardsStay DEF vars
<1>2. ASSUME NEW p \in Proc, Ends({p}) PROVE Guarded'
  BY <1>0, <1>2, GuardsGo
<1>3. ASSUME NEW c \in Command, CommandStep(c) PROVE Guarded'
  <2>1. CASE Begin(c)
    <3>1. UNCHANGED guardVars /\ stage'[c] = "entering" /\ index'[c] = 1
      BY <1>0, <2>1, GoesTyped DEF Begin, StageOf, OrdinaryStages, Proc
    <3>2. \A q \in Proc \ {c} : stage'[q] = stage[q] /\ index'[q] = index[q]
      BY <1>0, <2>1, GoesTyped DEF Begin, StageOf, OrdinaryStages, Proc
    <3> QED
      BY <1>0, <3>1, <3>2, GuardsStay DEF Proc
  <2>2. CASE EnterRoot(c)
    BY <1>0, <2>2, EnterRootGuarded
  <2>3. CASE RefusedAtMarker(c) \/ Leave(c)
    BY <1>2, <2>3 DEF RefusedAtMarker, Leave, Proc
  <2>4. CASE WriteLine(c) \/ \E f \in Files : WriteFile(c, f)
    BY <1>0, <2>4, GuardsStay DEF WriteLine, WriteFile
  <2> QED
    BY <1>3, <2>1, <2>2, <2>3, <2>4 DEF CommandStep
<1>4. ASSUME NEW p \in Operator, PreviewForce(p) \/ PreviewRecovery(p) PROVE Guarded'
  <2>1. /\ stage'[p] = "confirmed" /\ UNCHANGED <<guardVars, index>>
        /\ \A q \in Proc \ {p} : stage'[q] = stage[q]
    BY <1>0, <1>4 DEF PreviewForce, PreviewRecovery, Confirms, StandsTyped, Proc
  <2> QED
    BY <1>0, <2>1, GuardsStay DEF Proc, Locked, Effects
<1>5. ASSUME NEW p \in Operator, LockRuns(p) \/ TakeGuard(p) PROVE Guarded'
  BY <1>0, <1>5, LockRunsGuarded, TakeGuardGuarded
<1>6. ASSUME NEW p \in Operator, stage[p] \in Locked, UNCHANGED guardVars,
             \/ Stays(p)
             \/ \E to \in Effects : Goes(p, to)
      PROVE  Guarded'
  <2>1. p \in Proc /\ p \notin Command /\ Effects \subseteq StageOf(p)
    BY DEF StageOf, HopStages, Effects, Proc
  <2>2. /\ \A q \in Proc \ {p} : stage'[q] = stage[q] /\ index'[q] = index[q]
        /\ stage'[p] \in Locked
    BY <1>0, <1>6, <2>1, GoesTyped, StaysTyped DEF Locked
  <2>3. stage'[p] # "guards"
    BY <2>2 DEF Locked, Effects
  <2> QED
    BY <1>0, <1>6, <2>1, <2>2, <2>3, GuardsStay DEF Proc
<1>7. ASSUME NEW p \in Operator, Publish(p) \/ AppendPair(p) \/ Recheck(p) \/ Truncate(p)
                                 \/ SyncLedger(p) \/ InstallImage(p)
      PROVE  Guarded'
  <2>1. stage[p] \in Locked /\ UNCHANGED guardVars
    BY <1>7 DEF Publish, AppendPair, Recheck, Truncate, SyncLedger, InstallImage, Locked, Effects
  <2>2. Stays(p) \/ \E to \in Effects : Goes(p, to)
    BY <1>7 DEF Publish, AppendPair, Recheck, Truncate, SyncLedger, InstallImage, Effects
  <2> QED
    BY <1>6, <2>1, <2>2
<1>8. ASSUME NEW p \in Operator, Unmark(p) \/ GiveUp(p) PROVE Guarded'
  BY <1>2, <1>8 DEF Unmark, GiveUp, Proc
<1>9. ASSUME NEW p \in Proc, Stop(p) PROVE Guarded'
  BY <1>2, <1>9 DEF Stop
<1>10. ASSUME NEW f \in Files, Edit(f) PROVE Guarded'
  BY <1>0, <1>10, GuardsStay DEF Edit
<1>11. CASE PowerLoss
  BY <1>0, <1>11, GuardsGo DEF PowerLoss
<1> QED
  BY <1>1, <1>3, <1>4, <1>5, <1>7, <1>8, <1>9, <1>10, <1>11 DEF Next, HopStep, Locking, Replaying

-----------------------------------------------------------------------------
(* A pair of lines, cut anywhere.                                          *)

LEMMA PairBytes ==
    ASSUME NEW id \in Ids
    PROVE  /\ Pair(id) \in Seq(Byte) /\ Len(Pair(id)) = PairLength
           /\ \A k \in 1..PairLength : Pair(id)[k] = <<id, k>>
<1>1. \A k \in 1..PairLength : <<id, k>> \in Byte
  BY DEF Byte
<1>2. /\ Pair(id) \in Seq(Byte)
      /\ DOMAIN Pair(id) = 1..PairLength
      /\ \A k \in 1..PairLength : Pair(id)[k] = <<id, k>>
  BY <1>1, SeqDef DEF Pair
<1> QED
  BY <1>2, LenProperties

\* A ledger with some bytes of a pair, byte by byte.
LEMMA BegunBytes ==
    ASSUME NEW m \in Marker, NEW n \in 0..PairLength
    PROVE  /\ m.prefix \in Seq(Byte) /\ Len(m.prefix) \in Nat /\ m.id \in Ids
           /\ Begun(m, n) \in Seq(Byte)
           /\ Len(Begun(m, n)) = Len(m.prefix) + n
           /\ \A i \in 1..Len(m.prefix) : Begun(m, n)[i] = m.prefix[i]
           /\ \A k \in 1..n : Begun(m, n)[Len(m.prefix) + k] = <<m.id, k>>
<1>1. m.prefix \in Seq(Byte) /\ m.id \in Ids /\ Len(m.prefix) \in Nat
  BY LenProperties DEF Marker
<1>2. /\ SubSeq(Pair(m.id), 1, n) \in Seq(Byte)
      /\ Len(SubSeq(Pair(m.id), 1, n)) = n
      /\ \A k \in 1..n : SubSeq(Pair(m.id), 1, n)[k] = <<m.id, k>>
  <2>1. \A k \in 1..n : Pair(m.id)[k] \in Byte
    BY <1>1, PairBytes, ElementOfSeq
  <2> QED
    BY <1>1, <2>1, PairBytes, SubSeqProperties
<1> DEFINE u == SubSeq(Pair(m.id), 1, n)
           s == m.prefix \o u
<1> HIDE DEF u
<1>3. /\ s \in Seq(Byte) /\ Len(s) = Len(m.prefix) + n
      /\ \A i \in 1..Len(m.prefix) + n :
           s[i] = IF i <= Len(m.prefix) THEN m.prefix[i] ELSE u[i - Len(m.prefix)]
  <2>1. u \in Seq(Byte) /\ Len(u) = n
    BY <1>2 DEF u
  <2> DEFINE before == m.prefix
  <2> HIDE DEF before
  <2>2. before \in Seq(Byte)
    BY <1>1 DEF before
  <2>3. /\ before \o u \in Seq(Byte) /\ Len(before \o u) = Len(before) + Len(u)
        /\ \A i \in 1..Len(before) + Len(u) :
             (before \o u)[i] = IF i <= Len(before) THEN before[i] ELSE u[i - Len(before)]
    <3> HIDE DEF s
    <3>0. before \o u \in Seq(Byte)
      BY <2>1, <2>2
    <3>1. Len(before \o u) = Len(before) + Len(u)
      <4>1. \A a, b \in Seq(Byte) : Len(a \o b) = Len(a) + Len(b)
        BY ConcatProperties
      <4> QED
        BY <2>1, <2>2, <4>1
    <3>2. ASSUME NEW i \in 1..Len(before) + Len(u)
          PROVE  (before \o u)[i] = IF i <= Len(before) THEN before[i] ELSE u[i - Len(before)]
      BY <2>1, <2>2, <3>2
    <3> QED
      BY <3>0, <3>1, <3>2
  <2> QED
    BY <2>1, <2>3 DEF before
<1> HIDE DEF s
<1>4. \A i \in 1..Len(m.prefix) : s[i] = m.prefix[i]
  BY <1>1, <1>3
<1>5. ASSUME NEW k \in 1..n
      PROVE  s[Len(m.prefix) + k] = <<m.id, k>>
  <2>1. /\ Len(m.prefix) + k \in 1..Len(m.prefix) + n /\ ~(Len(m.prefix) + k <= Len(m.prefix))
        /\ (Len(m.prefix) + k) - Len(m.prefix) = k
    BY <1>1
  <2>2. s[Len(m.prefix) + k] = u[k]
    BY <1>3, <2>1
  <2> QED
    BY <1>2, <2>2 DEF u
<1>6. s = Begun(m, n)
  BY DEF s, u, Begun
<1> QED
  BY <1>1, <1>3, <1>4, <1>5, <1>6

\* It is the only one with those bytes.
LEMMA BegunIs ==
    ASSUME NEW m \in Marker, NEW n \in 0..PairLength, NEW s \in Seq(Byte),
           Len(s) = Len(m.prefix) + n,
           \A i \in 1..Len(m.prefix) : s[i] = m.prefix[i],
           \A k \in 1..n : s[Len(m.prefix) + k] = <<m.id, k>>
    PROVE  s = Begun(m, n)
<1>1. Len(m.prefix) \in Nat
  BY BegunBytes
<1>2. ASSUME NEW i \in 1..Len(s)
      PROVE  s[i] = Begun(m, n)[i]
  <2>1. CASE i <= Len(m.prefix)
    BY <1>1, <2>1, BegunBytes
  <2>2. CASE i > Len(m.prefix)
    <3>1. PICK k \in 1..n : i = Len(m.prefix) + k
      <4>1. i - Len(m.prefix) \in 1..n /\ i = Len(m.prefix) + (i - Len(m.prefix))
        BY <1>1, <2>2
      <4> QED
        BY <4>1
    <3>2. s[Len(m.prefix) + k] = <<m.id, k>> /\ Begun(m, n)[Len(m.prefix) + k] = <<m.id, k>>
      BY BegunBytes
    <3> QED
      BY <3>1, <3>2
  <2> QED
    BY <1>1, <2>1, <2>2
<1>3. Begun(m, n) \in Seq(Byte) /\ Len(s) = Len(Begun(m, n))
  BY BegunBytes
<1> QED
  BY <1>2, <1>3, SeqEqual, Zenon

LEMMA BegunNone ==
    ASSUME NEW m \in Marker
    PROVE  Begun(m, 0) = m.prefix
<1>1. m.prefix \in Seq(Byte) /\ Len(m.prefix) = Len(m.prefix) + 0
  BY BegunBytes
<1> QED
  BY <1>1, BegunIs

LEMMA BegunAll ==
    ASSUME NEW m \in Marker
    PROVE  Begun(m, PairLength) = m.prefix \o Pair(m.id)
<1>1. m.id \in Ids
  BY DEF Marker
<1>2. SubSeq(Pair(m.id), 1, PairLength) = Pair(m.id)
  BY <1>1, PairBytes, SubSeqFull
<1> QED
  BY <1>2 DEF Begun

\* The next byte of the pair.
LEMMA BegunNext ==
    ASSUME NEW m \in Marker, NEW n \in 0..PairLength - 1
    PROVE  Append(Begun(m, n), Pair(m.id)[n + 1]) = Begun(m, n + 1)
<1> DEFINE s == Begun(m, n)
           t == Append(s, <<m.id, n + 1>>)
<1>1. n \in 0..PairLength /\ n + 1 \in 0..PairLength /\ n + 1 \in 1..PairLength
  OBVIOUS
<1>2. /\ s \in Seq(Byte) /\ Len(s) = Len(m.prefix) + n /\ m.id \in Ids /\ Len(m.prefix) \in Nat
      /\ \A i \in 1..Len(m.prefix) : s[i] = m.prefix[i]
      /\ \A k \in 1..n : s[Len(m.prefix) + k] = <<m.id, k>>
  BY <1>1, BegunBytes
<1>3. Pair(m.id)[n + 1] = <<m.id, n + 1>> /\ <<m.id, n + 1>> \in Byte
  BY <1>1, <1>2, PairBytes DEF Byte
<1>4. /\ t \in Seq(Byte) /\ Len(t) = Len(s) + 1
      /\ \A i \in 1..Len(s) : t[i] = s[i]
      /\ t[Len(s) + 1] = <<m.id, n + 1>>
  <2>1. s \in Seq(Byte)
    BY <1>2
  <2> DEFINE b == <<m.id, n + 1>>
  <2>2. b \in Byte
    BY <1>3
  <2> HIDE DEF s, b
  <2>3. /\ Append(s, b) \in Seq(Byte) /\ Len(Append(s, b)) = Len(s) + 1
        /\ \A i \in 1..Len(s) : Append(s, b)[i] = s[i]
        /\ Append(s, b)[Len(s) + 1] = b
    BY <2>1, <2>2, AppendProperties
  <2> QED
    BY <2>3 DEF b
<1> HIDE DEF s, t
<1>5. /\ Len(t) = Len(m.prefix) + (n + 1)
      /\ \A i \in 1..Len(m.prefix) : t[i] = m.prefix[i]
      /\ \A k \in 1..n + 1 : t[Len(m.prefix) + k] = <<m.id, k>>
  <2>1. ASSUME NEW i \in 1..Len(m.prefix)
        PROVE  i \in 1..Len(s)
    BY <1>2
  <2>2. ASSUME NEW k \in 1..n
        PROVE  Len(m.prefix) + k \in 1..Len(s)
    <3>1. ASSUME NEW a \in Nat
          PROVE  a + k \in 1..a + n
      OBVIOUS
    <3> QED
      BY <1>2, <3>1
  <2>3. Len(s) + 1 = Len(m.prefix) + (n + 1)
    <3>1. ASSUME NEW a \in Nat
          PROVE  (a + n) + 1 = a + (n + 1)
      OBVIOUS
    <3> QED
      BY <1>2, <3>1
  <2>4. \A k \in 1..n + 1 : k \in 1..n \/ k = n + 1
    OBVIOUS
  <2>5. \A k \in 1..n : t[Len(m.prefix) + k] = <<m.id, k>>
    BY <1>2, <1>4, <2>2
  <2>6. t[Len(m.prefix) + (n + 1)] = <<m.id, n + 1>>
    BY <1>4, <2>3
  <2> QED
    BY <1>2, <1>4, <2>1, <2>3, <2>4, <2>5, <2>6
<1>6. t = Begun(m, n + 1)
  BY <1>1, <1>4, <1>5, BegunIs
<1> QED
  BY <1>3, <1>6 DEF s, t

\* What a cut behind the prefix leaves.
LEMMA BegunCut ==
    ASSUME NEW m \in Marker, NEW n \in 0..PairLength, NEW k \in 0..n
    PROVE  SubSeq(Begun(m, n), 1, Len(m.prefix) + k) = Begun(m, k)
<1> DEFINE s == Begun(m, n)
           t == SubSeq(s, 1, Len(m.prefix) + k)
<1>1. /\ s \in Seq(Byte) /\ Len(s) = Len(m.prefix) + n /\ Len(m.prefix) \in Nat
      /\ \A i \in 1..Len(m.prefix) : s[i] = m.prefix[i]
      /\ \A j \in 1..n : s[Len(m.prefix) + j] = <<m.id, j>>
  BY BegunBytes
<1> HIDE DEF s
<1>2. /\ t \in Seq(Byte) /\ Len(t) = Len(m.prefix) + k
      /\ \A i \in 1..Len(m.prefix) + k : t[i] = s[i]
  <2>1. \A i \in 1..Len(m.prefix) + k : s[i] \in Byte
    BY <1>1, ElementOfSeq
  <2> QED
    BY <1>1, <2>1, SubSeqProperties
<1> HIDE DEF t
<1>3. /\ \A i \in 1..Len(m.prefix) : t[i] = m.prefix[i]
      /\ \A j \in 1..k : t[Len(m.prefix) + j] = <<m.id, j>>
  <2>1. ASSUME NEW i \in 1..Len(m.prefix)
        PROVE  i \in 1..Len(m.prefix) + k
    BY <1>1
  <2>2. ASSUME NEW j \in 1..k
        PROVE  Len(m.prefix) + j \in 1..Len(m.prefix) + k /\ j \in 1..n
    BY <1>1
  <2> QED
    BY <1>1, <1>2, <2>1, <2>2
<1>4. t = Begun(m, k)
  <2>1. k \in 0..PairLength
    OBVIOUS
  <2> QED
    BY <1>2, <1>3, <2>1, BegunIs
<1> QED
  BY <1>4 DEF s, t

\* Where the prefix ends the bytes of the pair begin.
LEMMA BegunRest ==
    ASSUME NEW m \in Marker, NEW n \in 0..PairLength
    PROVE  LET s == Begun(m, n)
           IN  /\ SubSeq(s, 1, Len(m.prefix)) = m.prefix
               /\ SubSeq(s, Len(m.prefix) + 1, Len(s)) = SubSeq(Pair(m.id), 1, n)
               /\ Len(SubSeq(Pair(m.id), 1, n)) = n
<1> DEFINE s == Begun(m, n)
           t == SubSeq(s, Len(m.prefix) + 1, Len(s))
           u == SubSeq(Pair(m.id), 1, n)
<1>1. /\ s \in Seq(Byte) /\ Len(s) = Len(m.prefix) + n /\ Len(m.prefix) \in Nat /\ m.id \in Ids
      /\ \A j \in 1..n : s[Len(m.prefix) + j] = <<m.id, j>>
  BY BegunBytes
<1>2. SubSeq(s, 1, Len(m.prefix)) = m.prefix
  BY <1>1, BegunCut, BegunNone
<1> HIDE DEF s
<1>3. t \in Seq(Byte) /\ Len(t) = n /\ \A j \in 1..n : t[j] = s[Len(m.prefix) + j]
  <2>1. \A i \in Len(m.prefix) + 1..Len(s) : s[i] \in Byte
    BY <1>1, ElementOfSeq
  <2> QED
    BY <1>1, <2>1, SubSeqProperties
<1>4. u \in Seq(Byte) /\ Len(u) = n /\ \A j \in 1..n : u[j] = <<m.id, j>>
  <2>1. \A k \in 1..n : Pair(m.id)[k] \in Byte
    BY <1>1, PairBytes, ElementOfSeq
  <2> QED
    BY <1>1, <2>1, PairBytes, SubSeqProperties
<1> HIDE DEF t, u
<1>5. t = u
  <2>1. Len(t) = Len(u) /\ \A j \in 1..Len(t) : t[j] = u[j]
    BY <1>1, <1>3, <1>4
  <2> QED
    BY <1>3, <1>4, <2>1, SeqEqual
<1> QED
  BY <1>2, <1>4, <1>5 DEF s, t, u

-----------------------------------------------------------------------------
(* What the evidence says.                                                 *)

\* A sequence without its beginning.
LEMMA RestOf ==
    ASSUME NEW S, NEW s \in Seq(S), NEW a \in 0..Len(s)
    PROVE  /\ SubSeq(s, a + 1, Len(s)) \in Seq(S)
           /\ Len(SubSeq(s, a + 1, Len(s))) = Len(s) - a
           /\ \A k \in 1..Len(s) - a : SubSeq(s, a + 1, Len(s))[k] = s[a + k]
<1>1. Len(s) \in Nat /\ \A i \in a + 1..Len(s) : s[i] \in S
  <2>1. Len(s) \in Nat
    BY LenProperties
  <2>2. \A i \in a + 1..Len(s) : i \in 1..Len(s)
    BY <2>1
  <2> QED
    BY <2>1, <2>2, ElementOfSeq
<1>2. ASSUME NEW n \in Nat, a <= n
      PROVE  /\ (IF a + 1 <= n THEN n - (a + 1) + 1 ELSE 0) = n - a
             /\ n - (a + 1) + 1 = n - a
             /\ \A k \in 1..n - a : (a + 1) + k - 1 = a + k
  BY <1>2
<1> DEFINE t == SubSeq(s, a + 1, Len(s))
<1>3. /\ t \in Seq(S)
      /\ Len(t) = IF a + 1 <= Len(s) THEN Len(s) - (a + 1) + 1 ELSE 0
      /\ \A k \in 1..Len(s) - (a + 1) + 1 : t[k] = s[(a + 1) + k - 1]
  BY <1>1, SubSeqProperties
<1> HIDE DEF t
<1>4. /\ Len(t) = Len(s) - a
      /\ \A k \in 1..Len(s) - a : t[k] = s[a + k]
  BY <1>1, <1>2, <1>3
<1> QED
  BY <1>3, <1>4 DEF t

\* A ledger and files that one process left are decided on.
LEMMA LeftIsDecided ==
    ASSUME NEW m \in Marker, NEW n \in 0..PairLength, ledger = Begun(m, n), ImagesKnown(m)
    PROVE  Decision(m) = IF n = PairLength THEN "forward" ELSE "rollback"
<1>1. /\ SubSeq(ledger, 1, Len(m.prefix)) = m.prefix
      /\ Suffix(m) = SubSeq(Pair(m.id), 1, n) /\ Len(Suffix(m)) = n
      /\ Len(m.prefix) <= Len(ledger)
  <2>1. SubSeq(ledger, 1, Len(m.prefix)) = m.prefix
    BY BegunRest
  <2>2. Suffix(m) = SubSeq(Pair(m.id), 1, n) /\ Len(SubSeq(Pair(m.id), 1, n)) = n
    BY BegunRest DEF Suffix
  <2>3. Len(m.prefix) <= Len(ledger)
    <3>1. Len(ledger) = Len(m.prefix) + n /\ Len(m.prefix) \in Nat
      BY BegunBytes
    <3> QED
      BY <3>1
  <2> QED
    BY <2>1, <2>2, <2>3
<1>2. m.id \in Ids
  BY DEF Marker
<1>3. CASE n = PairLength
  <2>1. Suffix(m) = Pair(m.id)
    BY <1>1, <1>2, <1>3, PairBytes, SubSeqFull
  <2> QED
    BY <1>1, <1>3, <2>1 DEF Decision, PrefixKept
<1>4. CASE n # PairLength
  <2>1. Suffix(m) # Pair(m.id)
    BY <1>1, <1>2, <1>4, PairBytes
  <2>2. StartsPair(m)
    BY <1>1, <1>4 DEF StartsPair
  <2> QED
    BY <1>1, <1>4, <2>1, <2>2 DEF Decision, PrefixKept
<1> QED
  BY <1>3, <1>4

\* What is decided on is what one process left.
LEMMA DecidedIsLeft ==
    ASSUME NEW m \in Marker, ledger \in Seq(Byte), Decision(m) # "refuse"
    PROVE  /\ ImagesKnown(m)
           /\ Decision(m) \in {"forward", "rollback"}
           /\ Decision(m) = "forward" => ledger = Begun(m, PairLength)
           /\ Decision(m) = "rollback" => \E n \in 0..PairLength - 1 : ledger = Begun(m, n)
<1>1. PrefixKept(m) /\ ImagesKnown(m)
  BY DEF Decision
<1>2. ASSUME NEW n \in 0..PairLength, Suffix(m) = SubSeq(Pair(m.id), 1, n)
      PROVE  ledger = Begun(m, n)
  <2>1. /\ m.prefix \in Seq(Byte) /\ Len(m.prefix) \in Nat /\ Len(ledger) \in Nat
        /\ Len(m.prefix) <= Len(ledger)
    BY <1>1, LenProperties DEF Marker, PrefixKept
  <2>2. \A i \in 1..Len(ledger) : ledger[i] \in Byte
    BY ElementOfSeq
  <2>3. /\ Len(Suffix(m)) = Len(ledger) - Len(m.prefix)
        /\ \A k \in 1..Len(ledger) - Len(m.prefix) : Suffix(m)[k] = ledger[Len(m.prefix) + k]
    <3>1. Len(m.prefix) \in 0..Len(ledger)
      BY <2>1
    <3> DEFINE a == Len(m.prefix)
               rest == SubSeq(ledger, a + 1, Len(ledger))
    <3>2. rest = Suffix(m)
      BY DEF Suffix
    <3>3. \A b \in 0..Len(ledger) :
            LET s == SubSeq(ledger, b + 1, Len(ledger))
            IN  Len(s) = Len(ledger) - b /\ \A k \in 1..Len(ledger) - b : s[k] = ledger[b + k]
      <4> SUFFICES ASSUME NEW b \in 0..Len(ledger)
                   PROVE  /\ Len(SubSeq(ledger, b + 1, Len(ledger))) = Len(ledger) - b
                          /\ \A k \in 1..Len(ledger) - b :
                               SubSeq(ledger, b + 1, Len(ledger))[k] = ledger[b + k]
        OBVIOUS
      <4> QED
        BY RestOf
    <3>4. Len(rest) = Len(ledger) - a /\ \A k \in 1..Len(ledger) - a : rest[k] = ledger[a + k]
      BY <3>1, <3>3
    <3> HIDE DEF rest
    <3> QED
      BY <3>2, <3>4
  <2>4. Len(Suffix(m)) = n /\ \A k \in 1..n : Suffix(m)[k] = <<m.id, k>>
    <3>1. m.id \in Ids
      BY DEF Marker
    <3>2. \A k \in 1..n : Pair(m.id)[k] \in Byte
      BY <3>1, PairBytes, ElementOfSeq
    <3> QED
      BY <1>2, <3>1, <3>2, PairBytes, SubSeqProperties
  <2>5. \A i \in 1..Len(m.prefix) : ledger[i] = m.prefix[i]
    <3>1. \A i \in 1..Len(m.prefix) : ledger[i] \in Byte
      BY <2>1, <2>2
    <3>2. \A i \in 1..Len(m.prefix) : SubSeq(ledger, 1, Len(m.prefix))[i] = ledger[i]
      BY <2>1, <3>1, SubSeqProperties
    <3> QED
      BY <1>1, <3>2 DEF PrefixKept
  <2>6. Len(ledger) = Len(m.prefix) + n /\ \A k \in 1..n : ledger[Len(m.prefix) + k] = <<m.id, k>>
    <3>1. Len(ledger) - Len(m.prefix) = n
      BY <2>3, <2>4
    <3>2. Len(ledger) = Len(m.prefix) + n
      BY <2>1, <3>1
    <3> QED
      BY <2>3, <2>4, <3>1, <3>2
  <2> QED
    BY <2>5, <2>6, BegunIs
<1>3. CASE Suffix(m) = Pair(m.id)
  <2>1. Suffix(m) = SubSeq(Pair(m.id), 1, PairLength) /\ PairLength \in 0..PairLength
    BY <1>3, PairBytes, SubSeqFull DEF Marker
  <2> QED
    BY <1>1, <1>2, <1>3, <2>1 DEF Decision
<1>4. CASE Suffix(m) # Pair(m.id)
  <2>1. StartsPair(m) /\ Decision(m) = "rollback"
    BY <1>1, <1>4 DEF Decision
  <2>2. Len(Suffix(m)) \in Nat
    <3>1. \A i \in Len(m.prefix) + 1..Len(ledger) : ledger[i] \in Byte
      BY LenProperties, ElementOfSeq DEF Marker
    <3>2. Suffix(m) \in Seq(Byte)
      BY <3>1, LenProperties, SubSeqProperties DEF Suffix, Marker
    <3> QED
      BY <3>2, LenProperties
  <2>3. Len(Suffix(m)) \in 0..PairLength - 1
    BY <2>1, <2>2 DEF StartsPair
  <2>4. ledger = Begun(m, Len(Suffix(m)))
    <3>1. Len(Suffix(m)) \in 0..PairLength
      BY <2>3
    <3>2. Suffix(m) = SubSeq(Pair(m.id), 1, Len(Suffix(m)))
      BY <2>1 DEF StartsPair
    <3> QED
      BY <1>2, <3>1, <3>2
  <2> QED
    BY <1>1, <2>1, <2>3, <2>4
<1> QED
  BY <1>3, <1>4

-----------------------------------------------------------------------------
(* No command beside a marker, and the operators under the locks.          *)

LEMMA NobodyBeside == LockInv /\ HopInv /\ [Next]_vars => NoCommandBesideAMarker'
<1> SUFFICES ASSUME LockInv, HopInv, [Next]_vars, NEW c \in Command, stage'[c] = "inside"
             PROVE  marker' = None
  BY DEF NoCommandBesideAMarker
<1>0. RecoveryTypeOK /\ Guarded /\ NoCommandBesideAMarker /\ StandsTyped /\ GuardsTypeOK
  BY TypeParts DEF LockInv
<1>1. ASSUME UNCHANGED marker, stage[c] = "inside" \/ marker = None PROVE marker' = None
  BY <1>0, <1>1 DEF NoCommandBesideAMarker
<1>2. CASE UNCHANGED vars
  BY <1>1, <1>2 DEF vars, dataVars
<1>3. ASSUME NEW P \in SUBSET Proc, Ends(P) PROVE stage[c] = "inside"
  BY <1>0, <1>3, EndsTyped DEF Proc
<1>4. ASSUME NEW p \in Proc, NEW to, to # "inside", Goes(p, to) \/ Stays(p)
      PROVE  stage[c] = "inside"
  BY <1>0, <1>4 DEF Goes, Stays, StandsTyped, Proc
<1>5. ASSUME NEW d \in Command, CommandStep(d) PROVE marker' = None
  <2>1. CASE EnterRoot(d)
    BY <1>1, <2>1 DEF EnterRoot, CheckPending, dataVars
  <2>2. CASE Begin(d) \/ RefusedAtMarker(d) \/ Leave(d)
    BY <1>1, <1>3, <1>4, <2>2 DEF Begin, RefusedAtMarker, Leave, dataVars, Proc
  <2>3. CASE WriteLine(d) \/ \E f \in Files : WriteFile(d, f)
    BY <1>1, <2>3 DEF WriteLine, WriteFile
  <2> QED
    BY <1>5, <2>1, <2>2, <2>3 DEF CommandStep
<1>6. ASSUME NEW p \in Operator, PreviewForce(p) \/ PreviewRecovery(p) PROVE marker' = None
  <2>1. stage[c] = "inside"
    BY <1>0, <1>6 DEF PreviewForce, PreviewRecovery, Confirms, StandsTyped, Proc
  <2> QED
    BY <1>1, <1>6, <2>1 DEF PreviewForce, PreviewRecovery, Confirms, dataVars
<1>7. ASSUME NEW p \in Operator, LockRuns(p) \/ TakeGuard(p) \/ AppendPair(p) \/ Recheck(p)
                                 \/ Truncate(p) \/ SyncLedger(p) \/ InstallImage(p)
      PROVE  marker' = None
  <2>1. UNCHANGED marker
    BY <1>7 DEF LockRuns, TakeGuard, AppendPair, Recheck, Truncate, SyncLedger, InstallImage,
                dataVars
  <2>2. \/ Stays(p)
        \/ \E to \in {"guards", "locked", "sync", "truncate", "unmark", "install", "append"} :
             Goes(p, to)
    BY <1>7 DEF LockRuns, TakeGuard, AppendPair, Recheck, Truncate, SyncLedger, InstallImage
  <2> QED
    BY <1>1, <1>4, <2>1, <2>2 DEF Proc
<1>8. ASSUME NEW p \in Operator, Publish(p) PROVE marker' = None
  <2>1. stage[c] = "inside"
    BY <1>4, <1>8 DEF Publish, Proc
  <2> QED
    BY <1>0, <1>8, <2>1, NobodyInside DEF Publish, Locked
<1>9. ASSUME NEW p \in Operator, Unmark(p) PROVE marker' = None
  BY <1>9 DEF Unmark
<1>10. ASSUME NEW p \in Proc, GiveUp(p) \/ Stop(p) PROVE marker' = None
  BY <1>1, <1>3, <1>10 DEF GiveUp, Stop, dataVars
<1>11. ASSUME NEW f \in Files, Edit(f) PROVE marker' = None
  BY <1>1, <1>11 DEF Edit
<1>12. CASE PowerLoss
  BY <1>1, <1>3, <1>12 DEF PowerLoss
<1> QED
  BY <1>2, <1>5, <1>6, <1>7, <1>8, <1>9, <1>10, <1>11, <1>12
     DEF Next, HopStep, Locking, Replaying, Proc

-----------------------------------------------------------------------------
(* How far an operator under the locks has come.                           *)

\* A step that leaves the data, and what the operators at work have in hand.
Quiet ==
    /\ UNCHANGED dataVars
    /\ \A p \in Operator :
         /\ stage'[p] # "idle" => shown'[p] \in Shown
         /\ stage'[p] \in Effects =>
              stage'[p] = stage[p] /\ index'[p] = index[p] /\ shown'[p] = shown[p]

LEMMA QuietKeepsHops == HopInv /\ Quiet => HopInv'
<1> SUFFICES ASSUME HopInv, Quiet, NEW p \in Operator, stage'[p] \in Effects
             PROVE  AtWork(p)'
  BY DEF HopInv, Quiet
<1>1. /\ AtWork(p) /\ UNCHANGED <<files, older, ledger, disk, marker>>
      /\ stage'[p] = stage[p] /\ index'[p] = index[p] /\ shown'[p] = shown[p]
  BY DEF HopInv, Quiet, dataVars
<1> QED
  BY <1>1 DEF AtWork, ImagesKnown, Begun, Written, Installed, Image

\* Where nobody is at work the data may change.
LEMMA IdleKeepsHops ==
    ASSUME HopInv, \A p \in Operator : stage[p] \notin Effects, UNCHANGED <<stage, shown>>
    PROVE  HopInv'
BY DEF HopInv

\* The one operator under the locks takes a step; the others are not there.
LEMMA OneStepKeepsHops ==
    ASSUME LockInv, HopInv, NEW p \in Operator, stage[p] \in Locked,
           \A q \in Proc \ {p} : stage'[q] = stage[q],
           \A q \in Operator \ {p} : shown'[q] = shown[q],
           stage'[p] # "idle" => shown'[p] = shown[p],
           stage'[p] \in Effects => AtWork(p)'
    PROVE  HopInv'
<1>1. \A q \in Operator \ {p} : stage[q] \notin Effects
  BY OneAtWork DEF LockInv, Locked
<1>2. stage[p] # "idle" /\ shown[p] \in Shown
  BY DEF HopInv, Locked, Effects
<1>3. \A q \in Operator \ {p} : stage'[q] = stage[q]
  BY DEF Proc
<1> QED
  BY <1>1, <1>2, <1>3 DEF HopInv

\* The stages an operator passes under the locks.
LEMMA StepOnward ==
    ASSUME LockInv, NEW p \in Operator
    PROVE  /\ \A to \in Effects : Goes(p, to) =>
                /\ stage'[p] = to /\ index'[p] = 1 /\ shown' = shown
                /\ \A q \in Proc \ {p} : stage'[q] = stage[q]
           /\ Stays(p) =>
                /\ stage' = stage /\ index'[p] = index[p] + 1 /\ shown' = shown
<1>1. p \in Proc /\ Effects \subseteq StageOf(p) /\ StandsTyped
  BY TypeParts DEF Proc, StageOf, Effects, HopStages, LockInv
<1> QED
  BY <1>1, GoesTyped, StaysTyped DEF Goes, Stays

LEMMA PublishHops == ASSUME LockInv, HopInv, NEW p \in Operator, Publish(p) PROVE HopInv'
<1> DEFINE id == used.writes + 1
<1>1. /\ stage[p] = "locked" /\ shown[p].does = "force" /\ Goes(p, "install")
      /\ marker' = [id |-> id, before |-> ImagesNow(id).before,
                    after |-> ImagesNow(id).after, prefix |-> ledger]
      /\ UNCHANGED <<files, ledger, disk>>
  BY DEF Publish
<1>2. /\ stage'[p] = "install" /\ index'[p] = 1 /\ shown' = shown
      /\ \A q \in Proc \ {p} : stage'[q] = stage[q]
  BY <1>1, StepOnward DEF Effects
<1>3. marker' \in Marker
  <2>1. files \in Images /\ ledger \in Seq(Byte) /\ id \in Ids
    BY TypeParts, NextId DEF LockInv, DataTyped, Publish
  <2> QED
    BY <1>1, <2>1, MarkerTyped
<1>4. ImagesKnown(marker)'
  BY <1>1 DEF ImagesKnown, ImagesNow
<1>5. ledger' = Begun(marker', 0)
  BY <1>1, <1>3, BegunNone
<1>6. 1 \in Files /\ \A f \in Files : ~(f < 1)
  BY DEF Files
<1>7. AtWork(p)'
  BY <1>1, <1>2, <1>3, <1>4, <1>5, <1>6 DEF AtWork, Written
<1> QED
  BY <1>1, <1>2, <1>7, OneStepKeepsHops DEF Locked

LEMMA RecheckHops == ASSUME LockInv, HopInv, NEW p \in Operator, Recheck(p) PROVE HopInv'
<1>1. /\ stage[p] = "locked" /\ shown[p] \in Shown /\ shown[p].does # "force"
      /\ marker = shown[p].marker /\ marker # None /\ Decision(marker) = shown[p].does
      /\ UNCHANGED dataVars
  BY DEF Recheck, StillShown, HopInv
<1>2. marker \in Marker /\ ledger \in Seq(Byte) /\ shown[p].does \in {"forward", "rollback"}
  BY <1>1, TypeParts DEF LockInv, DataTyped, Shown, Meanings
<1>3. /\ ImagesKnown(marker)
      /\ shown[p].does = "forward" => ledger = Begun(marker, PairLength)
      /\ shown[p].does = "rollback" => \E n \in 0..PairLength - 1 : ledger = Begun(marker, n)
  BY <1>1, <1>2, DecidedIsLeft
<1>4. /\ stage'[p] = IF shown[p].does = "rollback" THEN "truncate" ELSE "sync"
      /\ index'[p] = 1 /\ shown' = shown
      /\ \A q \in Proc \ {p} : stage'[q] = stage[q]
  BY StepOnward DEF Recheck, Effects
<1>5. AtWork(p)'
  <2>1. /\ marker' = marker /\ files' = files /\ ledger' = ledger
        /\ shown'[p] = shown[p] /\ ImagesKnown(marker)' /\ \A n : Begun(marker, n)' = Begun(marker, n)
    BY <1>1, <1>3, <1>4 DEF dataVars, ImagesKnown, Begun
  <2>2. CASE shown[p].does = "rollback"
    BY <1>1, <1>2, <1>3, <1>4, <2>1, <2>2 DEF AtWork
  <2>3. CASE shown[p].does = "forward"
    <3>1. stage'[p] = "sync" /\ Written(p)' = PairLength
      BY <1>4, <2>1, <2>3 DEF Written
    <3> QED
      BY <1>1, <1>2, <1>3, <2>1, <2>3, <3>1 DEF AtWork
  <2> QED
    BY <1>2, <2>2, <2>3
<1> QED
  BY <1>1, <1>4, <1>5, OneStepKeepsHops DEF Locked

LEMMA TruncateHops == ASSUME LockInv, HopInv, NEW p \in Operator, Truncate(p) PROVE HopInv'
<1>1. /\ stage[p] = "truncate" /\ AtWork(p) /\ ledger' = marker.prefix /\ Goes(p, "sync")
      /\ UNCHANGED <<files, older, disk, marker>>
  BY DEF Truncate, HopInv, Effects
<1>2. /\ stage'[p] = "sync" /\ index'[p] = 1 /\ shown' = shown
      /\ \A q \in Proc \ {p} : stage'[q] = stage[q]
  BY <1>1, StepOnward DEF Effects
<1>3. marker \in Marker /\ ImagesKnown(marker) /\ shown[p].does = "rollback" /\ marker = shown[p].marker
  BY <1>1 DEF AtWork
<1>4. ledger' = Begun(marker', 0) /\ ImagesKnown(marker)' /\ shown'[p] = shown[p]
  BY <1>1, <1>2, <1>3, BegunNone DEF ImagesKnown
<1>5. AtWork(p)'
  BY <1>1, <1>2, <1>3, <1>4 DEF AtWork, Written
<1> QED
  BY <1>1, <1>2, <1>5, OneStepKeepsHops DEF Locked, Effects

LEMMA SyncHops == ASSUME LockInv, HopInv, NEW p \in Operator, SyncLedger(p) PROVE HopInv'
<1>1. /\ stage[p] = "sync" /\ AtWork(p) /\ disk' = ledger
      /\ UNCHANGED <<files, older, ledger, marker>> /\ shown[p] \in Shown
  BY DEF SyncLedger, HopInv, Effects
<1>2. /\ stage'[p] = IF shown[p].does = "force" THEN "unmark" ELSE "install"
      /\ index'[p] = 1 /\ shown' = shown
      /\ \A q \in Proc \ {p} : stage'[q] = stage[q]
  BY StepOnward DEF SyncLedger, Effects
<1>3. /\ marker \in Marker /\ ImagesKnown(marker)
      /\ shown[p].does # "force" => marker = shown[p].marker
      /\ ledger = Begun(marker, Written(p))
      /\ shown[p].does = "force" => \A f \in Files : Installed(p, f)
  BY <1>1 DEF AtWork
<1>4. /\ ImagesKnown(marker)' /\ shown'[p] = shown[p] /\ ledger' = disk'
      /\ \A f \in Files : Installed(p, f) <=> Installed(p, f)'
  BY <1>1, <1>2, <1>3 DEF ImagesKnown, Installed, Image
<1>5. Written(p)' = Written(p)
  BY <1>1, <1>2, <1>4 DEF Written, Shown, Meanings
<1>6. 1 \in Files /\ \A f \in Files : ~(f < 1)
  BY DEF Files
<1>7. Begun(marker', Written(p)') = Begun(marker, Written(p))
  BY <1>1, <1>5
<1>8. AtWork(p)'
  BY <1>1, <1>2, <1>3, <1>4, <1>6, <1>7 DEF AtWork
<1> QED
  BY <1>1, <1>2, <1>8, OneStepKeepsHops DEF Locked, Effects

LEMMA InstallHops == ASSUME LockInv, HopInv, NEW p \in Operator, InstallImage(p) PROVE HopInv'
<1> DEFINE i == index[p]
<1>1. /\ stage[p] = "install" /\ AtWork(p) /\ files' = [files EXCEPT ![i] = Image(p)[i]]
      /\ older' = [older EXCEPT ![i] = {}]
      /\ UNCHANGED <<ledger, disk, marker>> /\ shown[p] \in Shown
  BY DEF InstallImage, HopInv, Effects
<1>2. /\ shown' = shown /\ \A q \in Proc \ {p} : stage'[q] = stage[q]
      /\ i < LastFile => stage' = stage /\ index'[p] = i + 1
      /\ ~(i < LastFile) =>
           /\ stage'[p] = IF shown[p].does = "force" THEN "append" ELSE "unmark"
           /\ index'[p] = 1
  BY StepOnward DEF InstallImage, Effects
<1>3. /\ marker \in Marker /\ ImagesKnown(marker)
      /\ shown[p].does # "force" => marker = shown[p].marker /\ disk = ledger
      /\ ledger = Begun(marker, Written(p))
      /\ i \in Files /\ \A f \in Files : f < i => Installed(p, f)
  BY <1>1 DEF AtWork
<1>4. /\ files \in Images /\ shown'[p] = shown[p] /\ Image(p)' = Image(p)
      /\ \A f \in Files : files'[f] = IF f = i THEN Image(p)[f] ELSE files[f]
      /\ \A f \in Files : older'[f] = IF f = i THEN {} ELSE older[f]
  <2>1. files \in Images /\ older \in [Files -> SUBSET SUBSET (0..MaxWrites)]
    BY TypeParts DEF LockInv, DataTyped
  <2> QED
    BY <1>1, <1>2, <2>1 DEF Image, Images
<1>5. ImagesKnown(marker)'
  BY <1>1, <1>3, <1>4 DEF ImagesKnown, Image
<1>6. \A f \in Files : f < i \/ f = i => Installed(p, f)'
  BY <1>3, <1>4 DEF Installed
<1>7. Written(p)' = Written(p)
  BY <1>1, <1>2, <1>4 DEF Written, Shown, Meanings
<1>8. Begun(marker', Written(p)') = Begun(marker, Written(p)) /\ marker' = marker /\ ledger' = ledger
  BY <1>1, <1>7
<1>9. CASE i < LastFile
  <2>1. i + 1 \in Files /\ \A f \in Files : f < i + 1 => f < i \/ f = i
    BY <1>3, <1>9 DEF Files
  <2> QED
    BY <1>1, <1>2, <1>3, <1>4, <1>5, <1>6, <1>8, <1>9, <2>1, OneStepKeepsHops
       DEF AtWork, Locked, Effects
<1>10. CASE ~(i < LastFile)
  <2>1. \A f \in Files : f < i \/ f = i
    BY <1>3, <1>10 DEF Files
  <2>2. AtWork(p)'
    BY <1>1, <1>2, <1>3, <1>4, <1>5, <1>6, <1>8, <1>10, <2>1 DEF AtWork
  <2> QED
    BY <1>1, <1>2, <1>10, <2>2, OneStepKeepsHops DEF Locked, Effects
<1> QED
  BY <1>9, <1>10

LEMMA AppendHops == ASSUME LockInv, HopInv, NEW p \in Operator, AppendPair(p) PROVE HopInv'
<1> DEFINE i == index[p]
<1>1. /\ stage[p] = "append" /\ AtWork(p) /\ ledger' = Append(ledger, Pair(marker.id)[i])
      /\ UNCHANGED <<files, older, disk, marker>> /\ shown[p] \in Shown
  BY DEF AppendPair, HopInv, Effects
<1>2. /\ shown' = shown /\ \A q \in Proc \ {p} : stage'[q] = stage[q]
      /\ i < PairLength => stage' = stage /\ index'[p] = i + 1
      /\ ~(i < PairLength) => stage'[p] = "sync" /\ index'[p] = 1
  BY StepOnward DEF AppendPair, Effects
<1>3. /\ marker \in Marker /\ ImagesKnown(marker) /\ shown[p].does = "force"
      /\ ledger = Begun(marker, i - 1) /\ i \in 1..PairLength
      /\ \A f \in Files : Installed(p, f)
  BY <1>1 DEF AtWork, Written
<1>4. ledger' = Begun(marker', i)
  <2>1. i - 1 \in 0..PairLength - 1 /\ (i - 1) + 1 = i
    BY <1>3
  <2> QED
    BY <1>1, <1>3, <2>1, BegunNext
<1>5. /\ ImagesKnown(marker)' /\ shown'[p] = shown[p]
      /\ \A f \in Files : Installed(p, f)'
  BY <1>1, <1>2, <1>3 DEF ImagesKnown, Installed, Image
<1>6. Written(p)' = i
  BY <1>1, <1>2, <1>3, <1>5 DEF Written
<1>7. stage'[p] = "append" => index'[p] \in 1..PairLength
  BY <1>2, <1>3
<1>8. stage'[p] \in {"append", "sync"}
  BY <1>1, <1>2
<1>9. AtWork(p)'
  BY <1>1, <1>3, <1>4, <1>5, <1>6, <1>7, <1>8 DEF AtWork
<1>10. \A q \in Proc \ {p} : stage'[q] = stage[q]
  BY <1>2
<1> QED
  BY <1>1, <1>2, <1>8, <1>9, <1>10, OneStepKeepsHops DEF Locked, Effects

\* Whoever ends has nothing in hand any more; the others go on.
LEMMA EndsKeepHops ==
    ASSUME LockInv, HopInv, NEW P \in SUBSET Proc, Ends(P), UNCHANGED dataVars
    PROVE  HopInv'
<1>1. /\ \A q \in Proc \cap P : stage'[q] = "idle"
      /\ \A q \in Proc \ P : stage'[q] = stage[q] /\ index'[q] = index[q]
      /\ \A q \in Operator \ P : shown'[q] = shown[q]
  BY EndsTyped, TypeParts DEF LockInv
<1>2. Quiet
  BY <1>1 DEF Quiet, HopInv, Proc, Effects
<1> QED
  BY <1>2, QuietKeepsHops

\* A process moves to a stage that is not under the locks, or stays in one.
LEMMA QuietMoves ==
    ASSUME LockInv, HopInv, NEW p \in Proc, UNCHANGED dataVars,
           \/ Stays(p) /\ stage[p] \notin Effects
           \/ \E to \in StageOf(p) \ Effects : Goes(p, to),
           stage[p] # "idle" \/ p \in Command
    PROVE  HopInv'
<1>1. /\ shown' = shown
      /\ \A q \in Proc \ {p} : stage'[q] = stage[q] /\ index'[q] = index[q]
      /\ stage'[p] \notin Effects
  BY GoesTyped, StaysTyped, TypeParts DEF LockInv, Goes, Stays
<1>2. p \in Command => p \notin Operator
  OBVIOUS
<1>3. Quiet
  BY <1>1, <1>2 DEF Quiet, HopInv, Proc, Effects
<1> QED
  BY <1>3, QuietKeepsHops

LEMMA UnmarkHops == ASSUME LockInv, HopInv, NEW p \in Operator, Unmark(p) PROVE HopInv'
<1>1. /\ stage[p] = "unmark" /\ stage'[p] = "idle"
      /\ \A q \in Proc \ {p} : stage'[q] = stage[q]
      /\ \A q \in Operator \ {p} : shown'[q] = shown[q]
  BY EndsTyped, TypeParts DEF LockInv, Unmark, Proc
<1> QED
  BY <1>1, OneStepKeepsHops DEF Locked, Effects

LEMMA PreviewHops ==
    ASSUME LockInv, HopInv, NEW p \in Operator, PreviewForce(p) \/ PreviewRecovery(p)
    PROVE  HopInv'
<1>1. PICK what \in Meanings, m \in Marker \cup {None} : Confirms(p, what, m)
  BY TypeParts DEF PreviewForce, PreviewRecovery, DataTyped, Meanings, LockInv
<1>2. /\ UNCHANGED <<dataVars, index>> /\ stage'[p] = "confirmed" /\ shown'[p] \in Shown
      /\ \A q \in Operator \ {p} : stage'[q] = stage[q] /\ shown'[q] = shown[q]
  BY <1>1, TypeParts DEF Confirms, LockInv, StandsTyped, Shown, Proc
<1>3. Quiet
  BY <1>2 DEF Quiet, HopInv, Effects
<1> QED
  BY <1>3, QuietKeepsHops

\* A command writes beside nobody at work, and so does a hand.
LEMMA WritesBesideNobody ==
    ASSUME LockInv,
           \/ \E c \in Command : stage[c] = "inside"
           \/ \A r \in Roots : exclusive[r] = None
    PROVE  \A p \in Operator : stage[p] \notin Locked
<1> SUFFICES ASSUME NEW p \in Operator, stage[p] \in Locked PROVE FALSE
  OBVIOUS
<1>1. \A c \in Command : stage[c] # "inside"
  BY NobodyInside DEF LockInv
<1>2. 1 \in Roots /\ exclusive[1] = p /\ p # None
  BY DEF LockInv, Guarded, Roots
<1> QED
  BY <1>1, <1>2

LEMMA HopsKept == LockInv /\ HopInv /\ [Next]_vars => HopInv'
<1> SUFFICES ASSUME LockInv, HopInv, [Next]_vars PROVE HopInv'
  OBVIOUS
<1>1. CASE UNCHANGED vars
  <2>1. Quiet
    BY <1>1 DEF Quiet, HopInv, vars, dataVars
  <2> QED
    BY <2>1, QuietKeepsHops
<1>2. ASSUME NEW c \in Command, CommandStep(c) PROVE HopInv'
  <2>0. c \in Proc /\ OrdinaryStages \subseteq StageOf(c) \ Effects
    BY DEF Proc, StageOf, OrdinaryStages, Effects
  <2>1. CASE Begin(c) \/ EnterRoot(c)
    <3>1. /\ UNCHANGED dataVars
          /\ \/ Stays(c) /\ stage[c] \notin Effects
             \/ \E to \in StageOf(c) \ Effects : Goes(c, to)
      BY <2>0, <2>1 DEF Begin, EnterRoot, OrdinaryStages, Effects
    <3> QED
      BY <2>0, <3>1, QuietMoves
  <2>2. CASE RefusedAtMarker(c) \/ Leave(c)
    BY <2>0, <2>2, EndsKeepHops DEF RefusedAtMarker, Leave
  <2>3. CASE WriteLine(c) \/ \E f \in Files : WriteFile(c, f)
    <3>1. stage[c] = "inside" /\ UNCHANGED <<stage, shown>>
      BY <2>3 DEF WriteLine, WriteFile
    <3> QED
      BY <3>1, WritesBesideNobody, IdleKeepsHops DEF Locked
  <2> QED
    BY <1>2, <2>1, <2>2, <2>3 DEF CommandStep
<1>3. ASSUME NEW p \in Operator, PreviewForce(p) \/ PreviewRecovery(p) PROVE HopInv'
  BY <1>3, PreviewHops
<1>4. ASSUME NEW p \in Operator, LockRuns(p) \/ TakeGuard(p) PROVE HopInv'
  <2>1. p \in Proc /\ {"guards", "locked"} \subseteq StageOf(p) \ Effects
    BY DEF Proc, StageOf, HopStages, Effects
  <2>2. /\ UNCHANGED dataVars /\ stage[p] # "idle"
        /\ \/ Stays(p) /\ stage[p] \notin Effects
           \/ \E to \in StageOf(p) \ Effects : Goes(p, to)
    BY <1>4, <2>1 DEF LockRuns, TakeGuard, Effects
  <2> QED
    BY <2>1, <2>2, QuietMoves
<1>5. ASSUME NEW p \in Operator, GiveUp(p) PROVE HopInv'
  BY <1>5, EndsKeepHops DEF GiveUp, Proc
<1>6. ASSUME NEW p \in Proc, Stop(p) PROVE HopInv'
  BY <1>6, EndsKeepHops DEF Stop
<1>7. ASSUME NEW f \in Files, Edit(f) PROVE HopInv'
  <2>1. (\A r \in Roots : exclusive[r] = None) /\ UNCHANGED <<stage, shown>>
    BY <1>7 DEF Edit
  <2> QED
    BY <2>1, WritesBesideNobody, IdleKeepsHops DEF Locked
<1>8. CASE PowerLoss
  <2>1. \A p \in Operator : stage'[p] = "idle"
    BY <1>8 DEF PowerLoss, Ends, Proc
  <2> QED
    BY <2>1 DEF HopInv, Effects
<1> QED
  BY <1>1, <1>2, <1>3, <1>4, <1>5, <1>6, <1>7, <1>8, PublishHops, RecheckHops, TruncateHops,
     SyncHops, InstallHops, AppendHops, UnmarkHops
     DEF Next, HopStep, Locking, Replaying

-----------------------------------------------------------------------------
(* The first two layers hold whatever a loss of power leaves.              *)

LEMMA LocksAndHops == Spec => [](LockInv /\ HopInv)
<1>1. Init => LockInv /\ HopInv
  <2> SUFFICES ASSUME Init PROVE LockInv /\ HopInv
    OBVIOUS
  <2>1. \A p \in Proc : stage[p] = "idle"
    BY DEF Init
  <2>2. RecoveryTypeOK
    <3>1. files \in Images /\ older \in [Files -> SUBSET SUBSET (0..MaxWrites)]
      BY DEF Init, Images
    <3>2. ledger \in Seq(Byte) /\ disk \in Seq(Byte) /\ marker \in Marker \cup {None}
      BY EmptySeq DEF Init
    <3>3. GuardsTypeOK
      BY DEF Init, GuardsInit, GuardsTypeOK
    <3>4. stage \in [Proc -> OrdinaryStages \cup HopStages] /\ index \in [Proc -> Nat]
      BY DEF Init, OrdinaryStages
    <3>5. \A p \in Proc : stage[p] \in IF p \in Command THEN OrdinaryStages ELSE HopStages
      BY <2>1 DEF OrdinaryStages, HopStages
    <3>6. /\ shown \in [Operator -> Shown \cup {None}]
          /\ used \in [{"writes", "visits", "previews", "stops", "outages", "edits"} -> Nat]
      BY DEF Init, Bound
    <3> QED
      BY <3>1, <3>2, <3>3, <3>4, <3>5, <3>6 DEF RecoveryTypeOK
  <2>3. Guarded
    BY <2>1 DEF Guarded, Init, GuardsInit, Proc, Locked, Effects
  <2>4. NoCommandBesideAMarker
    BY DEF Init, NoCommandBesideAMarker
  <2>5. HopInv
    BY <2>1 DEF HopInv, Proc, Effects
  <2> QED
    BY <2>2, <2>3, <2>4, <2>5 DEF LockInv
<1>2. LockInv /\ HopInv /\ [Next]_vars => (LockInv /\ HopInv)'
  BY TypeKept, GuardsKept, NobodyBeside, HopsKept DEF LockInv
<1> QED
  BY <1>1, <1>2, PTL DEF Spec

\* Every variable stays within the values the code can give it.
THEOREM RecoveryWellTyped == Spec => []RecoveryTypeOK
<1>1. LockInv => RecoveryTypeOK
  BY DEF LockInv
<1> QED
  BY <1>1, LocksAndHops, PTL

\* No command is at work on a root while a forced move is half done there, and
\* none while an operator works under the guards (RootAccessGuard::acquire).
THEOREM NobodyBesideAMarker == Spec => []NoCommandBesideAMarker
<1>1. LockInv => NoCommandBesideAMarker
  BY DEF LockInv
<1> QED
  BY <1>1, LocksAndHops, PTL

\* A confirmation changes what it was shown and goes the way it was shown,
\* whatever others did between the preview and the locks, to the last file
\* (forced_replay).
THEOREM ReplaysKeepToTheConfirmation == Spec => []ReplaysWhatWasConfirmed
<1>1. LockInv /\ HopInv => ReplaysWhatWasConfirmed
  <2> SUFFICES ASSUME LockInv, HopInv, NEW p \in Operator,
                      stage[p] \in {"truncate", "sync", "install", "unmark"},
                      shown[p].does # "force"
               PROVE  marker = shown[p].marker /\ Decision(marker) = shown[p].does
    BY DEF ReplaysWhatWasConfirmed
  <2>1. /\ AtWork(p) /\ marker \in Marker /\ ImagesKnown(marker) /\ marker = shown[p].marker
        /\ shown[p].does \in {"forward", "rollback"}
    BY DEF HopInv, Effects, AtWork, Shown, Meanings
  <2>2. CASE stage[p] = "truncate"
    <3>1. shown[p].does = "rollback" /\ \E n \in 0..PairLength - 1 : ledger = Begun(marker, n)
      BY <2>1, <2>2 DEF AtWork
    <3>2. PICK n \in 0..PairLength - 1 : ledger = Begun(marker, n)
      BY <3>1
    <3>3. n \in 0..PairLength /\ n # PairLength
      OBVIOUS
    <3> QED
      BY <2>1, <3>1, <3>2, <3>3, LeftIsDecided
  <2>3. CASE stage[p] # "truncate"
    <3>1. ledger = Begun(marker, Written(p))
      BY <2>1, <2>3 DEF AtWork
    <3>2. Written(p) = IF shown[p].does = "rollback" THEN 0 ELSE PairLength
      BY <2>1 DEF Written
    <3> QED
      BY <2>1, <3>1, <3>2, LeftIsDecided
  <2> QED
    BY <2>1, <2>2, <2>3
<1> QED
  BY <1>1, LocksAndHops, PTL

-----------------------------------------------------------------------------
(* What is left of a pending move.                                         *)

LEMMA TypesAtHand ==
    ASSUME RecoveryInv
    PROVE  /\ StandsTyped /\ UsedTyped /\ DataTyped
           /\ used.writes \in Nat /\ used.outages \in Nat
           /\ files \in Images /\ ledger \in Seq(Byte) /\ disk \in Seq(Byte)
           /\ older \in [Files -> SUBSET SUBSET (0..MaxWrites)]
           /\ Len(ledger) \in Nat /\ Len(disk) \in Nat
           /\ marker \in Marker \cup {None}
           /\ LockInv /\ HopInv
           /\ LedgerFits /\ FilesFit /\ DiskFits /\ OlderFits /\ Numbered
<1>1. StandsTyped /\ UsedTyped /\ DataTyped
  BY TypeParts DEF RecoveryInv, LockInv
<1> QED
  BY <1>1, LenProperties DEF RecoveryInv, Fits, DataTyped, UsedTyped

\* A step that leaves the files, the ledger, the disk and the marker.
LEMMA SameDataFits ==
    ASSUME Fits, UNCHANGED dataVars, used'.edits = used.edits, used'.writes = used.writes,
           used'.outages = used.outages
    PROVE  Fits'
<1>1. Base' = Base
  BY DEF Base, dataVars
<1> QED
  BY <1>1 DEF Fits, LedgerFits, FilesFit, DiskFits, OlderFits, Numbered, dataVars, ImagesKnown, Begun

\* The numbers of the writes, and what tells an entry of a pair from a line.
LEMMA BytesOf ==
    ASSUME NEW s \in Seq(Byte)
    PROVE  \A n \in DOMAIN s : s[n] \in Byte /\ s[n][1] \in Int /\ s[n][2] \in Int
<1>1. \A n \in DOMAIN s : s[n] \in Byte
  BY ElementOfSeq, LenProperties
<1>2. \A b \in Byte : b[1] \in Int /\ b[2] \in Int
  BY DEF Byte, Ids
<1> QED
  BY <1>1, <1>2

\* A write of a command or a hand, with the next number.
LEMMA NextWrite ==
    ASSUME RecoveryInv, NEW f \in Files, files' = [files EXCEPT ![f] = @ \cup {used.writes + 1}],
           used'.writes = used.writes + 1, UNCHANGED <<ledger, marker>>
    PROVE  /\ Numbered'
           /\ \A g \in Files : files[g] \subseteq Int /\ used.writes + 1 \notin files[g]
           /\ \A g \in Files : files'[g] = IF g = f THEN files[g] \cup {used.writes + 1} ELSE files[g]
<1>1. /\ used.writes \in Nat /\ files \in Images /\ ledger \in Seq(Byte) /\ Numbered
      /\ marker \in Marker \cup {None}
  BY TypesAtHand
<1>2. \A g \in Files : files'[g] = IF g = f THEN files[g] \cup {used.writes + 1} ELSE files[g]
  BY <1>1 DEF Images
<1>3. \A g \in Files : files[g] \subseteq Int /\ \A i \in files[g] : i <= used.writes
  BY <1>1 DEF Images, Numbered
<1>4. \A g \in Files : used.writes + 1 \notin files[g]
  BY <1>1, <1>3
<1>5. \A g \in Files : \A i \in files'[g] : i <= used'.writes
  BY <1>1, <1>2, <1>3
<1>6. marker = None => \A n \in DOMAIN ledger : ledger[n][1] <= used.writes + 1
  BY <1>1, BytesOf DEF Numbered
<1>7. marker # None => marker.id <= used.writes + 1
  BY <1>1 DEF Numbered, Marker, Ids
<1>8. Numbered'
  BY <1>1, <1>5, <1>6, <1>7 DEF Numbered
<1> QED
  BY <1>2, <1>3, <1>4, <1>8

\* Every earlier forced move has an earlier number than the next write.
LEMMA BaseNumbered ==
    ASSUME RecoveryInv
    PROVE  /\ Base \in Seq(Byte)
           /\ \A n \in DOMAIN Base : Base[n][1] \in Int /\ Base[n][1] <= used.writes
<1>1. /\ ledger \in Seq(Byte) /\ marker \in Marker \cup {None} /\ Numbered /\ used.writes \in Nat
  BY TypesAtHand
<1>2. Base \in Seq(Byte)
  BY <1>1 DEF Base, Marker
<1>3. \A n \in DOMAIN Base : Base[n][1] \in Int
  BY <1>2, BytesOf
<1>4. CASE marker = None
  BY <1>1, <1>2, <1>3, <1>4 DEF Base, Numbered
<1>5. CASE marker # None
  <2>1. marker.id \in Int /\ marker.id <= used.writes /\ Base = marker.prefix
    BY <1>1, <1>5 DEF Numbered, Marker, Ids, Base
  <2>2. \A n \in DOMAIN Base : Base[n][1] < marker.id
    BY <1>1, <1>5, <2>1 DEF Numbered
  <2> QED
    BY <1>1, <1>2, <1>3, <2>1, <2>2
<1> QED
  BY <1>4, <1>5

LEMMA WriteFileFits ==
    ASSUME RecoveryInv, NEW c \in Command, NEW f \in Files, WriteFile(c, f) PROVE Fits'
<1> DEFINE id == used.writes + 1
<1>1. /\ marker = None /\ UNCHANGED <<ledger, disk, marker>>
      /\ files' = [files EXCEPT ![f] = @ \cup {id}]
      /\ older' = [older EXCEPT ![f] = @ \cup {files[f]}]
  BY TypesAtHand DEF WriteFile, LockInv, NoCommandBesideAMarker
<1>2. used'.writes = id /\ used.writes \in Nat
  BY TypesAtHand, SpendTyped DEF WriteFile
<1>3. /\ Numbered' /\ \A g \in Files : files[g] \subseteq Int /\ id \notin files[g]
      /\ \A g \in Files : files'[g] = IF g = f THEN files[g] \cup {id} ELSE files[g]
  BY <1>1, <1>2, NextWrite
<1>4. Base' = Base /\ \A n \in DOMAIN Base : Base[n][1] \in Int /\ Base[n][1] < id
  <2>1. Base' = Base
    BY <1>1 DEF Base
  <2> QED
    BY <1>2, <2>1, BaseNumbered
<1>5. LedgerFits' /\ FilesFit' /\ DiskFits'
  BY <1>1, <1>4, TypesAtHand DEF LedgerFits, FilesFit, DiskFits
<1>6. OlderFits'
  <2> SUFFICES ASSUME NEW g \in Files, NEW v \in older'[g]
               PROVE  /\ v \subseteq files'[g] /\ v # files'[g]
                      /\ \A w \in files'[g] \ v : \A n \in DOMAIN Base : Base[n][2] # 0 => Base[n][1] < w
    BY <1>1, <1>4 DEF OlderFits
  <2> HIDE DEF id
  <2>1. v \in older[g] \/ (g = f /\ v = files[f])
    BY <1>1, TypesAtHand
  <2>2. v \subseteq files[g]
    BY <2>1, TypesAtHand DEF OlderFits
  <2>3. v # files'[g]
    <3>1. CASE g = f
      BY <1>3, <2>2, <3>1
    <3>2. CASE g # f
      BY <1>3, <2>1, <3>2, TypesAtHand DEF OlderFits
    <3> QED
      BY <3>1, <3>2
  <2>4. ASSUME NEW w \in files'[g] \ v, NEW n \in DOMAIN Base, Base[n][2] # 0
        PROVE  Base[n][1] < w
    <3>1. w = id \/ w \in files[g] \ v
      BY <1>3
    <3>2. CASE w = id
      BY <1>4, <3>2
    <3>3. CASE w \in files[g] \ v
      <4>1. v \in older[g]
        BY <2>1, <3>3
      <4> QED
        BY <2>4, <3>3, <4>1, TypesAtHand DEF OlderFits
    <3> QED
      BY <3>1, <3>2, <3>3
  <2> QED
    BY <1>3, <2>2, <2>3, <2>4
<1> QED
  BY <1>3, <1>5, <1>6 DEF Fits

LEMMA WriteLineFits ==
    ASSUME RecoveryInv, NEW c \in Command, WriteLine(c) PROVE Fits'
<1> DEFINE b == <<used.writes + 1, 0>>
<1>1. /\ marker = None /\ UNCHANGED <<files, older, disk, marker>> /\ ledger' = Append(ledger, b)
  BY TypesAtHand DEF WriteLine, LockInv, NoCommandBesideAMarker
<1>2. /\ used'.writes = used.writes + 1 /\ used.writes \in Nat /\ files \in Images
      /\ ledger \in Seq(Byte) /\ disk \in Seq(Byte)
      /\ Len(ledger) \in Nat /\ Len(disk) \in Nat /\ b \in Byte /\ b[2] = 0
  <2>1. used.writes + 1 \in Ids /\ 0 \in 0..PairLength
    BY TypesAtHand, NextId DEF WriteLine
  <2> QED
    BY <2>1, TypesAtHand, SpendTyped DEF WriteLine, Byte
<1>3. /\ Len(ledger') = Len(ledger) + 1
      /\ \A n \in DOMAIN ledger' : ledger'[n] = b \/ (n \in DOMAIN ledger /\ ledger'[n] = ledger[n])
  <2>1. /\ Len(ledger') = Len(ledger) + 1 /\ ledger' \in Seq(Byte)
        /\ \A n \in 1..Len(ledger) : ledger'[n] = ledger[n]
        /\ ledger'[Len(ledger) + 1] = b
    BY <1>1, <1>2, AppendProperties
  <2>2. DOMAIN ledger' = 1..Len(ledger) + 1 /\ DOMAIN ledger = 1..Len(ledger)
    BY <1>2, <2>1, LenProperties
  <2>3. \A n \in 1..Len(ledger) + 1 : n \in 1..Len(ledger) \/ n = Len(ledger) + 1
    BY <1>2
  <2> HIDE DEF b
  <2> QED
    BY <2>1, <2>2, <2>3
<1>4. \A n \in DOMAIN ledger' : ledger'[n][1] <= used'.writes
  <2>1. \A n \in DOMAIN ledger : ledger[n][1] <= used.writes /\ ledger[n][1] \in Int
    BY <1>1, <1>2, BytesOf, TypesAtHand DEF Numbered
  <2>2. b[1] = used.writes + 1
    OBVIOUS
  <2> HIDE DEF b
  <2>3. \A n \in DOMAIN ledger : ledger[n][1] <= used'.writes
    BY <1>2, <2>1
  <2>4. b[1] <= used'.writes
    BY <1>2, <2>2
  <2> QED
    BY <1>3, <2>3, <2>4
<1>5. Numbered'
  <2>1. \A g \in Files : files[g] \subseteq Int /\ \A i \in files[g] : i <= used.writes
    BY <1>2, TypesAtHand DEF Images, Numbered
  <2>2. \A g \in Files : \A i \in files'[g] : i <= used'.writes
    BY <1>1, <1>2, <2>1
  <2> QED
    BY <1>1, <1>4, <2>2 DEF Numbered
<1>6. Base = ledger /\ Base' = ledger'
  BY <1>1 DEF Base
<1>7. \A n \in DOMAIN Base' : Base'[n][2] # 0 => n \in DOMAIN Base /\ Base'[n] = Base[n]
  <2> HIDE DEF b
  <2> QED
    BY <1>2, <1>3, <1>6
<1>8. DiskFits'
  <2>1. disk' = ledger' \/ Len(disk') < Len(ledger')
    BY <1>1, <1>2, <1>3, TypesAtHand DEF DiskFits
  <2>2. \A n \in DOMAIN Base' : Base'[n][2] # 0 => n <= Len(disk')
    BY <1>1, <1>7, TypesAtHand DEF DiskFits
  <2> QED
    BY <1>1, <2>1, <2>2 DEF DiskFits
<1>9. LedgerFits' /\ FilesFit'
  BY <1>1 DEF LedgerFits, FilesFit
<1>10. OlderFits'
  <2> SUFFICES ASSUME NEW g \in Files, NEW v \in older[g]
               PROVE  /\ v \subseteq files[g] /\ v # files[g]
                      /\ \A w \in files[g] \ v : \A n \in DOMAIN Base' :
                            Base'[n][2] # 0 => Base'[n][1] < w
    BY <1>1 DEF OlderFits
  <2> QED
    BY <1>7, TypesAtHand DEF OlderFits
<1> QED
  BY <1>5, <1>8, <1>9, <1>10 DEF Fits

LEMMA EditFits == ASSUME RecoveryInv, NEW f \in Files, Edit(f) PROVE Fits'
<1>1. /\ UNCHANGED <<ledger, disk, marker>>
      /\ files' = [files EXCEPT ![f] = @ \cup {used.writes + 1}]
      /\ older' = [older EXCEPT ![f] = {}]
      /\ used' = [used EXCEPT !.writes = @ + 1, !.edits = @ + 1]
  BY DEF Edit
<1>2. used'.writes = used.writes + 1 /\ used'.edits # 0 /\ used'.outages = used.outages
  BY <1>1, TypesAtHand DEF UsedTyped
<1>3. /\ Numbered'
      /\ \A g \in Files : files'[g] = IF g = f THEN files[g] \cup {used.writes + 1} ELSE files[g]
  BY <1>1, <1>2, NextWrite
<1>4. Base' = Base
  BY <1>1 DEF Base
<1>5. LedgerFits'
  BY <1>1, <1>2, TypesAtHand DEF LedgerFits, Begun
<1>6. FilesFit'
  BY <1>2 DEF FilesFit
<1>7. DiskFits'
  BY <1>1, <1>4, TypesAtHand DEF DiskFits, Begun
<1>8. OlderFits'
  <2>1. ASSUME NEW g \in Files, NEW v \in older'[g]
        PROVE  g # f /\ v \in older[g] /\ files'[g] = files[g]
    BY <1>1, <1>3, <2>1, TypesAtHand
  <2> QED
    BY <1>1, <1>4, <2>1, TypesAtHand DEF OlderFits
<1> QED
  BY <1>3, <1>5, <1>6, <1>7, <1>8 DEF Fits

LEMMA PublishFits == ASSUME RecoveryInv, NEW p \in Operator, Publish(p) PROVE Fits'
<1> DEFINE id == used.writes + 1
<1>1. /\ marker = None /\ UNCHANGED <<files, older, ledger, disk>>
      /\ marker' = [id |-> id, before |-> ImagesNow(id).before,
                    after |-> ImagesNow(id).after, prefix |-> ledger]
  BY DEF Publish
<1>2. /\ used'.writes = id /\ used.writes \in Nat /\ files \in Images /\ id \in Ids
      /\ ledger \in Seq(Byte) /\ disk \in Seq(Byte)
  BY TypesAtHand, NextId, SpendTyped DEF Publish
<1>3. marker' \in Marker /\ marker' # None
  BY <1>1, <1>2, MarkerTyped
<1>4. ledger' = Begun(marker', 0) /\ 0 \in 0..PairLength /\ 0 # PairLength
  BY <1>1, <1>3, BegunNone
<1>5. ImagesKnown(marker)' /\ marker'.id = id /\ marker'.prefix = ledger
      /\ marker'.before = files /\ \A f \in Files : marker'.after[f] = files[f] \cup {id}
  BY <1>1 DEF ImagesKnown, ImagesNow
<1>6. Base = ledger /\ Base' = ledger
  BY <1>1, <1>3, <1>5 DEF Base
<1>7. LedgerFits' /\ FilesFit'
  BY <1>3, <1>4, <1>5 DEF LedgerFits, FilesFit
<1>8. DiskFits'
  BY <1>1, <1>2, <1>3, <1>4, <1>5, <1>6, TypesAtHand DEF DiskFits
<1>9. OlderFits'
  BY <1>1, <1>3, <1>5, <1>6, TypesAtHand DEF OlderFits
<1>10. \A f \in Files : \A i \in files[f] : i < id /\ i <= id
  BY <1>2, TypesAtHand DEF Numbered, Images
<1>11. \A n \in DOMAIN ledger : ledger[n][1] < id
  BY <1>1, <1>2, BytesOf, TypesAtHand DEF Numbered
<1>12. Numbered'
  BY <1>1, <1>2, <1>3, <1>5, <1>10, <1>11 DEF Numbered
<1> QED
  BY <1>7, <1>8, <1>9, <1>12 DEF Fits

\* Two parts of the pair are told apart by their length.
LEMMA BegunDiffer ==
    ASSUME NEW m \in Marker, NEW n \in 0..PairLength, NEW k \in 0..PairLength,
           Begun(m, n) = Begun(m, k)
    PROVE  n = k
<1>1. Len(m.prefix) \in Nat /\ Len(Begun(m, n)) = Len(m.prefix) + n
  BY BegunBytes
<1>2. Len(Begun(m, k)) = Len(m.prefix) + k
  BY BegunBytes
<1> QED
  BY <1>1, <1>2

\* A cut in the prefix leaves nothing of the pair.
LEMMA PrefixCut ==
    ASSUME NEW m \in Marker, NEW n \in 0..PairLength, NEW k \in 0..Len(m.prefix)
    PROVE  /\ SubSeq(Begun(m, n), 1, k) = SubSeq(m.prefix, 1, k)
           /\ SubSeq(m.prefix, 1, k) \in Seq(Byte) /\ Len(SubSeq(m.prefix, 1, k)) = k
<1> DEFINE s == Begun(m, n)
           t == m.prefix
           a == SubSeq(s, 1, k)
           b == SubSeq(t, 1, k)
<1>1. /\ s \in Seq(Byte) /\ t \in Seq(Byte) /\ Len(s) = Len(t) + n /\ Len(t) \in Nat
      /\ \A i \in 1..Len(t) : s[i] = t[i]
  BY BegunBytes
<1>2. k \in 0..Len(t)
  OBVIOUS
<1> HIDE DEF s, t
<1>3. k \in Nat /\ k <= Len(t) /\ k <= Len(s)
  BY <1>1, <1>2
<1>4. (\A i \in 1..k : s[i] \in Byte) /\ \A i \in 1..k : t[i] \in Byte
  <2>1. \A i \in 1..k : i \in 1..Len(s) /\ i \in 1..Len(t)
    BY <1>1, <1>3
  <2> QED
    BY <1>1, <2>1, ElementOfSeq
<1>5. a \in Seq(Byte) /\ Len(a) = k /\ \A i \in 1..k : a[i] = s[i]
  BY <1>1, <1>3, <1>4, SubSeqProperties
<1>6. b \in Seq(Byte) /\ Len(b) = k /\ \A i \in 1..k : b[i] = t[i]
  BY <1>1, <1>3, <1>4, SubSeqProperties
<1> HIDE DEF a, b
<1>7. a = b
  <2>1. ASSUME NEW i \in 1..k PROVE a[i] = b[i]
    <3>1. i \in 1..Len(t)
      BY <1>1, <1>3
    <3>2. s[i] = t[i]
      BY <1>1, <3>1
    <3> QED
      BY <1>5, <1>6, <3>2
  <2> QED
    BY <1>5, <1>6, <2>1, SeqEqual
<1> QED
  BY <1>6, <1>7 DEF a, b, s, t

\* The writes under a marker are those before it and its own.
LEMMA PendingNumbered ==
    ASSUME RecoveryInv, marker \in Marker, UNCHANGED marker, used'.writes = used.writes,
           \A f \in Files : files'[f] \subseteq files[f] \cup marker.after[f]
    PROVE  Numbered'
<1>1. marker # None /\ Numbered /\ used.writes \in Nat /\ marker.id \in Nat
  BY TypesAtHand DEF Marker, Ids
<1>2. \A f \in Files : \A i \in files'[f] : i <= used.writes
  <2> SUFFICES ASSUME NEW f \in Files, NEW i \in files'[f] PROVE i <= used.writes
    OBVIOUS
  <2>1. i \in files[f] \/ i \in marker.before[f] \cup {marker.id}
    BY <1>1 DEF Numbered
  <2>2. i \in Int /\ (i \in marker.before[f] => i < marker.id) /\ marker.id <= used.writes
    BY <1>1, <2>1, TypesAtHand DEF Numbered, Marker, Images, Ids
  <2> QED
    BY <1>1, <2>1, <2>2 DEF Numbered
<1> QED
  BY <1>1, <1>2 DEF Numbered

\* A step under the marker that leaves n bytes of the pair in the ledger and,
\* with the whole prefix, k of them on the disk.
LEMMA PendingFits ==
    ASSUME RecoveryInv, marker \in Marker, UNCHANGED marker,
           FilesFit', OlderFits', Numbered',
           NEW n \in 0..PairLength, ledger' = Begun(marker, n),
           \/ Len(disk') < Len(marker.prefix)
           \/ \E k \in 0..PairLength : disk' = Begun(marker, k) /\ (k = PairLength => n = PairLength),
           \A i \in DOMAIN marker.prefix : marker.prefix[i][2] # 0 => i <= Len(disk')
    PROVE  Fits'
<1>1. marker # None /\ Base' = marker.prefix
  BY DEF Base
<1>2. LedgerFits'
  BY <1>1 DEF LedgerFits, Begun
<1>3. DiskFits'
  BY <1>1 DEF DiskFits, Begun
<1> QED
  BY <1>2, <1>3 DEF Fits

\* What is on the disk before such a step.
LEMMA PendingDisk ==
    ASSUME RecoveryInv, marker \in Marker, NEW n \in 0..PairLength, ledger = Begun(marker, n)
    PROVE  /\ \/ Len(disk) < Len(marker.prefix)
              \/ \E k \in 0..PairLength : disk = Begun(marker, k) /\ (k = PairLength => n = PairLength)
           /\ \A i \in DOMAIN marker.prefix : marker.prefix[i][2] # 0 => i <= Len(disk)
<1>1. marker # None /\ Base = marker.prefix /\ DiskFits
  BY TypesAtHand DEF Base
<1>2. ASSUME NEW k \in 0..PairLength, disk = Begun(marker, k), k = PairLength => ledger = disk
      PROVE  k = PairLength => n = PairLength
  BY <1>2, BegunDiffer
<1> QED
  BY <1>1, <1>2 DEF DiskFits

\* With any part of the pair on it the disk has the prefix.
LEMMA PrefixOnDisk ==
    ASSUME NEW m \in Marker, NEW n \in 0..PairLength
    PROVE  \A i \in DOMAIN m.prefix : i <= Len(Begun(m, n))
<1>1. m.prefix \in Seq(Byte) /\ Len(m.prefix) \in Nat /\ Len(Begun(m, n)) = Len(m.prefix) + n
  BY BegunBytes
<1>2. DOMAIN m.prefix = 1..Len(m.prefix)
  BY <1>1, LenProperties
<1> QED
  BY <1>1, <1>2

\* A step that replaces files by what the marker has for them.
LEMMA InstallsFit ==
    ASSUME RecoveryInv, marker \in Marker, UNCHANGED marker, used'.writes = used.writes,
           ImagesKnown(marker)',
           \A f \in Files :
             \/ files'[f] = files[f] /\ older'[f] = older[f]
             \/ files'[f] \in {marker.before[f], marker.after[f]} /\ older'[f] = {},
           \/ ledger' = ledger \/ ledger' = marker.prefix
           \/ \A f \in Files : older[f] = {}
    PROVE  FilesFit' /\ OlderFits' /\ Numbered'
<1>1. marker # None /\ Base' = Base
  BY DEF Base
<1>2. FilesFit'
  BY <1>1 DEF FilesFit
<1>3. ASSUME NEW f \in Files, NEW v \in older'[f]
      PROVE  files'[f] = files[f] /\ v \in older[f] /\ (ledger' = ledger \/ ledger' = marker.prefix)
  BY <1>3
<1>4. OlderFits'
  BY <1>1, <1>3, TypesAtHand DEF OlderFits
<1>5. \A f \in Files : files'[f] \subseteq files[f] \cup marker.after[f]
  BY <1>1, TypesAtHand DEF Numbered
<1> QED
  BY <1>2, <1>4, <1>5, PendingNumbered

LEMMA ReplayFits ==
    ASSUME RecoveryInv, NEW p \in Operator,
           Truncate(p) \/ SyncLedger(p) \/ InstallImage(p) \/ AppendPair(p)
    PROVE  Fits'
<1>1. /\ stage[p] \in Effects /\ AtWork(p) /\ shown[p] \in Shown /\ marker \in Marker
      /\ ImagesKnown(marker) /\ UNCHANGED <<marker, used>>
  BY TypesAtHand DEF Truncate, SyncLedger, InstallImage, AppendPair, Effects, HopInv, AtWork
<1>2. stage[p] # "truncate" => ledger = Begun(marker, Written(p)) /\ Written(p) \in 0..PairLength
  <2>1. shown[p].does \in Meanings /\ (stage[p] = "append" => index[p] \in 1..PairLength)
    BY <1>1 DEF Shown, AtWork
  <2>2. Written(p) \in 0..PairLength
    BY <2>1 DEF Written, Meanings
  <2> QED
    BY <1>1, <2>2 DEF AtWork
<1>3. UNCHANGED files => ImagesKnown(marker)'
  BY <1>1 DEF ImagesKnown
<1>4. CASE Truncate(p)
  <2>1. /\ ledger' = Begun(marker, 0) /\ UNCHANGED <<files, older, disk>> /\ 0 \in 0..PairLength
        /\ ledger' = marker.prefix
        /\ \E n \in 0..PairLength - 1 : ledger = Begun(marker, n)
    BY <1>1, <1>4, BegunNone DEF Truncate, AtWork
  <2>2. PICK n \in 0..PairLength - 1 : ledger = Begun(marker, n)
    BY <2>1
  <2>3. n \in 0..PairLength /\ n # PairLength
    OBVIOUS
  <2>4. /\ \/ Len(disk') < Len(marker.prefix)
           \/ \E k \in 0..PairLength : disk' = Begun(marker, k) /\ (k = PairLength => 0 = PairLength)
        /\ \A i \in DOMAIN marker.prefix : marker.prefix[i][2] # 0 => i <= Len(disk')
    BY <1>1, <2>1, <2>2, <2>3, PendingDisk
  <2>5. FilesFit' /\ OlderFits' /\ Numbered'
    BY <1>1, <1>3, <2>1, InstallsFit
  <2> QED
    BY <1>1, <2>1, <2>4, <2>5, PendingFits
<1>5. CASE SyncLedger(p)
  <2>1. /\ ledger = Begun(marker, Written(p)) /\ Written(p) \in 0..PairLength
        /\ disk' = ledger /\ UNCHANGED <<files, older, ledger>>
    BY <1>2, <1>5 DEF SyncLedger
  <2>2. \A i \in DOMAIN marker.prefix : marker.prefix[i][2] # 0 => i <= Len(disk')
    BY <1>1, <2>1, PrefixOnDisk
  <2>3. FilesFit' /\ OlderFits' /\ Numbered'
    BY <1>1, <1>3, <2>1, InstallsFit
  <2> QED
    BY <1>1, <2>1, <2>2, <2>3, PendingFits
<1>6. CASE InstallImage(p)
  <2>1. /\ UNCHANGED <<ledger, disk>> /\ index[p] \in Files
        /\ ledger = Begun(marker, Written(p)) /\ Written(p) \in 0..PairLength
        /\ files' = [files EXCEPT ![index[p]] = Image(p)[index[p]]]
        /\ older' = [older EXCEPT ![index[p]] = {}]
    BY <1>1, <1>2, <1>6, TypesAtHand DEF InstallImage, AtWork
  <2>2. \A f \in Files :
          \/ files'[f] = files[f] /\ older'[f] = older[f]
          \/ files'[f] \in {marker.before[f], marker.after[f]} /\ older'[f] = {}
    <3>1. files \in Images /\ older \in [Files -> SUBSET SUBSET (0..MaxWrites)]
      BY TypesAtHand
    <3>2. \A f \in Files : /\ files'[f] = IF f = index[p] THEN Image(p)[f] ELSE files[f]
                           /\ older'[f] = IF f = index[p] THEN {} ELSE older[f]
      BY <2>1, <3>1 DEF Images
    <3> QED
      BY <3>2 DEF Image
  <2>3. ImagesKnown(marker)'
    BY <1>1, <2>2 DEF ImagesKnown
  <2>4. FilesFit' /\ OlderFits' /\ Numbered'
    BY <1>1, <2>1, <2>2, <2>3, InstallsFit
  <2>5. /\ \/ Len(disk') < Len(marker.prefix)
           \/ \E k \in 0..PairLength :
                disk' = Begun(marker, k) /\ (k = PairLength => Written(p) = PairLength)
        /\ \A i \in DOMAIN marker.prefix : marker.prefix[i][2] # 0 => i <= Len(disk')
    BY <1>1, <2>1, PendingDisk
  <2> QED
    BY <1>1, <2>1, <2>4, <2>5, PendingFits
<1>7. CASE AppendPair(p)
  <2>1. /\ stage[p] = "append" /\ shown[p].does = "force" /\ index[p] \in 1..PairLength
        /\ UNCHANGED <<files, older, disk>> /\ ledger' = Append(ledger, Pair(marker.id)[index[p]])
        /\ \A f \in Files : older[f] = {}
    BY <1>1, <1>7 DEF AppendPair, AtWork, Installed
  <2>2. ledger = Begun(marker, index[p] - 1)
    BY <1>2, <2>1 DEF Written
  <2>3. /\ index[p] - 1 \in 0..PairLength - 1 /\ (index[p] - 1) + 1 = index[p]
        /\ index[p] - 1 \in 0..PairLength /\ index[p] \in 0..PairLength
        /\ index[p] - 1 # PairLength
    BY <2>1
  <2>4. ledger' = Begun(marker, index[p])
    BY <1>1, <2>1, <2>2, <2>3, BegunNext
  <2>5. /\ \/ Len(disk') < Len(marker.prefix)
           \/ \E k \in 0..PairLength :
                disk' = Begun(marker, k) /\ (k = PairLength => index[p] = PairLength)
        /\ \A i \in DOMAIN marker.prefix : marker.prefix[i][2] # 0 => i <= Len(disk')
    BY <1>1, <2>1, <2>2, <2>3, PendingDisk
  <2>6. FilesFit' /\ OlderFits' /\ Numbered'
    BY <1>1, <1>3, <2>1, InstallsFit
  <2> QED
    BY <1>1, <2>3, <2>4, <2>5, <2>6, PendingFits
<1> QED
  BY <1>4, <1>5, <1>6, <1>7

\* The bytes of a marker's ledger have the numbers of earlier writes or its own.
LEMMA BegunNumbered ==
    ASSUME RecoveryInv, marker \in Marker, NEW n \in 0..PairLength
    PROVE  \A i \in DOMAIN Begun(marker, n) : Begun(marker, n)[i][1] <= used.writes
<1>1. marker # None /\ Numbered /\ used.writes \in Nat
  BY TypesAtHand
<1> DEFINE s == Begun(marker, n)
<1>2. /\ s \in Seq(Byte) /\ Len(s) = Len(marker.prefix) + n /\ Len(marker.prefix) \in Nat
      /\ marker.prefix \in Seq(Byte) /\ marker.id \in Ids
      /\ \A i \in 1..Len(marker.prefix) : s[i] = marker.prefix[i]
      /\ \A k \in 1..n : s[Len(marker.prefix) + k] = <<marker.id, k>>
  BY BegunBytes
<1> HIDE DEF s
<1> SUFFICES ASSUME NEW i \in DOMAIN s PROVE s[i][1] <= used.writes
  BY DEF s
<1>3. i \in 1..Len(marker.prefix) + n
  BY <1>2, LenProperties
<1>4. CASE i <= Len(marker.prefix)
  <2>1. i \in DOMAIN marker.prefix /\ marker.prefix[i] \in Byte /\ s[i] = marker.prefix[i]
    BY <1>2, <1>3, <1>4, LenProperties, ElementOfSeq
  <2>2. marker.prefix[i][1] < marker.id /\ marker.id <= used.writes /\ marker.id \in Int
    BY <1>1, <1>2, <2>1 DEF Numbered, Ids
  <2>3. marker.prefix[i][1] \in Int
    BY <2>1 DEF Byte, Ids
  <2> QED
    BY <1>1, <2>1, <2>2, <2>3
<1>5. CASE i > Len(marker.prefix)
  <2>1. i - Len(marker.prefix) \in 1..n /\ i = Len(marker.prefix) + (i - Len(marker.prefix))
    <3>1. Len(marker.prefix) \in Nat
      BY <1>2
    <3> QED
      BY <1>3, <1>5, <3>1
  <2>2. s[i][1] = marker.id
    <3> DEFINE k == i - Len(marker.prefix)
    <3>1. s[Len(marker.prefix) + k] = <<marker.id, k>>
      BY <1>2, <2>1
    <3>2. s[i] = <<marker.id, k>>
      BY <2>1, <3>1
    <3> QED
      BY <3>2
  <2> QED
    BY <1>1, <2>2 DEF Numbered
<1> QED
  BY <1>2, <1>3, <1>4, <1>5

LEMMA UnmarkFits == ASSUME RecoveryInv, NEW p \in Operator, Unmark(p) PROVE Fits'
<1>1. /\ stage[p] = "unmark" /\ AtWork(p) /\ shown[p] \in Shown /\ marker \in Marker
      /\ UNCHANGED <<files, older, ledger, disk, used>> /\ marker' = None /\ disk = ledger
      /\ \A f \in Files : older[f] = {}
  BY TypesAtHand DEF Unmark, Effects, HopInv, AtWork, Installed
<1>2. Written(p) \in 0..PairLength /\ ledger = Begun(marker, Written(p))
  BY <1>1 DEF AtWork, Written, Shown, Meanings
<1>3. \A i \in DOMAIN ledger : ledger[i][1] <= used.writes
  BY <1>1, <1>2, BegunNumbered
<1>4. \A i \in DOMAIN ledger : i <= Len(disk)
  BY <1>1, TypesAtHand, LenProperties
<1>5. DiskFits'
  BY <1>1, <1>4 DEF DiskFits, Base
<1> QED
  BY <1>1, <1>3, <1>5, TypesAtHand DEF Fits, LedgerFits, FilesFit, OlderFits, Numbered

\* What a loss of power takes from a file was not on the disk.
LEMMA FilesLost ==
    ASSUME RecoveryInv, PowerLoss
    PROVE  /\ \A f \in Files : files'[f] = files[f] \/ files'[f] \in older[f]
           /\ \A f \in Files : files'[f] \subseteq files[f] /\ older'[f] = {}
           /\ UNCHANGED marker /\ used'.writes = used.writes /\ used'.edits = used.edits
           /\ used'.outages = used.outages + 1 /\ used'.outages > 0
<1>1. \A f \in Files : files'[f] = files[f] \/ files'[f] \in older[f]
  BY DEF PowerLoss
<1>2. \A f \in Files : files'[f] \subseteq files[f] /\ older'[f] = {}
  BY <1>1, TypesAtHand DEF PowerLoss, OlderFits
<1> QED
  BY <1>1, <1>2, TypesAtHand, SpendTyped DEF PowerLoss

\* Where no move is pending it takes the end of the ledger.
LEMMA LinesLost ==
    ASSUME RecoveryInv, PowerLoss, marker = None
    PROVE  \E n \in 0..Len(ledger) :
             /\ Len(disk) <= n /\ ledger' = SubSeq(ledger, 1, n) /\ disk' = ledger'
             /\ ledger' \in Seq(Byte) /\ Len(ledger') = n /\ \A i \in 1..n : ledger'[i] = ledger[i]
<1>1. PICK found \in Survivors : ledger' = found /\ disk' = found
  BY DEF PowerLoss
<1>2. /\ DataTyped /\ Len(ledger) \in Nat /\ Len(disk) \in Nat /\ ledger \in Seq(Byte)
      /\ Len(disk) <= Len(ledger)
  BY TypesAtHand DEF DiskFits
<1>3. PICK n \in 0..Len(ledger) : found = SubSeq(ledger, 1, n) /\ Len(disk) <= n
  BY <1>2, SurvivorsTyped
<1>4. \A i \in 1..n : ledger[i] \in Byte
  BY <1>2, ElementOfSeq
<1>5. found \in Seq(Byte) /\ Len(found) = n /\ \A i \in 1..n : found[i] = ledger[i]
  BY <1>2, <1>3, <1>4, SubSeqProperties
<1> QED
  BY <1>1, <1>3, <1>5

\* Under a marker it may take a part of the pair, or a part of the prefix; once
\* that is lost, or the whole pair is on the disk, it takes nothing more.
LEMMA PendingLost ==
    ASSUME RecoveryInv, PowerLoss, marker \in Marker
    PROVE  /\ disk' = ledger'
           /\ \/ Len(ledger) < Len(marker.prefix) /\ ledger' = ledger
              \/ \E l \in 0..PairLength, i \in 0..PairLength :
                   /\ ledger = Begun(marker, l) /\ ledger' = Begun(marker, i)
                   /\ i = PairLength => l = PairLength
                   /\ disk = Begun(marker, PairLength) => i = PairLength
              \/ \E l \in 0..PairLength, n \in 0..Len(marker.prefix) :
                   /\ ledger = Begun(marker, l) /\ Len(disk) <= n /\ n < Len(marker.prefix)
                   /\ ledger' = SubSeq(marker.prefix, 1, n) /\ Len(ledger') = n
<1>1. PICK found \in Survivors : ledger' = found /\ disk' = found
  BY DEF PowerLoss
<1>2. /\ DataTyped /\ marker # None /\ LedgerFits /\ DiskFits /\ Len(marker.prefix) \in Nat
      /\ Len(ledger) \in Nat /\ Len(disk) \in Nat /\ ledger \in Seq(Byte) /\ disk \in Seq(Byte)
  BY TypesAtHand, BegunBytes
<1>a. PICK longer \in {ledger, disk} :
        \E n \in 0..Len(longer) :
          /\ found = SubSeq(longer, 1, n)
          /\ Len(disk) <= Len(ledger) => longer = ledger /\ Len(disk) <= n
          /\ Len(ledger) < Len(disk) => longer = disk /\ Len(ledger) <= n
  BY <1>2, SurvivorsTyped
<1>3. PICK n \in 0..Len(longer) :
        /\ found = SubSeq(longer, 1, n)
        /\ Len(disk) <= Len(ledger) => longer = ledger /\ Len(disk) <= n
        /\ Len(ledger) < Len(disk) => longer = disk /\ Len(ledger) <= n
  BY <1>a
<1>4. CASE Len(ledger) < Len(marker.prefix)
  <2>1. ASSUME NEW k \in 0..PairLength PROVE ledger # Begun(marker, k)
    <3>1. Len(Begun(marker, k)) = Len(marker.prefix) + k
      BY BegunBytes
    <3>2. ~(Len(marker.prefix) + k < Len(marker.prefix))
      BY <1>2
    <3> QED
      BY <1>4, <3>1, <3>2
  <2>2. disk = ledger
    BY <1>2, <2>1 DEF LedgerFits
  <2>3. longer = ledger /\ n = Len(ledger)
    BY <1>2, <1>3, <2>2
  <2>4. found = ledger
    BY <1>2, <1>3, <2>3, SubSeqFull
  <2> QED
    BY <1>1, <1>4, <2>4
<1>5. CASE ~(Len(ledger) < Len(marker.prefix))
  <2>1. PICK l \in 0..PairLength : ledger = Begun(marker, l)
    BY <1>2, <1>5 DEF LedgerFits
  <2>2. Len(ledger) = Len(marker.prefix) + l
    BY <2>1, BegunBytes
  <2>3. CASE n < Len(marker.prefix)
    <3>1. longer = ledger /\ Len(disk) <= n /\ n \in 0..Len(marker.prefix)
      BY <1>2, <1>3, <2>2, <2>3
    <3>2. found = SubSeq(marker.prefix, 1, n) /\ Len(found) = n
      BY <1>3, <2>1, <3>1, PrefixCut
    <3> QED
      BY <1>1, <2>1, <2>3, <3>1, <3>2
  <2>4. CASE ~(n < Len(marker.prefix))
    <3>1. PICK j \in 0..PairLength : longer = Begun(marker, j) /\ (j = PairLength => l = PairLength)
      <4>1. CASE longer = ledger
        BY <2>1, <4>1
      <4>2. CASE longer # ledger
        <5>1. longer = disk /\ ~(Len(disk) < Len(marker.prefix))
          BY <1>2, <1>3, <2>2, <4>2
        <5> QED
          BY <1>2, <2>1, <5>1, PendingDisk
      <4> QED
        BY <4>1, <4>2
    <3>2. Len(longer) = Len(marker.prefix) + j
      BY <3>1, BegunBytes
    <3>3. PICK i \in 0..j : n = Len(marker.prefix) + i
      <4>1. n - Len(marker.prefix) \in 0..j /\ n = Len(marker.prefix) + (n - Len(marker.prefix))
        BY <1>2, <1>3, <2>4, <3>2
      <4> QED
        BY <4>1
    <3>4. found = Begun(marker, i) /\ i \in 0..PairLength
      <4>1. found = SubSeq(Begun(marker, j), 1, Len(marker.prefix) + i)
        BY <1>3, <3>1, <3>3
      <4>2. i \in 0..PairLength /\ i \in 0..j
        OBVIOUS
      <4> QED
        BY <4>1, <4>2, BegunCut
    <3>5. i = PairLength => l = PairLength
      BY <3>1
    <3>6. ASSUME disk = Begun(marker, PairLength)
          PROVE  i = PairLength
      <4>1. Len(disk) = Len(marker.prefix) + PairLength
        BY <3>6, BegunBytes
      <4>2. PairLength \in 0..PairLength /\ ~(Len(disk) < Len(marker.prefix))
        BY <1>2, <4>1
      <4>3. PICK k \in 0..PairLength : disk = Begun(marker, k) /\ (k = PairLength => l = PairLength)
        BY <2>1, <4>2, PendingDisk
      <4>4. l = PairLength
        BY <3>6, <4>2, <4>3, BegunDiffer
      <4>5. Len(disk) <= n
        BY <1>2, <1>3, <2>2, <4>1, <4>4
      <4> QED
        BY <1>2, <3>3, <4>1, <4>5
    <3> QED
      BY <1>1, <2>1, <3>4, <3>5, <3>6
  <2> QED
    BY <2>3, <2>4
<1> QED
  BY <1>1, <1>4, <1>5

LEMMA PowerLossFits == ASSUME RecoveryInv, PowerLoss PROVE Fits'
<1>1. /\ \A f \in Files : files'[f] = files[f] \/ files'[f] \in older[f]
      /\ \A f \in Files : files'[f] \subseteq files[f] /\ older'[f] = {}
      /\ UNCHANGED marker /\ used'.writes = used.writes /\ used'.edits = used.edits
      /\ used'.outages > 0
  BY FilesLost
<1>2. OlderFits'
  BY <1>1 DEF OlderFits
<1>3. FilesFit'
  <2> SUFFICES ASSUME marker # None, used.edits = 0
               PROVE  \/ ImagesKnown(marker)'
                      \/ \E f \in Files : ~(marker.before[f] \subseteq files'[f])
    BY <1>1 DEF FilesFit
  <2>1. CASE \A f \in Files : files'[f] = files[f]
    BY <1>1, <2>1, TypesAtHand DEF FilesFit, ImagesKnown
  <2>2. CASE \E f \in Files : files'[f] # files[f]
    <3>1. PICK f \in Files : files'[f] # files[f]
      BY <2>2
    <3>2. files[f] = marker.before[f] /\ files'[f] \subseteq files[f]
      BY <1>1, <3>1, TypesAtHand DEF OlderFits
    <3> QED
      BY <3>1, <3>2
  <2> QED
    BY <2>1, <2>2
<1>4. CASE marker = None
  <2>1. PICK n \in 0..Len(ledger) :
          /\ disk' = ledger' /\ ledger' \in Seq(Byte) /\ Len(ledger') = n
          /\ \A i \in 1..n : ledger'[i] = ledger[i]
    BY <1>4, LinesLost
  <2>2. \A i \in DOMAIN ledger' : i \in DOMAIN ledger /\ ledger'[i] = ledger[i] /\ i <= Len(disk')
    <3>1. DOMAIN ledger' = 1..n /\ DOMAIN ledger = 1..Len(ledger) /\ Len(ledger) \in Nat
      BY <2>1, TypesAtHand, LenProperties
    <3> QED
      BY <2>1, <3>1
  <2>3. DiskFits'
    BY <1>1, <1>4, <2>1, <2>2 DEF DiskFits, Base
  <2>4. Numbered'
    BY <1>1, <1>4, <2>2, TypesAtHand DEF Numbered
  <2>5. LedgerFits'
    BY <1>1, <1>4 DEF LedgerFits
  <2> QED
    BY <1>2, <1>3, <2>3, <2>4, <2>5 DEF Fits
<1>5. CASE marker # None
  <2>1. marker \in Marker /\ Len(marker.prefix) \in Nat /\ Base = marker.prefix /\ Base' = Base
    BY <1>1, <1>5, TypesAtHand, BegunBytes DEF Base
  <2>2. Numbered'
    BY <1>1, <2>1, PendingNumbered
  <2>3. CASE Len(ledger) < Len(marker.prefix) /\ ledger' = ledger
    <3>1. \A k \in 0..PairLength : ledger # Begun(marker, k)
      BY <2>1, <2>3, TypesAtHand, BegunBytes
    <3>2. ledger = SubSeq(marker.prefix, 1, Len(ledger)) /\ disk = ledger /\ disk' = ledger'
      BY <1>5, <2>1, <3>1, TypesAtHand, PendingLost DEF LedgerFits
    <3>3. LedgerFits'
      BY <1>1, <2>3, <3>2 DEF LedgerFits
    <3>4. DiskFits'
      BY <1>1, <1>5, <2>1, <2>3, <3>2, TypesAtHand DEF DiskFits
    <3> QED
      BY <1>2, <1>3, <2>2, <3>3, <3>4 DEF Fits
  <2>4. ASSUME NEW i \in 0..PairLength, ledger' = Begun(marker, i)
        PROVE  Fits'
    <3>1. disk' = Begun(marker, i)
      BY <2>1, <2>4, PendingLost
    <3>2. \A n \in DOMAIN marker.prefix : n <= Len(disk')
      BY <2>1, <3>1, PrefixOnDisk
    <3> QED
      BY <1>1, <1>2, <1>3, <2>1, <2>2, <2>4, <3>1, <3>2, PendingFits
  <2>5. ASSUME NEW n \in 0..Len(marker.prefix), Len(disk) <= n, n < Len(marker.prefix),
               ledger' = SubSeq(marker.prefix, 1, n), Len(ledger') = n
        PROVE  Fits'
    <3>1. disk' = ledger'
      BY <2>1, PendingLost
    <3>2. LedgerFits'
      BY <1>1, <2>5, <3>1 DEF LedgerFits
    <3>3. \A k \in DOMAIN Base : Base[k][2] # 0 => k <= n
      <4>1. \A k \in DOMAIN Base : k \in Int
        BY <2>1, LenProperties DEF Marker
      <4>2. Len(disk) \in Nat /\ \A k \in DOMAIN Base : Base[k][2] # 0 => k <= Len(disk)
        BY TypesAtHand DEF DiskFits
      <4> QED
        BY <2>1, <2>5, <4>1, <4>2
    <3>4. DiskFits'
      BY <1>1, <1>5, <2>1, <2>5, <3>1, <3>3 DEF DiskFits
    <3> QED
      BY <1>2, <1>3, <2>2, <3>2, <3>4 DEF Fits
  <2> QED
    BY <2>1, <2>3, <2>4, <2>5, PendingLost
<1> QED
  BY <1>4, <1>5

LEMMA FitsKept == RecoveryInv /\ [Next]_vars => Fits'
<1> SUFFICES ASSUME RecoveryInv, [Next]_vars PROVE Fits'
  OBVIOUS
<1>0. Fits /\ UsedTyped
  BY TypesAtHand DEF RecoveryInv
<1>1. CASE UNCHANGED vars
  BY <1>0, <1>1, SameDataFits DEF vars
<1>2. ASSUME UNCHANGED dataVars,
             UNCHANGED used \/ \E what \in {"visits", "previews", "stops"} : Spend(what)
      PROVE  Fits'
  <2>1. used'.edits = used.edits /\ used'.writes = used.writes /\ used'.outages = used.outages
    BY <1>0, <1>2, SpendTyped
  <2> QED
    BY <1>0, <1>2, <2>1, SameDataFits
<1>3. ASSUME NEW c \in Command, CommandStep(c) PROVE Fits'
  <2>1. CASE Begin(c) \/ EnterRoot(c) \/ RefusedAtMarker(c) \/ Leave(c)
    BY <1>2, <2>1 DEF Begin, EnterRoot, RefusedAtMarker, Leave
  <2> QED
    BY <1>3, <2>1, WriteLineFits, WriteFileFits DEF CommandStep
<1>4. ASSUME NEW p \in Operator,
             PreviewForce(p) \/ PreviewRecovery(p) \/ Locking(p) \/ Recheck(p) \/ GiveUp(p)
      PROVE  Fits'
  BY <1>2, <1>4
     DEF PreviewForce, PreviewRecovery, Confirms, Locking, LockRuns, TakeGuard, Recheck, GiveUp
<1>5. ASSUME NEW p \in Proc, Stop(p) PROVE Fits'
  BY <1>2, <1>5 DEF Stop
<1> QED
  BY <1>1, <1>3, <1>4, <1>5, PublishFits, ReplayFits, UnmarkFits, EditFits, PowerLossFits
     DEF Next, HopStep, Replaying

LEMMA InitFits == Init => Fits
<1> SUFFICES ASSUME Init PROVE Fits
  OBVIOUS
<1>1. /\ ledger = <<>> /\ disk = <<>> /\ marker = None /\ files = InitialFiles /\ used.writes = 0
      /\ \A f \in Files : older[f] = {}
  BY DEF Init, Bound
<1>2. \A f \in Files : \A i \in files[f] : i <= 0
  BY <1>1
<1> QED
  BY <1>1, <1>2 DEF Fits, LedgerFits, FilesFit, DiskFits, OlderFits, Numbered, Base

LEMMA RecoveryInvariant == Spec => []RecoveryInv
<1>1. Init => Fits
  BY InitFits
<1>2. LockInv /\ HopInv /\ Fits /\ [Next]_vars => Fits'
  BY FitsKept DEF RecoveryInv
<1>3. LockInv /\ HopInv /\ Fits => RecoveryInv
  BY DEF RecoveryInv
<1> QED
  BY <1>1, <1>2, <1>3, LocksAndHops, PTL DEF Spec

\* Where everything the marker names is still there the evidence decides.
LEMMA FitsDecide ==
    ASSUME RecoveryInv, marker # None, used.edits = 0, Decision(marker) = "refuse"
    PROVE  used.outages > 0 /\ WritesLost(marker)
<1>1. marker \in Marker /\ LedgerFits /\ FilesFit
  BY TypesAtHand
<1>2. CASE \E n \in 0..PairLength : ledger = Begun(marker, n)
  <2>1. PICK n \in 0..PairLength : ledger = Begun(marker, n)
    BY <1>2
  <2>2. ~ImagesKnown(marker)
    BY <1>1, <2>1, LeftIsDecided
  <2> QED
    BY <1>1, <2>2 DEF FilesFit, WritesLost
<1>3. CASE ~\E n \in 0..PairLength : ledger = Begun(marker, n)
  BY <1>1, <1>3 DEF LedgerFits, WritesLost
<1> QED
  BY <1>2, <1>3

\* Whatever stopped a forced move, and however often its recovery was stopped
\* too, the files and the ledger say which way to go.  Two things may leave
\* them undecided: an edit made by hand, and a loss of power that takes what
\* commands had written before the move and nobody had waited for
\* (forced_decision, forced_commit).
THEOREM OnlyLossesLeaveItUndecided == Spec => []EvidenceDecides
<1>1. RecoveryInv => EvidenceDecides
  BY FitsDecide DEF EvidenceDecides
<1> QED
  BY <1>1, RecoveryInvariant, PTL

\* Everything the marker names is on the disk.
NamedIsOnDisk ==
    marker # None => Len(marker.prefix) <= Len(disk) /\ \A f \in Files : older[f] = {}

\* A forced move that no hand has touched can be resolved.
Resolvable == marker # None /\ used.edits = 0 => Decision(marker) # "refuse"

Whole ==
    marker # None =>
      /\ Len(marker.prefix) <= Len(ledger)
      /\ \A f \in Files : marker.before[f] \subseteq files[f]

LEMMA WholeKept == RecoveryInv /\ Whole /\ [Next]_vars /\ (PowerLoss => NamedIsOnDisk) => Whole'
<1> SUFFICES ASSUME RecoveryInv, Whole, [Next]_vars, PowerLoss => NamedIsOnDisk PROVE Whole'
  OBVIOUS
<1>0. /\ ledger \in Seq(Byte) /\ disk \in Seq(Byte) /\ files \in Images /\ used.writes \in Nat
      /\ Len(ledger) \in Nat
  BY TypesAtHand
<1>1. marker # None =>
        /\ marker \in Marker /\ Len(marker.prefix) \in Nat
        /\ \A f \in Files : marker.before[f] \subseteq marker.after[f]
  BY TypesAtHand, BegunBytes DEF Numbered
<1>2. ASSUME UNCHANGED <<files, ledger, marker>> PROVE Whole'
  BY <1>2 DEF Whole
<1>3. CASE UNCHANGED vars
  BY <1>2, <1>3 DEF vars, dataVars
<1>4. ASSUME NEW c \in Command, CommandStep(c) PROVE Whole'
  <2>1. CASE Begin(c) \/ EnterRoot(c) \/ RefusedAtMarker(c) \/ Leave(c)
    BY <1>2, <2>1 DEF Begin, EnterRoot, RefusedAtMarker, Leave, dataVars
  <2>2. CASE WriteLine(c) \/ \E f \in Files : WriteFile(c, f)
    BY <2>2, TypesAtHand DEF WriteLine, WriteFile, LockInv, NoCommandBesideAMarker, Whole
  <2> QED
    BY <1>4, <2>1, <2>2 DEF CommandStep
<1>5. ASSUME NEW p \in Operator, PreviewForce(p) \/ PreviewRecovery(p) \/ Locking(p) \/ Recheck(p)
                                 \/ GiveUp(p) \/ SyncLedger(p)
      PROVE  Whole'
  BY <1>2, <1>5 DEF PreviewForce, PreviewRecovery, Confirms, Locking, LockRuns, TakeGuard, Recheck,
                    GiveUp, SyncLedger, dataVars
<1>6. ASSUME NEW p \in Operator, Publish(p) PROVE Whole'
  <2>1. marker'.prefix = ledger /\ marker'.before = files /\ UNCHANGED <<files, ledger>>
    BY <1>6 DEF Publish, ImagesNow
  <2> QED
    BY <1>0, <2>1 DEF Whole
<1>7. ASSUME NEW p \in Operator, Truncate(p) PROVE Whole'
  <2>1. UNCHANGED <<files, marker>> /\ ledger' = marker.prefix /\ marker # None
    BY <1>7, TypesAtHand DEF Truncate, Effects, HopInv, AtWork
  <2> QED
    BY <1>1, <2>1 DEF Whole
<1>8. ASSUME NEW p \in Operator, AppendPair(p) PROVE Whole'
  <2>1. /\ stage[p] = "append" /\ shown[p].does = "force" /\ index[p] \in 1..PairLength
        /\ UNCHANGED <<files, marker>> /\ ledger' = Append(ledger, Pair(marker.id)[index[p]])
        /\ marker \in Marker /\ ledger = Begun(marker, Written(p))
    BY <1>8, TypesAtHand DEF AppendPair, Effects, HopInv, AtWork
  <2>2. marker.id \in Ids /\ Pair(marker.id)[index[p]] \in Byte
    BY <2>1, PairBytes, ElementOfSeq DEF Marker
  <2>3. Len(ledger') = Len(ledger) + 1
    BY <1>0, <2>1, <2>2, AppendProperties
  <2>4. Len(marker.prefix) \in Nat /\ marker # None
    BY <2>1, BegunBytes
  <2>5. Len(marker.prefix) <= Len(ledger')
    BY <1>0, <2>3, <2>4 DEF Whole
  <2> QED
    BY <2>1, <2>4, <2>5 DEF Whole
<1>9. ASSUME NEW p \in Operator, InstallImage(p) PROVE Whole'
  <2>1. /\ files' = [files EXCEPT ![index[p]] = Image(p)[index[p]]]
        /\ UNCHANGED <<ledger, marker>> /\ marker # None
    BY <1>9, TypesAtHand DEF InstallImage, Effects, HopInv, AtWork
  <2>2. \A f \in Files : files'[f] \in {files[f], marker.before[f], marker.after[f]}
    BY <1>0, <2>1 DEF Image, Images
  <2>3. \A f \in Files : marker.before[f] \subseteq files'[f]
    BY <1>1, <2>1, <2>2 DEF Whole
  <2> QED
    BY <2>1, <2>3 DEF Whole
<1>10. ASSUME NEW p \in Operator, Unmark(p) PROVE Whole'
  BY <1>10 DEF Unmark, Whole
<1>11. ASSUME NEW p \in Proc, Stop(p) PROVE Whole'
  BY <1>2, <1>11 DEF Stop, dataVars
<1>12. ASSUME NEW f \in Files, Edit(f) PROVE Whole'
  <2>1. UNCHANGED <<ledger, marker>> /\ \A g \in Files : files[g] \subseteq files'[g]
    BY <1>0, <1>12 DEF Edit, Images
  <2> QED
    BY <2>1 DEF Whole
<1>13. CASE PowerLoss
  <2> SUFFICES ASSUME marker # None
               PROVE  /\ Len(marker.prefix) <= Len(ledger')
                      /\ \A f \in Files : marker.before[f] \subseteq files'[f]
    BY <1>13, FilesLost DEF Whole
  <2>1. Len(marker.prefix) <= Len(disk) /\ \A f \in Files : older[f] = {}
    BY <1>13 DEF NamedIsOnDisk
  <2>2. \A f \in Files : files'[f] = files[f]
    BY <1>13, <2>1, FilesLost
  <2>3. ~(Len(ledger) < Len(marker.prefix)) /\ Len(disk) \in Nat
    BY <1>0, <1>1, LenProperties DEF Whole
  <2>4. \A n \in 0..Len(marker.prefix) : ~(Len(disk) <= n /\ n < Len(marker.prefix))
    BY <1>1, <2>1, <2>3
  <2>5. PICK i \in 0..PairLength : ledger' = Begun(marker, i)
    BY <1>1, <1>13, <2>3, <2>4, PendingLost
  <2>6. Len(marker.prefix) <= Len(ledger')
    BY <1>1, <2>5, BegunBytes
  <2> QED
    BY <2>2, <2>6 DEF Whole
<1> QED
  BY <1>3, <1>4, <1>5, <1>6, <1>7, <1>8, <1>9, <1>10, <1>11, <1>12, <1>13
     DEF Next, HopStep, Replaying

\* If the power is lost under a marker only once everything the marker names is
\* on the disk, a forced move that no hand has touched can always be resolved:
\* nothing but those earlier writes stands between the code and that promise,
\* for forced_commit waits for the disk only after its own pair.
THEOREM ResolvableWhereEarlierWritesLast ==
    Spec /\ [][PowerLoss => NamedIsOnDisk]_vars => []Resolvable
<1>1. Init => Whole
  BY DEF Init, Whole
<1>2. RecoveryInv /\ Whole /\ [Next]_vars /\ [PowerLoss => NamedIsOnDisk]_vars => Whole'
  <2> SUFFICES ASSUME RecoveryInv, Whole, [Next]_vars, [PowerLoss => NamedIsOnDisk]_vars PROVE Whole'
    OBVIOUS
  <2>1. CASE UNCHANGED vars
    BY <2>1 DEF Whole, vars, dataVars
  <2>2. CASE ~UNCHANGED vars
    BY <2>2, WholeKept
  <2> QED
    BY <2>1, <2>2
<1>3. RecoveryInv /\ Whole => Resolvable
  <2> SUFFICES ASSUME RecoveryInv, Whole, marker # None, used.edits = 0, Decision(marker) = "refuse"
               PROVE  FALSE
    BY DEF Resolvable
  <2>1. WritesLost(marker)
    BY FitsDecide
  <2>2. Len(marker.prefix) \in Nat /\ Len(ledger) \in Nat
    BY TypesAtHand, BegunBytes
  <2> QED
    BY <2>1, <2>2 DEF WritesLost, Whole
<1> QED
  BY <1>1, <1>2, <1>3, RecoveryInvariant, PTL DEF Spec

-----------------------------------------------------------------------------
(* The move is whole: content and history of WholeHops, seen through the   *)
(* marker.                                                                 *)

\* What a ledger that lost a part of the prefix still has.
LEMMA LostLedger ==
    ASSUME RecoveryInv, marker \in Marker, Len(ledger) < Len(marker.prefix)
    PROVE  /\ disk = ledger /\ \A n \in 0..PairLength : ledger # Begun(marker, n)
           /\ \A n \in DOMAIN ledger : n \in DOMAIN marker.prefix /\ ledger[n] = marker.prefix[n]
<1>1. /\ marker # None /\ ledger \in Seq(Byte) /\ Len(ledger) \in Nat /\ LedgerFits
      /\ marker.prefix \in Seq(Byte) /\ Len(marker.prefix) \in Nat
  BY TypesAtHand, LenProperties DEF Marker
<1>2. \A n \in 0..PairLength : ledger # Begun(marker, n)
  BY <1>1, BegunBytes
<1>3. ledger = SubSeq(marker.prefix, 1, Len(ledger)) /\ disk = ledger
  BY <1>1, <1>2 DEF LedgerFits
<1>4. DOMAIN ledger = 1..Len(ledger) /\ DOMAIN marker.prefix = 1..Len(marker.prefix)
  BY <1>1, LenProperties
<1>5. \A n \in 1..Len(ledger) : SubSeq(marker.prefix, 1, Len(ledger))[n] = marker.prefix[n]
  BY <1>1
<1>6. \A n \in 1..Len(ledger) : n \in 1..Len(marker.prefix)
  BY <1>1
<1> QED
  BY <1>2, <1>3, <1>4, <1>5, <1>6

\* What WholeHops sees of a state.
View ==
    /\ marker = None =>
         /\ ~Committed /\ ~Stuck
         /\ History = ledger /\ \A f \in Files : Content[f] = files[f]
    /\ marker \in Marker =>
         /\ Committed <=> disk = Begun(marker, PairLength)
         /\ Committed => ledger = disk
         /\ History = IF Len(ledger) < Len(marker.prefix) THEN ledger
                      ELSE IF Committed THEN marker.prefix \o Pair(marker.id) ELSE marker.prefix
         /\ \A f \in Files :
              Content[f] = (files[f] \ {marker.id}) \cup (IF Committed THEN {marker.id} ELSE {})
         /\ Len(ledger) < Len(marker.prefix) => Stuck
         /\ ~(Len(ledger) < Len(marker.prefix)) =>
              /\ \E n \in 0..PairLength : ledger = Begun(marker, n)
              /\ Stuck <=> ~ImagesKnown(marker)

LEMMA Viewed == RecoveryInv => View
<1> SUFFICES ASSUME RecoveryInv PROVE View
  OBVIOUS
<1>1. ASSUME marker = None
      PROVE  /\ ~Committed /\ ~Stuck
             /\ History = ledger /\ \A f \in Files : Content[f] = files[f]
  BY <1>1 DEF History, Content, Pending, Committed, Stuck
<1>2. ASSUME marker \in Marker
      PROVE  /\ Committed <=> disk = Begun(marker, PairLength)
             /\ Committed => ledger = disk
             /\ History = IF Len(ledger) < Len(marker.prefix) THEN ledger
                          ELSE IF Committed THEN marker.prefix \o Pair(marker.id) ELSE marker.prefix
             /\ \A f \in Files :
                  Content[f] = (files[f] \ {marker.id}) \cup (IF Committed THEN {marker.id} ELSE {})
             /\ Len(ledger) < Len(marker.prefix) => Stuck
             /\ ~(Len(ledger) < Len(marker.prefix)) =>
                  /\ \E n \in 0..PairLength : ledger = Begun(marker, n)
                  /\ Stuck <=> ~ImagesKnown(marker)
  <2>1. /\ marker # None /\ marker.id \in Ids /\ marker.prefix \in Seq(Byte) /\ disk \in Seq(Byte)
        /\ Len(marker.prefix) \in Nat /\ Len(disk) \in Nat /\ Len(Pair(marker.id)) = PairLength
        /\ LedgerFits /\ DiskFits /\ Len(ledger) \in Nat
    BY <1>2, TypesAtHand, BegunBytes, PairBytes
  <2>2. ASSUME NEW n \in 0..PairLength, disk = Begun(marker, n)
        PROVE  Committed <=> n = PairLength
    <3>1. /\ SubSeq(disk, Len(marker.prefix) + 1, Len(disk)) = SubSeq(Pair(marker.id), 1, n)
          /\ Len(SubSeq(Pair(marker.id), 1, n)) = n
      BY <1>2, <2>2, BegunRest
    <3>2. n = PairLength => SubSeq(Pair(marker.id), 1, n) = Pair(marker.id)
      BY <2>1, PairBytes, SubSeqFull
    <3> QED
      BY <2>1, <3>1, <3>2 DEF Committed
  <2>3. ASSUME Len(disk) < Len(marker.prefix)
        PROVE  ~Committed /\ disk # Begun(marker, PairLength)
    <3>1. Len(Begun(marker, PairLength)) = Len(marker.prefix) + PairLength
      BY <1>2, BegunBytes
    <3>2. Len(SubSeq(disk, Len(marker.prefix) + 1, Len(disk))) = 0
      BY <2>1, <2>3
    <3>3. ~Committed
      BY <2>1, <3>2 DEF Committed
    <3>4. disk # Begun(marker, PairLength)
      BY <2>1, <2>3, <3>1
    <3> QED
      BY <3>3, <3>4
  <2>4. Committed <=> disk = Begun(marker, PairLength)
    <3>1. ASSUME NEW n \in 0..PairLength, disk = Begun(marker, n)
          PROVE  disk = Begun(marker, PairLength) <=> n = PairLength
      BY <1>2, <3>1, BegunDiffer
    <3> QED
      BY <2>1, <2>2, <2>3, <3>1 DEF DiskFits
  <2>5. Committed => ledger = disk
    <3> SUFFICES ASSUME disk = Begun(marker, PairLength) PROVE ledger = disk
      BY <2>4
    <3>1. ~(Len(disk) < Len(marker.prefix))
      BY <2>3
    <3>2. PICK n \in 0..PairLength : disk = Begun(marker, n) /\ (n = PairLength => ledger = disk)
      BY <2>1, <3>1 DEF DiskFits
    <3>3. n = PairLength
      <4>1. PairLength \in 0..PairLength /\ Begun(marker, n) = Begun(marker, PairLength)
        BY <3>2
      <4> QED
        BY <1>2, <4>1, BegunDiffer
    <3> QED
      BY <3>2, <3>3
  <2>6. History = IF Len(ledger) < Len(marker.prefix) THEN ledger
                  ELSE IF Committed THEN marker.prefix \o Pair(marker.id) ELSE marker.prefix
    <3>1. marker.prefix \o <<>> = marker.prefix
      BY <2>1, ConcatEmptySeq
    <3> QED
      BY <2>1, <3>1 DEF History
  <2>7. \A f \in Files :
          Content[f] = (files[f] \ {marker.id}) \cup (IF Committed THEN {marker.id} ELSE {})
    BY <2>1 DEF Content, Pending
  <2>8. ASSUME Len(ledger) < Len(marker.prefix) PROVE Stuck
    <3>1. ~PrefixKept(marker)
      BY <2>1, <2>8 DEF PrefixKept
    <3> QED
      BY <2>1, <3>1 DEF Stuck, Decision
  <2>9. ASSUME ~(Len(ledger) < Len(marker.prefix))
        PROVE  /\ \E n \in 0..PairLength : ledger = Begun(marker, n)
               /\ Stuck <=> ~ImagesKnown(marker)
    <3>1. PICK n \in 0..PairLength : ledger = Begun(marker, n)
      BY <2>1, <2>9 DEF LedgerFits
    <3>2. ImagesKnown(marker) => Decision(marker) # "refuse"
      BY <1>2, <3>1, LeftIsDecided
    <3>3. ~ImagesKnown(marker) => Decision(marker) = "refuse"
      BY DEF Decision
    <3> QED
      BY <2>1, <3>1, <3>2, <3>3 DEF Stuck
  <2> QED
    BY <2>4, <2>5, <2>6, <2>7, <2>8, <2>9
<1> QED
  BY <1>1, <1>2 DEF View

LEMMA ViewedNext == RecoveryInv' => View'
BY Viewed, PTL

Steady == UNCHANGED <<Content, History, Stuck>>

\* What a step leaves as it was, it leaves as WholeHops sees it.
LEMMA SameDataView ==
    ASSUME UNCHANGED <<files, ledger, disk, marker>>
    PROVE  Steady
<1>1. Committed' = Committed /\ Pending' = Pending
  BY DEF Committed, Pending
<1>2. Content' = Content /\ History' = History
  BY <1>1 DEF Content, History
<1>3. Stuck' = Stuck
  BY DEF Stuck, Decision, PrefixKept, ImagesKnown, Suffix, StartsPair
<1> QED
  BY <1>2, <1>3 DEF Steady

LEMMA StuckOrNot == Stuck \in BOOLEAN /\ Stuck' \in BOOLEAN
BY DEF Stuck

\* The ledger as WholeHops sees it has the numbers of earlier writes.
LEMMA HistoryNumbered ==
    ASSUME RecoveryInv
    PROVE  /\ History \in Seq(Byte)
           /\ \A i \in DOMAIN History : History[i][1] <= used.writes
<1>1. ledger \in Seq(Byte) /\ marker \in Marker \cup {None} /\ Numbered /\ View /\ used.writes \in Nat
  BY TypesAtHand, Viewed
<1>2. CASE marker = None
  BY <1>1, <1>2 DEF View, Numbered
<1>3. CASE marker # None
  <2>1. /\ marker \in Marker /\ marker.prefix \in Seq(Byte) /\ marker.id <= used.writes
        /\ marker.id \in Int
    BY <1>1, <1>3 DEF Marker, Numbered, Ids
  <2>2. CASE Len(ledger) < Len(marker.prefix)
    <3>1. History = ledger /\ \A n \in DOMAIN ledger : ledger[n][1] < marker.id
      BY <1>1, <1>3, <2>1, <2>2, LostLedger DEF View, Numbered
    <3>2. \A n \in DOMAIN ledger : ledger[n][1] \in Int
      BY <1>1, BytesOf
    <3> QED
      BY <1>1, <2>1, <3>1, <3>2
  <2>3. CASE ~(Len(ledger) < Len(marker.prefix))
    <3>1. PICK k \in 0..PairLength : History = Begun(marker, k)
      <4>1. Begun(marker, 0) = marker.prefix /\ Begun(marker, PairLength) = marker.prefix \o Pair(marker.id)
        BY <2>1, BegunNone, BegunAll
      <4>2. 0 \in 0..PairLength /\ PairLength \in 0..PairLength
        OBVIOUS
      <4> QED
        BY <1>1, <2>1, <2>3, <4>1, <4>2 DEF View
    <3> QED
      BY <2>1, <3>1, BegunNumbered, BegunBytes
  <2> QED
    BY <2>2, <2>3
<1> QED
  BY <1>2, <1>3

\* Every write so far has an earlier number than the next.
LEMMA NextIsFresh ==
    ASSUME RecoveryInv, Affords("writes")
    PROVE  used.writes + 1 \in Ids /\ Hops!Fresh(used.writes + 1)
<1>1. /\ used.writes \in Nat /\ used.writes + 1 \in Ids /\ files \in Images
      /\ marker \in Marker \cup {None} /\ Numbered /\ View
  BY TypesAtHand, NextId, Viewed
<1>2. \A i \in DOMAIN History : History[i][1] # used.writes + 1
  <2>1. \A i \in DOMAIN History : History[i][1] \in Int
    BY HistoryNumbered, BytesOf
  <2> QED
    BY <1>1, <2>1, HistoryNumbered
<1>3. \A f \in Files : used.writes + 1 \notin files[f]
  BY <1>1 DEF Numbered, Images
<1>4. ASSUME NEW f \in Files
      PROVE  used.writes + 1 \notin Content[f]
  <2>1. CASE marker = None
    BY <1>1, <1>3, <2>1 DEF View
  <2>2. CASE marker # None
    <3>1. marker \in Marker /\ marker.id # used.writes + 1
      BY <1>1, <2>2 DEF Numbered, Marker, Ids
    <3> QED
      BY <1>1, <1>3, <3>1 DEF View
  <2> QED
    BY <2>1, <2>2
<1> QED
  BY <1>1, <1>2, <1>4 DEF Hops!Fresh

\* The pair is whole on the disk: the one step that WholeHops sees.
LEMMA CommitIsHop ==
    ASSUME RecoveryInv, RecoveryInv', marker \in Marker, UNCHANGED <<files, marker>>,
           ~(Len(ledger) < Len(marker.prefix)), ~(Len(ledger') < Len(marker.prefix)),
           ~Committed, Committed'
    PROVE  Hops!Hop
<1>1. View /\ View' /\ marker' \in Marker /\ marker' = marker /\ marker # None /\ Numbered
  BY Viewed, ViewedNext, TypesAtHand
<1>2. History = marker.prefix /\ \A f \in Files : Content[f] = files[f] \ {marker.id}
  BY <1>1 DEF View
<1>3. /\ History' = marker.prefix \o Pair(marker.id)
      /\ \A f \in Files : Content'[f] = (files[f] \ {marker.id}) \cup {marker.id}
  BY <1>1 DEF View
<1>4. marker.id \in Ids /\ Hops!Fresh(marker.id)
  <2>1. marker.id \in Ids /\ \A i \in DOMAIN marker.prefix : marker.prefix[i][1] # marker.id
    BY <1>1 DEF Numbered, Marker, Ids
  <2> QED
    BY <1>2, <2>1 DEF Hops!Fresh
<1>5. Content' = [f \in Files |-> Content[f] \cup {marker.id}]
  <2>1. \A f \in Files : Content'[f] = Content[f] \cup {marker.id}
    BY <1>2, <1>3
  <2> QED
    BY <2>1 DEF Content
<1>6. Hops!Entry(marker.id) = Pair(marker.id)
  BY DEF Hops!Entry, Pair
<1> QED
  BY <1>2, <1>3, <1>4, <1>5, <1>6 DEF Hops!Hop

LEMMA WriteIsWrite ==
    ASSUME RecoveryInv, NEW f \in Files, Affords("writes"),
           files' = [files EXCEPT ![f] = @ \cup {used.writes + 1}], UNCHANGED <<ledger, disk, marker>>
    PROVE  Hops!Write(f)
<1> DEFINE id == used.writes + 1
<1>1. /\ id \in Ids /\ Hops!Fresh(id) /\ files \in Images /\ Numbered /\ used.writes \in Nat
      /\ marker \in Marker \cup {None}
  BY NextIsFresh, TypesAtHand
<1>2. \A g \in Files : files'[g] = IF g = f THEN files[g] \cup {id} ELSE files[g]
  BY <1>1 DEF Images
<1>3. marker # None => marker.id # id
  BY <1>1 DEF Numbered, Marker, Ids
<1>4. Committed' = Committed /\ Pending' = Pending /\ id \notin Pending /\ History' = History
  BY <1>3 DEF Committed, Pending, History
<1>5. \A g \in Files : Content'[g] = IF g = f THEN Content[g] \cup {id} ELSE Content[g]
  BY <1>2, <1>4 DEF Content
<1>6. Content' = [Content EXCEPT ![f] = @ \cup {id}]
  BY <1>5 DEF Content
<1> QED
  BY <1>1, <1>4, <1>6 DEF Hops!Write

LEMMA WriteLineIsLine ==
    ASSUME RecoveryInv, RecoveryInv', NEW c \in Command, WriteLine(c)
    PROVE  Hops!Line
<1>1. /\ marker = None /\ marker' = None /\ files' = files /\ Affords("writes")
      /\ ledger' = Append(ledger, <<used.writes + 1, 0>>)
  BY TypesAtHand DEF WriteLine, LockInv, NoCommandBesideAMarker
<1>2. History = ledger /\ \A f \in Files : Content[f] = files[f]
  BY <1>1, Viewed DEF View
<1>3. History' = ledger' /\ \A f \in Files : Content'[f] = files'[f]
  BY <1>1, ViewedNext DEF View
<1>4. Content' = Content
  BY <1>1, <1>2, <1>3 DEF Content
<1> QED
  BY <1>1, <1>2, <1>3, <1>4, NextIsFresh DEF Hops!Line

\* An undisturbed step of an operator changes nothing, or commits its move.
HopOrNot == (Hops!Hop \/ UNCHANGED <<Content, History>>) /\ ~Stuck /\ ~Stuck'

LEMMA PublishIsNoHop ==
    ASSUME RecoveryInv, RecoveryInv', NEW p \in Operator, Publish(p)
    PROVE  HopOrNot
<1> DEFINE id == used.writes + 1
<1>1. /\ marker = None /\ UNCHANGED <<files, ledger, disk>>
      /\ marker' = [id |-> id, before |-> ImagesNow(id).before,
                    after |-> ImagesNow(id).after, prefix |-> ledger]
  BY DEF Publish
<1>2. /\ used.writes \in Nat /\ files \in Images /\ id \in Ids /\ ledger \in Seq(Byte) /\ Numbered
      /\ disk \in Seq(Byte) /\ DiskFits /\ Len(ledger) \in Nat /\ Len(disk) \in Nat
  BY TypesAtHand, NextId DEF Publish
<1>3. marker' \in Marker /\ marker'.id = id /\ marker'.prefix = ledger /\ marker'.before = files
  BY <1>1, <1>2, MarkerTyped DEF ImagesNow
<1>4. View /\ View'
  BY Viewed, ViewedNext
<1>5. Len(disk) <= Len(ledger)
  BY <1>1, <1>2 DEF DiskFits
<1>6. disk' # Begun(marker', PairLength)
  <2>1. Len(Begun(marker', PairLength)) = Len(ledger) + PairLength
    BY <1>3, BegunBytes
  <2> QED
    BY <1>1, <1>2, <1>5, <2>1
<1>7. ~Committed'
  BY <1>3, <1>4, <1>6 DEF View, Begun
<1>8. History' = ledger /\ \A f \in Files : Content'[f] = files[f] \ {id}
  BY <1>1, <1>3, <1>4, <1>7 DEF View
<1>9. History = ledger /\ (\A f \in Files : Content[f] = files[f]) /\ ~Stuck
  BY <1>1, <1>4 DEF View
<1>10. ~Stuck'
  <2>1. ImagesKnown(marker)'
    BY <1>1, <1>3 DEF ImagesKnown
  <2>2. ~(Len(ledger') < Len(marker'.prefix))
    BY <1>1, <1>2, <1>3
  <2> QED
    BY <1>3, <1>4, <2>1, <2>2 DEF View
<1>11. \A f \in Files : id \notin files[f]
  BY <1>2 DEF Numbered, Images
<1>12. Content' = Content
  <2>1. ASSUME NEW f \in Files
        PROVE  Content'[f] = Content[f]
    <3>1. Content'[f] = files[f] \ {id} /\ Content[f] = files[f] /\ id \notin files[f]
      BY <1>8, <1>9, <1>11
    <3> HIDE DEF id
    <3>2. files[f] \ {id} = files[f]
      BY <3>1
    <3> QED
      BY <3>1, <3>2
  <2> QED
    BY <2>1 DEF Content
<1> QED
  BY <1>8, <1>9, <1>10, <1>12 DEF HopOrNot

\* At work an operator has the whole prefix before it, and known images.
LEMMA AtWorkIsNotStuck ==
    ASSUME RecoveryInv, NEW p \in Operator, stage[p] \in Effects
    PROVE  /\ marker \in Marker /\ marker # None /\ ImagesKnown(marker) /\ AtWork(p)
           /\ shown[p] \in Shown /\ ~(Len(ledger) < Len(marker.prefix)) /\ ~Stuck
<1>1. /\ AtWork(p) /\ shown[p] \in Shown /\ marker \in Marker /\ marker # None /\ ImagesKnown(marker)
      /\ View
  BY TypesAtHand, Viewed DEF HopInv, AtWork, Effects
<1>2. \E n \in 0..PairLength : ledger = Begun(marker, n)
  <2>1. CASE stage[p] = "truncate"
    <3>1. PICK n \in 0..PairLength - 1 : ledger = Begun(marker, n)
      BY <1>1, <2>1 DEF AtWork
    <3>2. n \in 0..PairLength
      OBVIOUS
    <3> QED
      BY <3>1, <3>2
  <2>2. CASE stage[p] # "truncate"
    <3>1. shown[p].does \in Meanings /\ (stage[p] = "append" => index[p] \in 1..PairLength)
      BY <1>1 DEF Shown, AtWork
    <3>2. Written(p) \in 0..PairLength
      BY <3>1 DEF Written, Meanings
    <3> QED
      BY <1>1, <2>2, <3>2 DEF AtWork
  <2> QED
    BY <2>1, <2>2
<1>3. ~(Len(ledger) < Len(marker.prefix))
  BY <1>1, <1>2, BegunBytes
<1> QED
  BY <1>1, <1>3 DEF View

\* A step at work that leaves the disk, or the ledger, as it was.
LEMMA ReplayIsHop ==
    ASSUME RecoveryInv, RecoveryInv', NEW p \in Operator,
           Truncate(p) \/ SyncLedger(p) \/ InstallImage(p) \/ AppendPair(p)
    PROVE  HopOrNot
<1>1. /\ stage[p] \in Effects /\ UNCHANGED marker /\ View /\ View' /\ Numbered
  BY Viewed, ViewedNext, TypesAtHand
     DEF Truncate, SyncLedger, InstallImage, AppendPair, Effects
<1>2. /\ marker \in Marker /\ marker # None /\ ImagesKnown(marker) /\ AtWork(p) /\ shown[p] \in Shown
      /\ ~(Len(ledger) < Len(marker.prefix)) /\ ~Stuck
  BY <1>1, AtWorkIsNotStuck
<1>3. /\ \A f \in Files : files'[f] \in {files[f], marker.before[f], marker.after[f]}
      /\ \A f \in Files : marker.after[f] = marker.before[f] \cup {marker.id}
      /\ \A f \in Files : marker.id \notin marker.before[f]
  <2>1. files \in Images
    BY TypesAtHand
  <2>2. \A f \in Files : files'[f] \in {files[f], marker.before[f], marker.after[f]}
    <3>1. CASE InstallImage(p)
      BY <2>1, <3>1 DEF InstallImage, Image, Images
    <3>2. CASE ~InstallImage(p)
      BY <3>2 DEF Truncate, SyncLedger, AppendPair
    <3> QED
      BY <3>1, <3>2
  <2>3. \A f \in Files : marker.id \notin marker.before[f]
    BY <1>1, <1>2 DEF Numbered, Marker, Images, Ids
  <2> QED
    BY <1>1, <1>2, <2>2, <2>3 DEF Numbered
<1>4. ImagesKnown(marker)'
  BY <1>1, <1>2, <1>3 DEF ImagesKnown
<1>5. ~(Len(ledger') < Len(marker.prefix))
  <2>1. ASSUME Len(ledger') < Len(marker'.prefix)
        PROVE  FALSE
    <3>1. Len(marker.prefix) \in Nat /\ ledger \in Seq(Byte) /\ Len(ledger) \in Nat
      BY <1>2, TypesAtHand, BegunBytes
    <3>2. CASE Truncate(p)
      BY <1>1, <2>1, <3>1, <3>2 DEF Truncate
    <3>3. CASE AppendPair(p)
      <4>1. index[p] \in 1..PairLength /\ marker.id \in Ids
        BY <1>2, <3>3 DEF AppendPair, AtWork, Marker
      <4>2. Pair(marker.id)[index[p]] \in Byte
        BY <4>1, PairBytes, ElementOfSeq
      <4>3. Len(ledger') = Len(ledger) + 1
        BY <3>1, <3>3, <4>2, AppendProperties DEF AppendPair
      <4> QED
        BY <1>1, <1>2, <2>1, <3>1, <4>3
    <3>4. CASE SyncLedger(p) \/ InstallImage(p)
      BY <1>1, <1>2, <2>1, <3>4 DEF SyncLedger, InstallImage
    <3> QED
      BY <3>2, <3>3, <3>4
  <2> QED
    BY <1>1, <2>1
<1>6. ~Stuck'
  BY <1>1, <1>2, <1>4, <1>5 DEF View
<1>7. \A f \in Files : files'[f] \ {marker.id} = files[f] \ {marker.id}
  BY <1>2, <1>3 DEF ImagesKnown
<1>8. CASE Committed' <=> Committed
  <2>1. History' = History
    <3>1. History = IF Committed THEN marker.prefix \o Pair(marker.id) ELSE marker.prefix
      BY <1>1, <1>2 DEF View
    <3>2. History' = IF Committed' THEN marker.prefix \o Pair(marker.id) ELSE marker.prefix
      <4>1. marker' \in Marker /\ marker' = marker /\ ~(Len(ledger') < Len(marker'.prefix))
        BY <1>1, <1>2, <1>5
      <4> QED
        BY <1>1, <4>1 DEF View
    <3> QED
      BY <1>8, <3>1, <3>2
  <2>2. ASSUME NEW f \in Files PROVE Content'[f] = Content[f]
    <3>1. Content[f] = (files[f] \ {marker.id}) \cup IF Committed THEN {marker.id} ELSE {}
      BY <1>1, <1>2 DEF View
    <3>2. Content'[f] = (files'[f] \ {marker.id}) \cup IF Committed' THEN {marker.id} ELSE {}
      <4>1. marker' \in Marker /\ marker' = marker
        BY <1>1, <1>2
      <4> QED
        BY <1>1, <4>1 DEF View
    <3> QED
      BY <1>7, <1>8, <3>1, <3>2
  <2>3. Content' = Content
    BY <2>2 DEF Content
  <2> QED
    BY <1>2, <1>6, <2>1, <2>3 DEF HopOrNot
<1>9. CASE ~(Committed' <=> Committed)
  <2>1. SyncLedger(p)
    <3>1. UNCHANGED <<disk, marker>> => (Committed' <=> Committed)
      BY DEF Committed
    <3> QED
      BY <1>9, <3>1 DEF Truncate, InstallImage, AppendPair
  <2>2. disk' = ledger /\ UNCHANGED <<files, ledger>>
    BY <2>1 DEF SyncLedger
  <2>3. Committed => Committed'
    BY <1>1, <1>2, <2>2 DEF View, Begun
  <2>4. Hops!Hop
    BY <1>1, <1>2, <1>5, <1>9, <2>2, <2>3, CommitIsHop
  <2> QED
    BY <1>2, <1>6, <2>4 DEF HopOrNot
<1> QED
  BY <1>8, <1>9

LEMMA UnmarkIsNoHop ==
    ASSUME RecoveryInv, RecoveryInv', NEW p \in Operator, Unmark(p)
    PROVE  HopOrNot
<1>1. /\ stage[p] = "unmark" /\ UNCHANGED <<files, ledger, disk>> /\ marker' = None
      /\ View /\ View' /\ Numbered
  BY Viewed, ViewedNext, TypesAtHand DEF Unmark
<1>2. /\ marker \in Marker /\ marker # None /\ AtWork(p) /\ shown[p] \in Shown
      /\ ~(Len(ledger) < Len(marker.prefix)) /\ ~Stuck
  BY <1>1, AtWorkIsNotStuck DEF Effects
<1>3. /\ disk = ledger /\ (\A f \in Files : files[f] = Image(p)[f])
      /\ Written(p) = IF shown[p].does = "rollback" THEN 0 ELSE PairLength
      /\ Written(p) \in 0..PairLength /\ ledger = Begun(marker, Written(p))
  BY <1>1, <1>2 DEF AtWork, Written, Shown, Meanings, Installed
<1>4. Committed <=> Written(p) = PairLength
  <2>1. PairLength \in 0..PairLength
    OBVIOUS
  <2> QED
    BY <1>1, <1>2, <1>3, <2>1, BegunDiffer DEF View
<1>5. History' = ledger /\ (\A f \in Files : Content'[f] = files[f]) /\ ~Stuck'
  BY <1>1 DEF View
<1>6. History = ledger
  BY <1>1, <1>2, <1>3, <1>4, BegunNone, BegunAll DEF View
<1>7. \A f \in Files : marker.after[f] = marker.before[f] \cup {marker.id}
  BY <1>1, <1>2 DEF Numbered
<1>8. \A f \in Files : marker.id \notin marker.before[f]
  BY <1>1, <1>2 DEF Numbered, Marker, Images, Ids
<1>9. ASSUME NEW f \in Files
      PROVE  Content[f] = files[f]
  <2>1. files[f] = IF shown[p].does = "rollback" THEN marker.before[f] ELSE marker.after[f]
    BY <1>3 DEF Image
  <2>2. Content[f] = (files[f] \ {marker.id}) \cup (IF Committed THEN {marker.id} ELSE {})
    BY <1>1, <1>2 DEF View
  <2>3. CASE shown[p].does = "rollback"
    BY <1>3, <1>4, <1>8, <2>1, <2>2, <2>3
  <2>4. CASE shown[p].does # "rollback"
    BY <1>3, <1>4, <1>7, <2>1, <2>2, <2>4
  <2> QED
    BY <2>3, <2>4
<1>10. Content' = Content
  <2>1. \A f \in Files : Content'[f] = Content[f]
    BY <1>5, <1>9
  <2> QED
    BY <2>1 DEF Content
<1> QED
  BY <1>2, <1>5, <1>6, <1>10 DEF HopOrNot

\* A loss of power that takes the newest writes of some files, and the end of
\* the history as WholeHops sees it, takes them down to the last correction.
LEMMA LossIsLose ==
    ASSUME RecoveryInv, PowerLoss, Committed' <=> Committed,
           History = Base \/ \A f \in Files : files'[f] = files[f],
           NEW n \in 0..Len(History), History' = SubSeq(History, 1, n),
           \A k \in n + 1..Len(History) : History[k][2] = 0
    PROVE  Hops!Lose
<1>1. /\ \A f \in Files : files'[f] = files[f] \/ files'[f] \in older[f]
      /\ \A f \in Files : files'[f] \subseteq files[f]
      /\ UNCHANGED marker /\ OlderFits
  BY FilesLost, TypesAtHand
<1>2. Pending' = Pending
  BY <1>1 DEF Pending
<1>3. DOMAIN Content' = Files
  BY DEF Content
<1>4. ASSUME NEW f \in Files
      PROVE  Content'[f] \subseteq Content[f] /\ Content[f] \ Content'[f] \subseteq files[f] \ files'[f]
  BY <1>1, <1>2 DEF Content
<1>5. ASSUME NEW f \in Files, NEW w \in Content[f] \ Content'[f], NEW done \in Hops!Corrections
      PROVE  done < w
  <2>1. w \in files[f] \ files'[f]
    BY <1>4, <1>5
  <2>2. files'[f] \in older[f] /\ History = Base
    BY <1>1, <2>1
  <2>3. PICK k \in DOMAIN Base : Base[k][2] # 0 /\ done = Base[k][1]
    BY <1>5, <2>2 DEF Hops!Corrections
  <2> QED
    BY <1>1, <2>1, <2>2, <2>3 DEF OlderFits
<1> QED
  BY <1>3, <1>4, <1>5 DEF Hops!Lose

\* Where the ledger that WholeHops sees stays whole.
LEMMA LossOfFilesIsLose ==
    ASSUME RecoveryInv, PowerLoss, Committed' <=> Committed,
           History = Base \/ \A f \in Files : files'[f] = files[f],
           History' = History
    PROVE  Hops!Lose
<1>1. History \in Seq(Byte) /\ Len(History) \in Nat
  BY HistoryNumbered, LenProperties
<1>2. History' = SubSeq(History, 1, Len(History)) /\ Len(History) \in 0..Len(History)
  BY <1>1, SubSeqFull
<1>3. \A k \in Len(History) + 1..Len(History) : History[k][2] = 0
  BY <1>1
<1> QED
  BY <1>2, <1>3, LossIsLose

\* What WholeHops allows an accident to do.
Disturbs ==
    \/ Hops!Hop /\ Stuck' = Stuck
    \/ Hops!Lose /\ Stuck' = Stuck
    \/ Hops!Lose /\ Stuck' /\ <<Content, History>>' # <<Content, History>>

LEMMA PowerLossDisturbs ==
    ASSUME RecoveryInv, RecoveryInv', PowerLoss
    PROVE  Disturbs
<1>1. /\ \A f \in Files : files'[f] = files[f] \/ files'[f] \in older[f]
      /\ \A f \in Files : files'[f] \subseteq files[f]
      /\ UNCHANGED marker /\ View /\ View' /\ OlderFits /\ DiskFits /\ Numbered
      /\ files \in Images /\ files' \in Images
      /\ marker \in Marker \cup {None} /\ ledger \in Seq(Byte) /\ Len(ledger) \in Nat
      /\ Len(disk) \in Nat
  <2>1. files' \in Images
    BY DEF RecoveryInv, LockInv, RecoveryTypeOK
  <2> QED
    BY <2>1, FilesLost, TypesAtHand, Viewed, ViewedNext
<1>2. CASE marker = None
  <2>1. PICK n \in 0..Len(ledger) : Len(disk) <= n /\ ledger' = SubSeq(ledger, 1, n)
    BY <1>2, LinesLost
  <2>2. /\ History = ledger /\ History' = ledger' /\ ~Committed /\ ~Committed' /\ ~Stuck /\ ~Stuck'
        /\ History = Base
    BY <1>1, <1>2 DEF View, Base
  <2>3. \A k \in n + 1..Len(ledger) : ledger[k][2] = 0
    <3>1. \A k \in n + 1..Len(ledger) : k \in 1..Len(ledger) /\ ~(k <= Len(disk))
      BY <1>1, <2>1
    <3>2. DOMAIN ledger = 1..Len(ledger)
      BY <1>1, LenProperties
    <3> QED
      BY <1>1, <2>2, <3>1, <3>2 DEF DiskFits
  <2>4. Hops!Lose
    BY <2>1, <2>2, <2>3, LossIsLose
  <2>5. Stuck' = Stuck
    BY <2>2, StuckOrNot
  <2> QED
    BY <2>4, <2>5 DEF Disturbs
<1>3. ASSUME marker \in Marker
      PROVE  Disturbs
  <2>1. /\ marker # None /\ Base = marker.prefix /\ Len(marker.prefix) \in Nat
        /\ marker.prefix \in Seq(Byte) /\ marker' = marker
    BY <1>1, <1>3, LenProperties DEF Base, Marker
  <2>2. (\E f \in Files : files'[f] # files[f]) => ledger = marker.prefix
    BY <1>1, <2>1 DEF OlderFits
  <2>3. (\A f \in Files : files'[f] = files[f]) => files' = files
    BY <1>1 DEF Images
  <2>4. ASSUME files' = files, ledger' = ledger, disk' = disk
        PROVE  Disturbs
    <3>1. Steady /\ Committed' = Committed
      BY <2>1, <2>4, SameDataView DEF Committed
    <3>2. Hops!Lose
      BY <2>4, <3>1, LossOfFilesIsLose DEF Steady
    <3> QED
      BY <3>1, <3>2 DEF Disturbs, Steady
  <2>5. CASE Len(ledger) < Len(marker.prefix) /\ ledger' = ledger
    <3>1. disk' = disk
      BY <1>3, <2>5, LostLedger, PendingLost
    <3>2. files' = files
      BY <2>2, <2>3, <2>5
    <3> QED
      BY <2>4, <2>5, <3>1, <3>2
  <2>6. ASSUME NEW l \in 0..PairLength, NEW i \in 0..PairLength,
               ledger = Begun(marker, l), ledger' = Begun(marker, i),
               i = PairLength => l = PairLength,
               disk = Begun(marker, PairLength) => i = PairLength
        PROVE  Disturbs
    <3>1. /\ ~(Len(ledger) < Len(marker.prefix)) /\ ~(Len(ledger') < Len(marker.prefix))
          /\ disk' = ledger' /\ PairLength \in 0..PairLength /\ 0 \in 0..PairLength
          /\ marker.prefix = Begun(marker, 0)
      <4>1. Len(ledger) = Len(marker.prefix) + l /\ Len(ledger') = Len(marker.prefix) + i
        <5>1. \A n \in 0..PairLength : Len(Begun(marker, n)) = Len(marker.prefix) + n
          BY <1>3, BegunBytes
        <5> QED
          BY <2>6, <5>1
      <4>2. disk' = ledger'
        BY <1>3, PendingLost
      <4>3. marker.prefix = Begun(marker, 0)
        BY <1>3, BegunNone
      <4> QED
        BY <2>1, <4>1, <4>2, <4>3
    <3>2. Committed' <=> i = PairLength
      <4>1. Begun(marker, i) = Begun(marker, PairLength) <=> i = PairLength
        BY <1>3, <3>1, BegunDiffer
      <4> QED
        BY <1>1, <1>3, <2>1, <2>6, <3>1, <4>1 DEF View, Begun
    <3>3. i = PairLength => files' = files
      <4>1. i = PairLength => ledger # marker.prefix
        BY <1>3, <2>6, <3>1, BegunDiffer
      <4> QED
        BY <2>2, <2>3, <4>1
    <3>4. files' = files => Stuck' = Stuck
      <4>1. files' = files => (ImagesKnown(marker)' <=> ImagesKnown(marker))
        BY <2>1 DEF ImagesKnown
      <4>2. (Stuck <=> ~ImagesKnown(marker)) /\ (Stuck' <=> ~ImagesKnown(marker)')
        BY <1>1, <1>3, <2>1, <3>1 DEF View
      <4> QED
        BY <4>1, <4>2, StuckOrNot
    <3>5. CASE Committed
      <4>1. disk = Begun(marker, PairLength) /\ ledger = disk
        BY <1>1, <1>3, <3>5 DEF View
      <4>2. i = PairLength
        BY <2>6, <4>1
      <4>3. ledger' = ledger /\ disk' = disk
        BY <2>6, <3>1, <4>1, <4>2
      <4> QED
        BY <2>4, <3>3, <4>2, <4>3
    <3>6. CASE ~Committed /\ i = PairLength
      BY <1>1, <1>3, <2>1, <3>1, <3>2, <3>3, <3>4, <3>6, CommitIsHop DEF Disturbs
    <3>7. CASE ~Committed /\ i # PairLength
      <4>1. /\ ~Committed' /\ History = marker.prefix /\ History' = History /\ History = Base
            /\ \A f \in Files : Content[f] = files[f] \ {marker.id}
            /\ \A f \in Files : Content'[f] = files'[f] \ {marker.id}
        BY <1>1, <1>3, <2>1, <3>1, <3>2, <3>7 DEF View
      <4>2. Hops!Lose
        BY <3>7, <4>1, LossOfFilesIsLose
      <4>3. CASE files' = files
        BY <3>4, <4>2, <4>3 DEF Disturbs
      <4>4. CASE files' # files
        <5>1. PICK f \in Files : files'[f] # files[f]
          BY <2>3, <4>4
        <5>2. /\ files[f] = marker.before[f] /\ files'[f] \subseteq files[f]
              /\ marker.after[f] = marker.before[f] \cup {marker.id}
          BY <1>1, <2>1, <5>1 DEF OlderFits, Numbered
        <5>3. marker.id \notin marker.before[f]
          BY <1>1, <1>3, <2>1 DEF Numbered, Marker, Images, Ids
        <5>4. PICK w \in files[f] : w \notin files'[f] /\ w # marker.id
          BY <5>1, <5>2, <5>3
        <5>5. ~ImagesKnown(marker)'
          BY <2>1, <5>2, <5>4 DEF ImagesKnown
        <5>6. Stuck'
          BY <1>1, <1>3, <2>1, <3>1, <5>5 DEF View
        <5>7. Content' # Content
          BY <4>1, <5>4
        <5> QED
          BY <4>2, <5>6, <5>7 DEF Disturbs
      <4> QED
        BY <4>3, <4>4
    <3> QED
      BY <3>5, <3>6, <3>7
  <2>7. ASSUME NEW l \in 0..PairLength, NEW n \in 0..Len(marker.prefix),
               ledger = Begun(marker, l), Len(disk) <= n, n < Len(marker.prefix),
               ledger' = SubSeq(marker.prefix, 1, n), Len(ledger') = n
        PROVE  Disturbs
    <3>1. /\ ~(Len(ledger) < Len(marker.prefix)) /\ Len(ledger') < Len(marker.prefix)
          /\ disk' = ledger' /\ Len(Begun(marker, PairLength)) = Len(marker.prefix) + PairLength
      <4>1. \A k \in 0..PairLength : Len(Begun(marker, k)) = Len(marker.prefix) + k
        BY <1>3, BegunBytes
      <4>2. Len(ledger) = Len(marker.prefix) + l /\ PairLength \in 0..PairLength
        BY <2>7, <4>1
      <4>3. disk' = ledger'
        BY <1>3, PendingLost
      <4>4. ~(Len(ledger) < Len(marker.prefix))
        BY <2>1, <4>2
      <4>5. Len(Begun(marker, PairLength)) = Len(marker.prefix) + PairLength
        BY <4>1, <4>2
      <4> QED
        BY <2>7, <4>3, <4>4, <4>5
    <3>2. ~Committed /\ ~Committed'
      <4>1. disk # Begun(marker, PairLength) /\ disk' # Begun(marker, PairLength)
        BY <1>1, <2>1, <2>7, <3>1
      <4> QED
        BY <1>1, <1>3, <2>1, <4>1 DEF View, Begun
    <3>3. History = marker.prefix /\ History' = SubSeq(History, 1, n) /\ History = Base /\ Stuck'
      BY <1>1, <1>3, <2>1, <2>7, <3>1, <3>2 DEF View
    <3>4. \A k \in n + 1..Len(History) : History[k][2] = 0
      <4>1. \A k \in n + 1..Len(marker.prefix) : k \in 1..Len(marker.prefix) /\ ~(k <= Len(disk))
        BY <1>1, <2>1, <2>7
      <4>2. DOMAIN marker.prefix = 1..Len(marker.prefix)
        BY <2>1, LenProperties
      <4> QED
        BY <1>1, <2>1, <3>3, <4>1, <4>2 DEF DiskFits
    <3>5. Hops!Lose
      BY <3>2, <3>3, <3>4, LossIsLose
    <3>6. History' # History
      <4>1. History' = ledger'
        BY <2>7, <3>3
      <4> QED
        BY <2>7, <3>3, <4>1
    <3> QED
      BY <3>3, <3>5, <3>6 DEF Disturbs
  <2> QED
    BY <1>3, <2>5, <2>6, <2>7, PendingLost
<1> QED
  BY <1>1, <1>2, <1>3

LEMMA EditIsWrite ==
    ASSUME RecoveryInv, RecoveryInv', NEW f \in Files, Edit(f)
    PROVE  Hops!Write(f) /\ Stuck' \in {Stuck, TRUE}
<1>1. /\ files' = [files EXCEPT ![f] = @ \cup {used.writes + 1}] /\ UNCHANGED <<ledger, disk, marker>>
      /\ Affords("writes") /\ View /\ View' /\ Numbered /\ files \in Images
      /\ used.writes \in Nat /\ marker \in Marker \cup {None}
  BY TypesAtHand, Viewed, ViewedNext DEF Edit
<1>2. Hops!Write(f)
  BY <1>1, WriteIsWrite
<1>3. CASE marker = None
  <2>1. ~Stuck /\ ~Stuck'
    BY <1>1, <1>3 DEF View
  <2> QED
    BY <1>2, <2>1, StuckOrNot
<1>4. CASE marker # None
  <2>1. marker \in Marker /\ marker' = marker
    BY <1>1, <1>4
  <2>2. used.writes + 1 \in files'[f]
    BY <1>1 DEF Images
  <2>3. used.writes + 1 \notin marker.before[f] /\ marker.id # used.writes + 1
    BY <1>1, <1>4, <2>1 DEF Numbered, Marker, Images, Ids
  <2>4. ~ImagesKnown(marker)'
    BY <1>1, <1>4, <2>1, <2>2, <2>3 DEF ImagesKnown, Numbered
  <2>5. Stuck'
    BY <1>1, <2>1, <2>4 DEF View
  <2> QED
    BY <1>2, <2>5, StuckOrNot
<1> QED
  BY <1>2, <1>3, <1>4

\* Only an outage or an edit counts as an accident.
LEMMA AccidentsCounted ==
    ASSUME RecoveryInv
    PROVE  /\ UNCHANGED used => UNCHANGED Accidents
           /\ \A what \in {"writes", "visits", "previews", "stops"} :
                Spend(what) => UNCHANGED Accidents
           /\ PowerLoss => Accidents' = Accidents + 1
           /\ \A f \in Files : Edit(f) => Accidents' = Accidents + 1
<1>1. UsedTyped /\ used.outages \in Nat /\ used.edits \in Nat
  BY TypesAtHand DEF UsedTyped
<1>2. \A what \in {"writes", "visits", "previews", "stops"} : Spend(what) => UNCHANGED Accidents
  BY <1>1, SpendTyped DEF Accidents
<1>3. PowerLoss => Accidents' = Accidents + 1
  <2> SUFFICES ASSUME PowerLoss PROVE Accidents' = Accidents + 1
    OBVIOUS
  <2>1. used'.outages = used.outages + 1 /\ used'.edits = used.edits
    BY FilesLost
  <2> QED
    BY <1>1, <2>1 DEF Accidents
<1>4. \A f \in Files : Edit(f) => Accidents' = Accidents + 1
  <2> SUFFICES ASSUME NEW f \in Files, Edit(f) PROVE Accidents' = Accidents + 1
    OBVIOUS
  <2>1. used' = [used EXCEPT !.writes = @ + 1, !.edits = @ + 1]
    BY DEF Edit
  <2>2. used'.outages = used.outages /\ used'.edits = used.edits + 1
    BY <1>1, <2>1 DEF UsedTyped
  <2> QED
    BY <1>1, <2>2 DEF Accidents
<1> QED
  BY <1>2, <1>3, <1>4 DEF Accidents

Sight == <<Content, History, Stuck, Accidents>>

LEMMA StepIsHop ==
    ASSUME RecoveryInv, RecoveryInv', [Next]_vars
    PROVE  [Hops!Next]_Sight
<1>1. ASSUME HopOrNot, UNCHANGED Accidents PROVE [Hops!Next]_Sight
  <2>1. Stuck' = Stuck
    BY <1>1, StuckOrNot DEF HopOrNot
  <2> QED
    BY <1>1, <2>1 DEF HopOrNot, Sight, Hops!Next, Hops!Undisturbed
<1>2. ASSUME UNCHANGED dataVars, UNCHANGED Accidents PROVE [Hops!Next]_Sight
  BY <1>2, SameDataView DEF dataVars, Steady, Sight
<1>3. CASE UNCHANGED vars
  BY <1>2, <1>3, AccidentsCounted DEF vars
<1>4. ASSUME NEW c \in Command, CommandStep(c) PROVE [Hops!Next]_Sight
  <2>1. CASE Begin(c) \/ EnterRoot(c) \/ RefusedAtMarker(c) \/ Leave(c)
    BY <1>2, <2>1, AccidentsCounted DEF Begin, EnterRoot, RefusedAtMarker, Leave
  <2>2. ASSUME marker = None, marker' = None, Spend("writes"),
               Hops!Line \/ \E f \in Files : Hops!Write(f)
        PROVE  [Hops!Next]_Sight
    <3>1. ~Stuck /\ ~Stuck'
      BY <2>2, Viewed, ViewedNext DEF View
    <3>2. Stuck' = Stuck /\ UNCHANGED Accidents
      BY <2>2, <3>1, StuckOrNot, AccidentsCounted
    <3> QED
      BY <2>2, <3>1, <3>2 DEF Hops!Next, Hops!Undisturbed
  <2>3. CASE WriteLine(c)
    <3>1. marker = None /\ marker' = None /\ Spend("writes")
      BY <2>3, TypesAtHand DEF WriteLine, LockInv, NoCommandBesideAMarker
    <3> QED
      BY <2>2, <2>3, <3>1, WriteLineIsLine
  <2>4. ASSUME NEW f \in Files, WriteFile(c, f) PROVE [Hops!Next]_Sight
    <3>1. marker = None /\ marker' = None /\ Spend("writes")
      BY <2>4, TypesAtHand DEF WriteFile, LockInv, NoCommandBesideAMarker
    <3>2. Hops!Write(f)
      BY <2>4, WriteIsWrite DEF WriteFile
    <3> QED
      BY <2>2, <3>1, <3>2
  <2> QED
    BY <1>4, <2>1, <2>3, <2>4 DEF CommandStep
<1>5. ASSUME NEW p \in Operator,
             PreviewForce(p) \/ PreviewRecovery(p) \/ Locking(p) \/ Recheck(p) \/ GiveUp(p)
      PROVE  [Hops!Next]_Sight
  BY <1>2, <1>5, AccidentsCounted
     DEF PreviewForce, PreviewRecovery, Confirms, Locking, LockRuns, TakeGuard, Recheck, GiveUp
<1>6. ASSUME NEW p \in Operator,
             Truncate(p) \/ SyncLedger(p) \/ InstallImage(p) \/ AppendPair(p) \/ Unmark(p)
      PROVE  [Hops!Next]_Sight
  <2>1. HopOrNot
    BY <1>6, ReplayIsHop, UnmarkIsNoHop
  <2>2. UNCHANGED used
    BY <1>6 DEF Truncate, SyncLedger, InstallImage, AppendPair, Unmark
  <2> QED
    BY <1>1, <2>1, <2>2, AccidentsCounted
<1>7. ASSUME NEW p \in Operator, Publish(p) PROVE [Hops!Next]_Sight
  <2>1. HopOrNot
    BY <1>7, PublishIsNoHop
  <2>2. UNCHANGED Accidents
    BY <1>7, AccidentsCounted DEF Publish
  <2> QED
    BY <1>1, <2>1, <2>2
<1>8. ASSUME NEW p \in Proc, Stop(p) PROVE [Hops!Next]_Sight
  BY <1>2, <1>8, AccidentsCounted DEF Stop
<1>9. ASSUME NEW f \in Files, Edit(f) PROVE [Hops!Next]_Sight
  <2>1. Accidents' = Accidents + 1 /\ Hops!Write(f) /\ Stuck' \in {Stuck, TRUE}
    BY <1>9, AccidentsCounted, EditIsWrite
  <2> QED
    BY <2>1 DEF Hops!Next, Hops!Accident
<1>10. CASE PowerLoss
  <2>1. Accidents' = Accidents + 1 /\ Disturbs
    BY <1>10, AccidentsCounted, PowerLossDisturbs
  <2> QED
    BY <2>1 DEF Disturbs, Hops!Next, Hops!Accident
<1> QED
  BY <1>3, <1>4, <1>5, <1>6, <1>7, <1>8, <1>9, <1>10 DEF Next, HopStep, Replaying

\* A forced move changes its files and the ledger together, once or not at
\* all, wherever it and its recoveries are stopped, and undoes nothing that
\* commands and hands have written.  Only an edit by hand, or a loss of power
\* that takes earlier writes, leaves it half done, and then no command changes
\* anything more (forced_commit, forced_replay).
THEOREM ForcedMovesAreWhole == Spec => HopsAreWhole
<1>1. Init => Hops!Init
  <2> SUFFICES ASSUME Init PROVE Hops!Init
    OBVIOUS
  <2>1. /\ marker = None /\ ledger = <<>> /\ files = InitialFiles
        /\ used.outages = 0 /\ used.edits = 0
    BY DEF Init, Bound
  <2>2. History = <<>> /\ \A f \in Files : Content[f] = InitialFiles[f]
    BY <2>1 DEF History, Content, Pending, Committed
  <2>3. Content = InitialFiles
    BY <2>2 DEF Content
  <2>4. ~Stuck /\ Accidents = 0
    BY <2>1 DEF Stuck, Accidents
  <2> QED
    BY <2>2, <2>3, <2>4 DEF Hops!Init
<1>2. RecoveryInv /\ RecoveryInv' /\ [Next]_vars => [Hops!Next]_Sight
  BY StepIsHop
<1> QED
  BY <1>1, <1>2, RecoveryInvariant, PTL DEF Spec, HopsAreWhole, Hops!HopsSpec, Hops!seen, Sight

=============================================================================
