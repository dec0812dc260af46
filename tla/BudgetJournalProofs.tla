------------------------- MODULE BudgetJournalProofs ------------------------
(* Theorems about the journal of a budget account and its witness, for any *)
(* number of receipts: every invariant the run checks, and that the two    *)
(* files implement one append-only log.                                    *)
EXTENDS BudgetJournal, SequenceTheorems, TLAPS

USE MaxReceiptsAssumption, NoneAssumption

-----------------------------------------------------------------------------
(* The inductive invariant.  Between transactions one of the two files     *)
(* decides what the log is: the witness, of which the journal then holds   *)
(* nothing but receipts, or a journal whose witness was lost.  During one  *)
(* the phase says what either file may hold.                               *)

Lines(file) == IF file = None THEN <<>> ELSE file.receipts

HoldsOnly(file, receipts) == Range(Lines(file)) \subseteq Range(receipts)

\* What the next transaction may be charged for.
Continues(receipts) ==
    /\ IsPrefix(log, receipts)
    /\ Len(receipts) <= Len(log) + 1
    /\ Len(receipts) <= minted
    /\ Chained(receipts)

WitnessDecides == Continues(witness.receipts) /\ HoldsOnly(journal, witness.receipts)

WitnessLost ==
    witness = Empty /\ journal # None /\ Replays(journal) /\ Continues(journal.receipts)

AtRest == txn = None => WitnessDecides \/ WitnessLost

WholeFile(receipts) == [receipts |-> receipts, torn |-> FALSE]

\* The line a transaction is about to append continues what it replayed.
Line == txn.line

LineFollows ==
    /\ Line \in Receipt
    /\ Line.sequence = Len(log) + 1
    /\ Line.previous = IF log = <<>> THEN None ELSE log[Len(log)].id
    /\ Len(log) + 1 <= minted

InTransaction ==
    txn # None =>
      /\ txn.base = log /\ Chained(log) /\ Len(log) <= minted
      /\ txn.phase # "ready" => LineFollows
      /\ txn.phase \in {"ready", "witnessing"} => witness = WholeFile(log)
      /\ txn.phase \in {"journaling", "undoing"} => witness = WholeFile(Append(log, Line))
      /\ txn.phase \in {"retracting", "failed"} => witness.receipts \in {log, Append(log, Line)}
      /\ txn.phase \notin {"undoing", "failed"} => HoldsOnly(journal, log)
      /\ txn.phase = "undoing" => HoldsOnly(txn.undo, log)
      /\ txn.phase \in {"undoing", "failed"} => HoldsOnly(journal, witness.receipts)

\* What no crash, accident or failed undo has touched.
Clean(file, receipts) ==
    IF receipts = <<>> THEN file \in {None, Empty} ELSE file = WholeFile(receipts)

Undamaged ==
    ~mishap =>
      /\ txn = None => Reading \in {"absent", "verified"}
      /\ txn # None =>
           /\ txn.phase # "undoing" => Clean(journal, log)
           /\ txn.phase = "undoing" => Clean(txn.undo, log)
           /\ txn.phase = "failed" => witness = WholeFile(log)

JournalInv == JournalTypeOK /\ AtRest /\ InTransaction /\ Undamaged

-----------------------------------------------------------------------------
(* Sequences of receipts.                                                  *)

\* What IsPrefix says, element by element.
LEMMA PrefixElements ==
    ASSUME NEW S, NEW s \in Seq(S), NEW t \in Seq(S)
    PROVE  IsPrefix(s, t) <=> Len(s) <= Len(t) /\ \A n \in 1..Len(s) : s[n] = t[n]
<1>1. ASSUME Len(s) <= Len(t)
      PROVE  /\ SubSeq(t, 1, Len(s)) \in Seq(S)
             /\ Len(SubSeq(t, 1, Len(s))) = Len(s)
             /\ \A n \in 1..Len(s) : SubSeq(t, 1, Len(s))[n] = t[n]
  <2>1. \A n \in 1..Len(s) : t[n] \in S
    BY <1>1, ElementOfSeq
  <2> QED
    BY <2>1, SubSeqProperties
<1>2. SubSeq(s, 1, Len(s)) = s
  BY SubSeqFull
<1>3. ASSUME Len(s) <= Len(t), \A n \in 1..Len(s) : s[n] = t[n]
      PROVE  SubSeq(t, 1, Len(s)) = s
  BY <1>1, <1>3, SeqEqual
<1> QED
  BY <1>1, <1>2, <1>3 DEF IsPrefix

\* A log is a prefix of itself and of itself with a line more.
LEMMA PrefixOfLonger ==
    ASSUME NEW S, NEW s \in Seq(S), NEW e \in S
    PROVE  IsPrefix(s, s) /\ IsPrefix(s, Append(s, e))
<1>1. /\ Append(s, e) \in Seq(S)
      /\ Len(Append(s, e)) = Len(s) + 1
      /\ \A n \in 1..Len(s) : Append(s, e)[n] = s[n]
  BY AppendProperties
<1>2. IsPrefix(s, s)
  BY PrefixElements
<1>3. Len(s) \in Nat
  BY LenProperties
<1>4. Len(s) <= Len(Append(s, e)) /\ \A n \in 1..Len(s) : s[n] = Append(s, e)[n]
  BY <1>1, <1>3
<1>5. IsPrefix(s, Append(s, e))
  BY <1>1, <1>4, PrefixElements
<1> QED
  BY <1>2, <1>5

\* What extends a log by at most a line is the log, or the log and a line.
LEMMA LongerByOne ==
    ASSUME NEW S, NEW s \in Seq(S), NEW t \in Seq(S), IsPrefix(s, t), Len(t) <= Len(s) + 1
    PROVE  t = s \/ \E e \in S : t = Append(s, e)
<1>1. Len(s) <= Len(t) /\ \A n \in 1..Len(s) : s[n] = t[n]
  BY PrefixElements
<1>2. CASE Len(t) = Len(s)
  BY <1>1, <1>2, SeqEqual
<1>3. CASE Len(t) = Len(s) + 1
  <2> DEFINE e == t[Len(t)]
  <2>1. e \in S
    BY <1>3, ElementOfSeq
  <2>2. Append(s, e) = t
    BY <1>1, <1>3, <2>1, AppendProperties, SeqEqual
  <2> QED
    BY <2>1, <2>2
<1> QED
  BY <1>1, <1>2, <1>3

\* The receipts of a log with a line more.
LEMMA RangeOfAppend ==
    ASSUME NEW S, NEW s \in Seq(S), NEW e \in S
    PROVE  Range(Append(s, e)) = Range(s) \cup {e}
<1>1. /\ Append(s, e) \in Seq(S)
      /\ Len(Append(s, e)) = Len(s) + 1
      /\ \A n \in 1..Len(s) : Append(s, e)[n] = s[n]
      /\ Append(s, e)[Len(s) + 1] = e
  BY AppendProperties
<1>2. /\ DOMAIN s = 1..Len(s) /\ Len(s) \in Nat
      /\ DOMAIN Append(s, e) = 1..Len(s) + 1
  BY <1>1, LenProperties
<1> QED
  BY <1>1, <1>2 DEF Range

\* Cutting a log, or editing a line out of it, adds nothing to it.
LEMMA RangeOfCut ==
    ASSUME NEW S, NEW s \in Seq(S), NEW n \in 0..Len(s)
    PROVE  SubSeq(s, 1, n) \in Seq(S) /\ Range(SubSeq(s, 1, n)) \subseteq Range(s)
<1>1. \A i \in 1..n : s[i] \in S
  BY ElementOfSeq
<1>2. /\ SubSeq(s, 1, n) \in Seq(S)
      /\ Len(SubSeq(s, 1, n)) = n
      /\ \A i \in 1..n : SubSeq(s, 1, n)[i] = s[i]
  BY <1>1, SubSeqProperties
<1>3. DOMAIN s = 1..Len(s) /\ DOMAIN SubSeq(s, 1, n) = 1..n
  BY <1>2, LenProperties
<1> QED
  BY <1>2, <1>3 DEF Range

LEMMA RangeOfRemoveAt ==
    ASSUME NEW S, NEW s \in Seq(S), NEW n \in DOMAIN s
    PROVE  RemoveAt(s, n) \in Seq(S) /\ Range(RemoveAt(s, n)) \subseteq Range(s)
<1> DEFINE front == SubSeq(s, 1, n - 1)
           rest == SubSeq(s, n + 1, Len(s))
<1>1. front \in Seq(S) /\ Range(front) \subseteq Range(s)
  BY RangeOfCut
<1>2. \A i \in n + 1..Len(s) : s[i] \in S
  BY ElementOfSeq
<1>3. /\ rest \in Seq(S)
      /\ \A i \in 1..Len(rest) : i + n \in 1..Len(s) /\ rest[i] = s[n + i]
  BY <1>2, SubSeqProperties
<1>4. Range(rest) \subseteq Range(s)
  <2>1. DOMAIN s = 1..Len(s) /\ DOMAIN rest = 1..Len(rest)
    BY <1>3, LenProperties
  <2> QED
    BY <1>3, <2>1 DEF Range
<1>5. Range(front \o rest) = Range(front) \cup Range(rest) /\ front \o rest \in Seq(S)
  <2>1. front \in Seq(S) /\ rest \in Seq(S)
    BY <1>1, <1>3
  <2> HIDE DEF front, rest
  <2>2. Range(front \o rest) = Range(front) \cup Range(rest)
    BY <2>1, RangeConcatenation
  <2>3. front \o rest \in Seq(S)
    BY <2>1, ConcatProperties
  <2> QED
    BY <2>2, <2>3
<1> QED
  BY <1>1, <1>4, <1>5 DEF RemoveAt

\* A chain is continued by the line that names its length and its end.
LEMMA ChainGoesOn ==
    ASSUME NEW s \in Seq(Receipt), Chained(s), NEW e \in Receipt,
           e.sequence = Len(s) + 1,
           e.previous = IF s = <<>> THEN None ELSE s[Len(s)].id
    PROVE  Chained(Append(s, e))
<1>1. /\ Append(s, e) \in Seq(Receipt)
      /\ Len(Append(s, e)) = Len(s) + 1
      /\ \A n \in 1..Len(s) : Append(s, e)[n] = s[n]
      /\ Append(s, e)[Len(s) + 1] = e
  BY AppendProperties
<1>2. s = <<>> <=> Len(s) = 0
  BY EmptySeq
<1> QED
  BY <1>1, <1>2 DEF Chained

\* Of two chains, one that holds nothing but receipts of the other is where
\* the other begins: a receipt's number is its place.
LEMMA ChainsAgree ==
    ASSUME NEW s \in Seq(Receipt), NEW t \in Seq(Receipt), Chained(s), Chained(t),
           Range(s) \subseteq Range(t)
    PROVE  IsPrefix(s, t)
<1>1. ASSUME NEW n \in 1..Len(s)
      PROVE  n \in 1..Len(t) /\ s[n] = t[n]
  <2>1. PICK m \in 1..Len(t) : s[n] = t[m]
    <3>1. DOMAIN s = 1..Len(s) /\ DOMAIN t = 1..Len(t)
      BY LenProperties
    <3> QED
      BY <3>1 DEF Range
  <2>2. s[n].sequence = n /\ t[m].sequence = m
    BY DEF Chained
  <2> QED
    BY <2>1, <2>2
<1>2. Len(s) <= Len(t)
  <2>1. CASE Len(s) = 0
    BY <2>1
  <2>2. CASE Len(s) # 0
    BY <1>1, <2>2
  <2> QED
    BY <2>1, <2>2
<1> QED
  BY <1>1, <1>2, PrefixElements

-----------------------------------------------------------------------------
(* The steps.                                                              *)

\* A file or a transaction that is there is not None.
LEMMA PresentIsNotNone == None \notin File /\ None \notin Transaction
OBVIOUS

\* A transaction that has replayed a log.
LEMMA ReadyTyped ==
    ASSUME NEW receipts \in Seq(Receipt)
    PROVE  /\ Ready(receipts) \in Transaction
           /\ Ready(receipts) # None
           /\ Ready(receipts).base = receipts
           /\ Ready(receipts).phase = "ready"
<1>1. Ready(receipts) \in Transaction
  BY DEF Ready, Transaction, Phases
<1> QED
  BY <1>1, PresentIsNotNone DEF Ready

\* A transaction that goes on to another phase.
LEMMA PhaseTyped ==
    ASSUME NEW t \in Transaction, NEW phase \in Phases, NEW next, next = [t EXCEPT !.phase = phase]
    PROVE  /\ next \in Transaction /\ next # None /\ next.phase = phase
           /\ next.base = t.base /\ next.line = t.line /\ next.undo = t.undo
<1>1. /\ next \in Transaction /\ next.phase = phase
      /\ next.base = t.base /\ next.line = t.line /\ next.undo = t.undo
  BY DEF Transaction
<1> QED
  BY <1>1, PresentIsNotNone

\* A transaction that opens is served the whole of one file.
LEMMA Served ==
    ASSUME NEW receipts \in Seq(Receipt), Serve(receipts)
    PROVE  /\ txn' \in Transaction /\ txn' # None
           /\ txn'.base = receipts /\ txn'.phase = "ready"
           /\ log' = receipts /\ mishap' = FALSE
BY ReadyTyped DEF Serve

\* What a transaction knows of its log and its line.
LEMMA InPhase ==
    ASSUME JournalInv, txn # None
    PROVE  /\ txn \in Transaction /\ txn.base = log
           /\ log \in Seq(Receipt) /\ Len(log) \in Nat
           /\ txn.phase # "ready" =>
                /\ LineFollows /\ Line \in Receipt
                /\ Append(log, Line) \in Seq(Receipt)
                /\ Range(Append(log, Line)) = Range(log) \cup {Line}
<1>1. /\ txn \in Transaction /\ txn.base = log
      /\ log \in Seq(Receipt)
      /\ txn.phase # "ready" => LineFollows /\ Line \in Receipt
  BY DEF JournalInv, JournalTypeOK, InTransaction, LineFollows
<1> QED
  BY <1>1, LenProperties, AppendProperties, RangeOfAppend

\* Whenever a transaction ends, the log goes on from what it has replayed, or
\* from that and its line.
LEMMA TransactionContinues ==
    ASSUME JournalInv, txn # None
    PROVE  /\ Continues(log)
           /\ txn.phase # "ready" => Continues(Append(log, Line))
<1>1. log \in Seq(Receipt) /\ Len(log) \in Nat
  BY LenProperties DEF JournalInv, JournalTypeOK
<1>2. Continues(log)
  BY <1>1, PrefixOfLonger DEF Continues, JournalInv, InTransaction
<1>3. ASSUME txn.phase # "ready"
      PROVE  Continues(Append(log, Line))
  <2>1. LineFollows /\ Chained(log)
    BY <1>3 DEF JournalInv, InTransaction
  <2>2. IsPrefix(log, Append(log, Line)) /\ Len(Append(log, Line)) = Len(log) + 1
    BY <1>1, <2>1, PrefixOfLonger, AppendProperties DEF LineFollows
  <2>3. Chained(Append(log, Line))
    BY <1>1, <2>1, ChainGoesOn DEF LineFollows
  <2> QED
    BY <1>1, <2>1, <2>2, <2>3 DEF Continues, LineFollows
<1> QED
  BY <1>2, <1>3

\* Inside a transaction the witness decides, wherever the transaction ends.
LEMMA WitnessKnows ==
    ASSUME JournalInv, txn # None
    PROVE  WitnessDecides
<1>1. CASE txn.phase = "ready"
  <2>1. witness = WholeFile(log) /\ HoldsOnly(journal, log)
    BY <1>1 DEF JournalInv, InTransaction
  <2> QED
    BY <2>1, TransactionContinues DEF WitnessDecides, WholeFile
<1>2. CASE txn.phase # "ready"
  <2>1. Range(log) \subseteq Range(Append(log, Line))
    BY <1>2, InPhase
  <2>2. Continues(log) /\ Continues(Append(log, Line))
    BY <1>2, TransactionContinues
  <2>3. txn.phase \in {"witnessing", "journaling", "undoing", "retracting", "failed"}
    BY <1>2, InPhase DEF Transaction, Phases
  <2>4. \/ witness.receipts = log /\ HoldsOnly(journal, log)
        \/ witness.receipts = Append(log, Line)
             /\ (HoldsOnly(journal, log) \/ HoldsOnly(journal, witness.receipts))
    BY <2>3 DEF JournalInv, InTransaction, WholeFile
  <2>5. Continues(witness.receipts)
    BY <2>2, <2>4
  <2>6. HoldsOnly(journal, witness.receipts)
    BY <2>1, <2>4 DEF HoldsOnly
  <2> QED
    BY <2>5, <2>6 DEF WitnessDecides
<1> QED
  BY <1>1, <1>2

\* A journal that replays beside a lost witness decides alone.
LEMMA LoneJournalDecides ==
    ASSUME JournalInv, txn = None, witness = Empty, journal # None, Replays(journal)
    PROVE  WitnessLost
<1>1. journal.receipts # <<>> /\ journal.receipts \in Seq(Receipt)
  BY DEF Replays, JournalInv, JournalTypeOK, File
<1>2. journal.receipts[1] \in Range(journal.receipts)
  BY <1>1, EmptySeq, LenProperties DEF Range
<1>3. Range(witness.receipts) = {}
  BY DEF Empty, Range
<1> QED
  BY <1>2, <1>3 DEF JournalInv, AtRest, WitnessDecides, HoldsOnly, Lines

\* What the append finds behind its open, and may make of it.
LEMMA OpenedForLine ==
    ASSUME JournalInv, txn # None, txn.phase = "journaling", OpenedJournal # None
    PROVE  /\ OpenedJournal \in File
           /\ \A file \in Partly(OpenedJournal) :
                file \in File /\ file # None /\ HoldsOnly(file, Append(log, Line))
<1>0. /\ log \in Seq(Receipt) /\ Line \in Receipt
      /\ Range(Append(log, Line)) = Range(log) \cup {Line}
      /\ HoldsOnly(journal, log)
  BY InPhase DEF JournalInv, InTransaction
<1>1. OpenedJournal \in {journal, Empty}
  BY DEF OpenedJournal
<1>2. Empty \in File /\ Range(Empty.receipts) = {}
  BY EmptySeq DEF Empty, File, Range
<1>3. OpenedJournal \in File /\ Range(OpenedJournal.receipts) \subseteq Range(log)
  BY <1>0, <1>1, <1>2 DEF JournalInv, JournalTypeOK, HoldsOnly, Lines
<1> DEFINE old == OpenedJournal.receipts
<1>4. /\ old \in Seq(Receipt)
      /\ Append(old, Line) \in Seq(Receipt)
      /\ Range(Append(old, Line)) = Range(old) \cup {Line}
  <2>1. old \in Seq(Receipt)
    BY <1>3 DEF File
  <2> QED
    BY <1>0, <2>1, AppendProperties, RangeOfAppend
<1>5. ASSUME NEW file \in Partly(OpenedJournal)
      PROVE  file \in File /\ file.receipts \in {old, Append(old, Line)}
  BY <1>3, <1>4, <1>5 DEF Partly, Whole, File, Line
<1>6. ASSUME NEW file \in Partly(OpenedJournal)
      PROVE  Range(file.receipts) \subseteq Range(Append(log, Line))
  <2>1. CASE file.receipts = old
    BY <1>0, <1>3, <2>1
  <2>2. CASE file.receipts = Append(old, Line)
    BY <1>0, <1>3, <1>4, <2>2
  <2> QED
    BY <1>5, <2>1, <2>2
<1>7. ASSUME NEW file \in Partly(OpenedJournal)
      PROVE  file # None
  BY <1>5, PresentIsNotNone
<1> QED
  BY <1>3, <1>5, <1>6, <1>7 DEF HoldsOnly, Lines

LEMMA OpenAbsentKeeps == JournalInv /\ OpenAbsent => JournalInv'
<1> SUFFICES ASSUME JournalInv, OpenAbsent PROVE JournalInv'
  OBVIOUS
<1>0. /\ txn' \in Transaction /\ txn' # None
      /\ txn'.base = <<>> /\ txn'.phase = "ready"
      /\ log' = <<>> /\ log' \in Seq(Receipt) /\ Len(log') = 0 /\ mishap' = FALSE
  BY Served, EmptySeq DEF OpenAbsent
<1>00. witness = Empty /\ journal \in {None, Empty}
  BY DEF OpenAbsent, Reading, Classify
<1>1. JournalTypeOK'
  BY <1>0 DEF OpenAbsent, JournalInv, JournalTypeOK
<1>2. AtRest'
  BY <1>0 DEF AtRest
<1>3. InTransaction'
  <2>1. Chained(<<>>)
    BY EmptySeq DEF Chained
  <2>2. Range(<<>>) = {}
    BY DEF Range
  <2> QED
    BY <1>0, <1>00, <2>1, <2>2
       DEF OpenAbsent, InTransaction, WholeFile, Empty, HoldsOnly, Lines, JournalInv, JournalTypeOK
<1>4. Undamaged'
  BY <1>0, <1>00 DEF OpenAbsent, Undamaged, Clean
<1> QED
  BY <1>1, <1>2, <1>3, <1>4 DEF JournalInv

\* A transaction that opens on a journal its witness is a copy of.
LEMMA OpensOnJournal ==
    ASSUME JournalInv, NEW found \in Seq(Receipt), journal = WholeFile(found), found # <<>>,
           Continues(found), Serve(found), witness' = journal, UNCHANGED <<journal, minted>>
    PROVE  JournalInv'
<1>0. /\ txn' \in Transaction /\ txn' # None
      /\ txn'.base = found /\ txn'.phase = "ready"
      /\ log' = found /\ mishap' = FALSE
  BY Served
<1>1. JournalTypeOK'
  <2>1. journal \in File
    BY DEF WholeFile, File
  <2> QED
    BY <1>0, <2>1 DEF JournalInv, JournalTypeOK
<1>2. AtRest'
  BY <1>0 DEF AtRest
<1>3. InTransaction'
  <2>1. Range(Lines(journal)) \subseteq Range(found)
    BY DEF Lines, WholeFile, Range
  <2> QED
    BY <1>0, <2>1 DEF InTransaction, HoldsOnly, Lines, Continues
<1>4. Undamaged'
  BY <1>0 DEF Undamaged, Clean
<1> QED
  BY <1>1, <1>2, <1>3, <1>4 DEF JournalInv

LEMMA OpenVerifiedKeeps == JournalInv /\ OpenVerified => JournalInv'
<1> SUFFICES ASSUME JournalInv, OpenVerified PROVE JournalInv'
  OBVIOUS
<1> DEFINE found == journal.receipts
<1>1. /\ txn = None /\ witness = journal /\ witness # Empty /\ Replays(journal)
      /\ journal \in File /\ found \in Seq(Receipt)
  BY DEF OpenVerified, Reading, Classify, JournalInv, JournalTypeOK, File
<1>2. journal = WholeFile(found) /\ found # <<>>
  BY <1>1 DEF Replays, WholeFile, File
<1>3. Continues(found)
  BY <1>1 DEF JournalInv, AtRest, WitnessDecides, WitnessLost
<1> QED
  BY <1>1, <1>2, <1>3, OpensOnJournal DEF OpenVerified

LEMMA AdoptKeeps == JournalInv /\ Adopt => JournalInv'
<1> SUFFICES ASSUME JournalInv, Adopt PROVE JournalInv'
  OBVIOUS
<1> DEFINE found == journal.receipts
<1>0. /\ txn = None /\ witness = Empty /\ journal \in File /\ journal # None
      /\ found # <<>> /\ Replays(journal)
  BY DEF Adopt, Reading, Classify, Replays, JournalInv, JournalTypeOK
<1>00. /\ found \in Seq(Receipt) /\ journal = WholeFile(found)
       /\ Continues(found) /\ Chained(found)
  BY <1>0, LoneJournalDecides DEF WitnessLost, File, WholeFile, Replays
<1>5. ASSUME witness' = journal, Serve(found), UNCHANGED <<journal, minted>>
      PROVE  JournalInv'
  BY <1>0, <1>00, <1>5, OpensOnJournal
<1>6. ASSUME witness' \in {Empty, journal}, UNCHANGED <<txn, log, mishap, journal, minted>>
      PROVE  JournalInv'
  <2>1. JournalTypeOK'
    BY <1>0, <1>6 DEF JournalInv, JournalTypeOK
  <2>2. AtRest'
    BY <1>0, <1>00, <1>6
       DEF AtRest, WitnessDecides, WitnessLost, Continues, HoldsOnly, Lines
  <2>3. InTransaction'
    BY <1>0, <1>6 DEF InTransaction
  <2>4. Undamaged'
    BY <1>0, <1>00, <1>6 DEF Undamaged, Reading, Classify, WholeFile, Empty
  <2> QED
    BY <2>1, <2>2, <2>3, <2>4 DEF JournalInv
<1> QED
  BY <1>5, <1>6 DEF Adopt

LEMMA CloseKeeps == JournalInv /\ Close => JournalInv'
<1> SUFFICES ASSUME JournalInv, Close PROVE JournalInv'
  OBVIOUS
<1>1. JournalTypeOK'
  BY DEF Close, JournalInv, JournalTypeOK
<1>2. AtRest'
  <2>1. WitnessDecides
    BY WitnessKnows DEF Close
  <2> QED
    BY <2>1 DEF Close, AtRest, WitnessDecides, Continues, HoldsOnly, Lines
<1>3. InTransaction'
  BY DEF Close, InTransaction
<1>4. Undamaged'
  <2>1. ASSUME ~mishap
        PROVE  Clean(journal, log) /\ witness = WholeFile(log) /\ Chained(log)
    BY <2>1 DEF Close, JournalInv, Undamaged, InTransaction
  <2>2. WholeFile(log) \in File
    BY DEF WholeFile, File, JournalInv, JournalTypeOK
  <2>3. WholeFile(log) # None
    BY <2>2, PresentIsNotNone
  <2>4. ASSUME ~mishap
        PROVE  Reading \in {"absent", "verified"}
    <3>1. CASE log = <<>>
      BY <2>1, <2>4, <3>1 DEF Reading, Classify, Clean, WholeFile, Empty
    <3>2. CASE log # <<>>
      <4>1. journal = WholeFile(log) /\ witness = WholeFile(log)
        BY <2>1, <2>4, <3>2 DEF Clean
      <4>2. /\ ~WholeFile(log).torn /\ WholeFile(log).receipts = log
            /\ WholeFile(log) \notin {None, Empty}
        BY <2>3, <3>2 DEF WholeFile, Empty
      <4>3. Replays(WholeFile(log))
        BY <2>1, <2>4, <3>2, <4>2 DEF Replays
      <4> QED
        BY <4>1, <4>2, <4>3 DEF Reading, Classify
    <3> QED
      BY <3>1, <3>2
  <2> QED
    BY <2>4 DEF Close, Undamaged, Reading
<1> QED
  BY <1>1, <1>2, <1>3, <1>4 DEF JournalInv

LEMMA CrashKeeps == JournalInv /\ Crash => JournalInv'
<1> SUFFICES ASSUME JournalInv, Crash PROVE JournalInv'
  OBVIOUS
<1>1. JournalTypeOK'
  BY DEF Crash, JournalInv, JournalTypeOK
<1>2. AtRest'
  <2>1. WitnessDecides
    BY WitnessKnows DEF Crash
  <2> QED
    BY <2>1 DEF Crash, AtRest, WitnessDecides, Continues, HoldsOnly, Lines
<1>3. InTransaction'
  BY DEF Crash, InTransaction
<1>4. Undamaged'
  BY DEF Crash, Undamaged
<1> QED
  BY <1>1, <1>2, <1>3, <1>4 DEF JournalInv

\* An append begins with the line that continues the log.
LEMMA BeginAppendStep ==
    ASSUME JournalInv, BeginAppend
    PROVE  /\ NextLine \in Receipt
           /\ NextLine.sequence = Len(log) + 1 /\ Len(log) \in Nat /\ Len(log) <= minted
           /\ NextLine.previous = IF log = <<>> THEN None ELSE log[Len(log)].id
           /\ txn \in Transaction /\ txn # None /\ txn' \in Transaction /\ txn' # None
           /\ txn'.base = txn.base /\ txn'.line = NextLine /\ txn'.phase = "witnessing"
<1>0. /\ txn \in Transaction /\ txn # None /\ NextLine \in Receipt
      /\ NextLine.sequence = Len(log) + 1 /\ Len(log) \in Nat /\ Len(log) <= minted
      /\ NextLine.previous = IF log = <<>> THEN None ELSE log[Len(log)].id
  <2>1. txn \in Transaction /\ txn # None /\ txn.base = log /\ Len(log) \in Nat /\ Len(log) <= minted
    BY LenProperties DEF BeginAppend, JournalInv, JournalTypeOK, InTransaction
  <2>2. log = <<>> \/ Last(log) \in Receipt
    BY ElementOfSeq, EmptySeq DEF Last, JournalInv, JournalTypeOK
  <2>3. NextLine \in Receipt
    BY <2>1, <2>2 DEF NextLine, Receipt, BeginAppend, JournalInv, JournalTypeOK
  <2> QED
    BY <2>1, <2>3 DEF NextLine, Last
<1>00. /\ txn' \in Transaction /\ txn' # None
       /\ txn'.base = txn.base /\ txn'.line = NextLine /\ txn'.phase = "witnessing"
  <2>1. /\ txn' \in Transaction
        /\ txn'.base = txn.base /\ txn'.line = NextLine /\ txn'.phase = "witnessing"
    BY <1>0 DEF BeginAppend, Transaction, Phases
  <2> QED
    BY <2>1, PresentIsNotNone
<1> QED
  BY <1>0, <1>00

LEMMA BeginAppendKeeps == JournalInv /\ BeginAppend => JournalInv'
<1> SUFFICES ASSUME JournalInv, BeginAppend PROVE JournalInv'
  OBVIOUS
<1>0. /\ NextLine \in Receipt
      /\ NextLine.sequence = Len(log) + 1 /\ Len(log) \in Nat /\ Len(log) <= minted
      /\ NextLine.previous = IF log = <<>> THEN None ELSE log[Len(log)].id
      /\ txn \in Transaction /\ txn # None /\ txn' \in Transaction /\ txn' # None
      /\ txn'.base = txn.base /\ txn'.line = NextLine /\ txn'.phase = "witnessing"
  BY BeginAppendStep
<1>1. JournalTypeOK'
  BY <1>0 DEF BeginAppend, Phase, JournalInv, JournalTypeOK
<1>2. AtRest'
  BY <1>0 DEF AtRest
<1>3. InTransaction'
  <2>1. txn.base = log /\ Chained(log) /\ witness = WholeFile(log) /\ HoldsOnly(journal, log)
    BY <1>0 DEF BeginAppend, JournalInv, InTransaction
  <2>2. minted' = minted + 1 /\ minted \in Nat /\ UNCHANGED <<journal, witness, log>>
    BY DEF BeginAppend, JournalInv, JournalTypeOK
  <2>3. LineFollows'
    BY <1>0, <2>2 DEF LineFollows, Line
  <2> QED
    BY <1>0, <2>1, <2>2, <2>3 DEF InTransaction, HoldsOnly, Lines
<1>4. Undamaged'
  BY <1>0 DEF BeginAppend, Phase, JournalInv, Undamaged, Clean
<1> QED
  BY <1>1, <1>2, <1>3, <1>4 DEF JournalInv

LEMMA WitnessTakesLineKeeps == JournalInv /\ WitnessTakesLine => JournalInv'
<1> SUFFICES ASSUME JournalInv, WitnessTakesLine PROVE JournalInv'
  OBVIOUS
<1>0. /\ txn \in Transaction /\ txn' \in Transaction /\ txn # None /\ txn' # None
      /\ txn'.base = txn.base /\ txn'.line = txn.line /\ txn'.undo = txn.undo
      /\ txn'.phase = "journaling"
  BY PhaseTyped DEF WitnessTakesLine, Phase, Phases, JournalInv, JournalTypeOK
<1>1. JournalTypeOK'
  <2>1. Whole(witness) \in File
    <3>1. witness = WholeFile(log) /\ Append(log, Line) \in Seq(Receipt)
      BY <1>0, InPhase DEF WitnessTakesLine, Phase, JournalInv, InTransaction
    <3> QED
      BY <3>1 DEF Whole, WholeFile, Line, File
  <2> QED
    BY <1>0, <2>1 DEF WitnessTakesLine, JournalInv, JournalTypeOK
<1>2. AtRest'
  BY <1>0 DEF AtRest
<1>3. InTransaction'
  <2>1. txn.phase = "witnessing" /\ witness = WholeFile(log)
    BY <1>0 DEF WitnessTakesLine, Phase, JournalInv, InTransaction
  <2>2. witness' = WholeFile(Append(log, Line))
    BY <2>1 DEF WitnessTakesLine, Whole, WholeFile, Line
  <2>3. LineFollows'
    BY <1>0, <2>1, InPhase DEF WitnessTakesLine, LineFollows, Line
  <2> QED
    BY <1>0, <2>1, <2>2, <2>3
       DEF WitnessTakesLine, InTransaction, JournalInv, HoldsOnly, Lines, Line
<1>4. Undamaged'
  BY <1>0 DEF WitnessTakesLine, Phase, JournalInv, Undamaged, Clean
<1> QED
  BY <1>1, <1>2, <1>3, <1>4 DEF JournalInv

LEMMA WitnessFailsKeeps == JournalInv /\ WitnessFails => JournalInv'
<1> SUFFICES ASSUME JournalInv, WitnessFails PROVE JournalInv'
  OBVIOUS
<1>0. /\ txn \in Transaction /\ txn' \in Transaction /\ txn # None /\ txn' # None
      /\ txn'.base = txn.base /\ txn'.line = txn.line /\ txn'.undo = txn.undo
      /\ txn'.phase = "retracting"
  BY PhaseTyped DEF WitnessFails, Phase, Phases, JournalInv, JournalTypeOK
<1>1. JournalTypeOK'
  <2>1. txn.phase = "witnessing" /\ witness = WholeFile(log) /\ Append(log, Line) \in Seq(Receipt)
    BY <1>0, InPhase DEF WitnessFails, Phase, JournalInv, InTransaction
  <2>2. Partly(witness) \subseteq File /\ Whole(witness) \in File
    BY <2>1 DEF Partly, Whole, WholeFile, Line, File, JournalInv, JournalTypeOK
  <2> QED
    BY <1>0, <2>2 DEF WitnessFails, JournalInv, JournalTypeOK
<1>2. AtRest'
  BY <1>0 DEF AtRest
<1>3. InTransaction'
  <2>1. /\ txn.phase = "witnessing" /\ witness = WholeFile(log) /\ HoldsOnly(journal, log)
        /\ txn.base = log /\ Chained(log) /\ Len(log) <= minted
    BY <1>0 DEF WitnessFails, Phase, JournalInv, InTransaction
  <2>2. LineFollows' /\ UNCHANGED <<journal, minted, log>>
    BY <1>0, <2>1, InPhase DEF WitnessFails, LineFollows, Line
  <2>3. witness'.receipts \in {log, Append(log, Line)}
    BY <2>1 DEF WitnessFails, Partly, Whole, WholeFile, Line
  <2> QED
    BY <1>0, <2>1, <2>2, <2>3 DEF InTransaction, HoldsOnly, Lines, Line
<1>4. Undamaged'
  BY <1>0 DEF WitnessFails, Phase, JournalInv, Undamaged, Clean
<1> QED
  BY <1>1, <1>2, <1>3, <1>4 DEF JournalInv

LEMMA JournalTakesLineKeeps == JournalInv /\ JournalTakesLine => JournalInv'
<1> SUFFICES ASSUME JournalInv, JournalTakesLine PROVE JournalInv'
  OBVIOUS
<1> DEFINE longer == Append(log, Line)
<1>0. /\ txn # None /\ txn.phase = "journaling" /\ LineFollows
      /\ log \in Seq(Receipt) /\ longer \in Seq(Receipt) /\ txn.base = log
      /\ witness = WholeFile(longer)
      /\ Continues(longer)
  <2>1. txn # None /\ txn.phase = "journaling"
    BY DEF JournalTakesLine
  <2>2. witness = WholeFile(longer)
    BY <2>1 DEF JournalInv, InTransaction
  <2> QED
    BY <2>1, <2>2, InPhase, TransactionContinues
<1>00. /\ txn' \in Transaction /\ txn' # None
       /\ txn'.base = longer /\ txn'.phase = "ready"
       /\ log' = longer /\ UNCHANGED <<witness, minted, mishap>>
  BY <1>0, ReadyTyped DEF JournalTakesLine, Line
<1>000. /\ OpenedJournal \in File
        /\ journal' = [OpenedJournal EXCEPT !.receipts = Append(@, Line)]
        /\ journal' \in File /\ HoldsOnly(journal', longer)
  <2>1. OpenedJournal # None /\ journal' = Whole(OpenedJournal)
    BY DEF JournalTakesLine
  <2>2. Whole(OpenedJournal) \in Partly(OpenedJournal)
    BY DEF Partly
  <2> QED
    BY <1>0, <2>1, <2>2, OpenedForLine DEF Whole, Line
<1>1. JournalTypeOK'
  BY <1>0, <1>00, <1>000 DEF JournalInv, JournalTypeOK
<1>2. AtRest'
  BY <1>00 DEF AtRest
<1>3. InTransaction'
  BY <1>0, <1>00, <1>000 DEF InTransaction, Continues, HoldsOnly, Lines
<1>4. Undamaged'
  <2>1. ASSUME ~mishap
        PROVE  journal' = WholeFile(longer)
    <3>1. Clean(journal, log)
      BY <1>0, <2>1 DEF JournalInv, Undamaged
    <3>2. OpenedJournal = WholeFile(log)
      BY <1>0, <3>1 DEF OpenedJournal, First, Clean, WholeFile, Empty
    <3> QED
      BY <1>000, <3>2 DEF WholeFile
  <2>2. longer # <<>>
    BY <1>0, AppendProperties DEF LineFollows
  <2> QED
    BY <1>00, <2>1, <2>2 DEF Undamaged, Clean, WholeFile
<1> QED
  BY <1>1, <1>2, <1>3, <1>4 DEF JournalInv

LEMMA JournalUntouchedKeeps == JournalInv /\ JournalUntouched => JournalInv'
<1> SUFFICES ASSUME JournalInv, JournalUntouched PROVE JournalInv'
  OBVIOUS
<1>0. /\ txn \in Transaction /\ txn' \in Transaction /\ txn # None /\ txn' # None
      /\ txn'.base = txn.base /\ txn'.line = txn.line /\ txn'.undo = txn.undo
      /\ txn'.phase = "retracting"
  BY PhaseTyped DEF JournalUntouched, Phase, Phases, JournalInv, JournalTypeOK
<1>1. JournalTypeOK'
  BY <1>0 DEF JournalUntouched, Phase, JournalInv, JournalTypeOK
<1>2. AtRest'
  BY <1>0 DEF AtRest
<1>3. InTransaction'
  <2>1. /\ txn.phase = "journaling" /\ witness = WholeFile(Append(log, Line))
        /\ HoldsOnly(journal, log)
        /\ txn.base = log /\ Chained(log) /\ Len(log) <= minted
    BY <1>0 DEF JournalUntouched, Phase, JournalInv, InTransaction
  <2>2. LineFollows' /\ UNCHANGED <<journal, witness, minted, log>>
    BY <1>0, <2>1, InPhase DEF JournalUntouched, LineFollows, Line
  <2> QED
    BY <1>0, <2>1, <2>2 DEF InTransaction, HoldsOnly, Lines, Line, WholeFile
<1>4. Undamaged'
  BY <1>0 DEF JournalUntouched, Phase, JournalInv, Undamaged, Clean
<1> QED
  BY <1>1, <1>2, <1>3, <1>4 DEF JournalInv

\* A write of the journal that fails remembers the journal it found.
LEMMA JournalFailsStep ==
    ASSUME JournalInv, JournalFails
    PROVE  /\ txn \in Transaction /\ txn' \in Transaction /\ txn # None /\ txn' # None
           /\ txn'.base = txn.base /\ txn'.line = txn.line /\ txn'.undo = journal
           /\ txn'.phase = "undoing"
<1>1. /\ txn \in Transaction /\ txn' \in Transaction /\ txn # None
      /\ txn'.base = txn.base /\ txn'.line = txn.line /\ txn'.undo = journal
      /\ txn'.phase = "undoing"
  BY DEF JournalFails, JournalInv, JournalTypeOK, Transaction, Phases
<1> QED
  BY <1>1, PresentIsNotNone

LEMMA JournalFailsKeeps == JournalInv /\ JournalFails => JournalInv'
<1> SUFFICES ASSUME JournalInv, JournalFails PROVE JournalInv'
  OBVIOUS
<1>0. /\ txn \in Transaction /\ txn' \in Transaction /\ txn # None /\ txn' # None
      /\ txn'.base = txn.base /\ txn'.line = txn.line /\ txn'.undo = journal
      /\ txn'.phase = "undoing"
  BY JournalFailsStep
<1>00. /\ txn.phase = "journaling" /\ UNCHANGED <<witness, minted, log, mishap>>
       /\ journal' \in File /\ HoldsOnly(journal', Append(log, Line))
  BY <1>0, OpenedForLine DEF JournalFails
<1>1. JournalTypeOK'
  BY <1>0, <1>00 DEF JournalInv, JournalTypeOK
<1>2. AtRest'
  BY <1>0 DEF AtRest
<1>3. InTransaction'
  <2>1. /\ txn.base = log /\ Chained(log) /\ Len(log) <= minted /\ LineFollows
        /\ witness = WholeFile(Append(log, Line)) /\ HoldsOnly(journal, log)
    BY <1>0, <1>00 DEF JournalInv, InTransaction
  <2>2. LineFollows'
    BY <1>0, <1>00, <2>1 DEF LineFollows, Line
  <2>3. witness.receipts = Append(log, Line)
    BY <2>1 DEF WholeFile
  <2> QED
    BY <1>0, <1>00, <2>1, <2>2, <2>3 DEF InTransaction, HoldsOnly, Lines, Line
<1>4. Undamaged'
  BY <1>0, <1>00 DEF JournalInv, Undamaged, Clean
<1> QED
  BY <1>1, <1>2, <1>3, <1>4 DEF JournalInv

LEMMA UndoJournalKeeps == JournalInv /\ UndoJournal => JournalInv'
<1> SUFFICES ASSUME JournalInv, UndoJournal PROVE JournalInv'
  OBVIOUS
<1>0. /\ txn \in Transaction /\ txn' \in Transaction /\ txn # None /\ txn' # None
      /\ txn'.base = txn.base /\ txn'.line = txn.line /\ txn'.phase \in {"retracting", "failed"}
  BY PhaseTyped DEF UndoJournal, Phases, JournalInv, JournalTypeOK
<1>00. /\ txn.phase = "undoing" /\ UNCHANGED <<witness, minted, log>>
       /\ journal' \in {journal, txn.undo} /\ txn.undo \in File \cup {None}
       /\ mishap' \in {mishap, TRUE}
       /\ ~mishap' => journal' = txn.undo /\ ~mishap /\ txn'.phase = "retracting"
       /\ txn'.phase = "retracting" => journal' = txn.undo
  <2>1. txn.undo \in File \cup {None} /\ txn.phase = "undoing" /\ UNCHANGED <<witness, minted, log>>
    BY <1>0 DEF Transaction, UndoJournal
  <2>2. CASE journal' = Undone /\ txn' = [txn EXCEPT !.phase = "retracting"] /\ UNCHANGED mishap
    <3>1. txn'.phase = "retracting"
      BY <1>0, <2>2 DEF Transaction
    <3> QED
      BY <2>1, <2>2, <3>1 DEF Undone
  <2>3. CASE journal' \in {journal, Undone} /\ txn' = [txn EXCEPT !.phase = "failed"] /\ mishap' = TRUE
    <3>1. txn'.phase = "failed"
      BY <1>0, <2>3 DEF Transaction
    <3> QED
      BY <2>1, <2>3, <3>1 DEF Undone
  <2> QED
    BY <2>2, <2>3 DEF UndoJournal
<1>1. JournalTypeOK'
  BY <1>0, <1>00 DEF JournalInv, JournalTypeOK
<1>2. AtRest'
  BY <1>0 DEF AtRest
<1>3. InTransaction'
  <2>1. /\ txn.base = log /\ Chained(log) /\ Len(log) <= minted /\ LineFollows
        /\ witness = WholeFile(Append(log, Line)) /\ HoldsOnly(txn.undo, log)
        /\ HoldsOnly(journal, witness.receipts)
        /\ Range(Append(log, Line)) = Range(log) \cup {Line}
    BY <1>0, <1>00, InPhase DEF JournalInv, InTransaction
  <2>2. LineFollows'
    BY <1>0, <1>00, <2>1 DEF LineFollows, Line
  <2>3. witness.receipts = Append(log, Line)
    BY <2>1 DEF WholeFile
  <2>4. HoldsOnly(txn.undo, witness.receipts)
    BY <2>1, <2>3 DEF HoldsOnly
  <2>5. HoldsOnly(journal', witness.receipts) /\ (txn'.phase = "retracting" => HoldsOnly(journal', log))
    BY <1>00, <2>1, <2>4
  <2> QED
    BY <1>0, <1>00, <2>1, <2>2, <2>3, <2>5 DEF InTransaction, HoldsOnly, Lines, Line
<1>4. Undamaged'
  BY <1>0, <1>00 DEF JournalInv, Undamaged, Clean
<1> QED
  BY <1>1, <1>2, <1>3, <1>4 DEF JournalInv

LEMMA RetractWitnessKeeps == JournalInv /\ RetractWitness => JournalInv'
<1> SUFFICES ASSUME JournalInv, RetractWitness PROVE JournalInv'
  OBVIOUS
<1>0. /\ txn \in Transaction /\ txn' \in Transaction /\ txn # None /\ txn' # None
      /\ txn'.base = txn.base /\ txn'.line = txn.line /\ txn'.undo = txn.undo
      /\ txn'.phase = "failed"
  BY PhaseTyped DEF RetractWitness, Phase, Phases, JournalInv, JournalTypeOK
<1>00. /\ txn.phase = "retracting" /\ UNCHANGED <<journal, minted, log>>
       /\ txn.base = log /\ log \in Seq(Receipt) /\ mishap' \in {mishap, TRUE}
       /\ witness' \in {witness, WholeFile(log)}
       /\ ~mishap' => ~mishap /\ witness' = WholeFile(log)
  <2>1. /\ txn.phase = "retracting" /\ UNCHANGED <<journal, minted, log>>
        /\ txn.base = log /\ log \in Seq(Receipt)
    BY <1>0, InPhase DEF RetractWitness, Phase
  <2>2. Cut(witness) = WholeFile(log)
    BY <2>1 DEF Cut, WholeFile
  <2> QED
    <3>1. CASE witness' = Cut(witness) /\ UNCHANGED mishap
      BY <2>1, <2>2, <3>1
    <3>2. CASE UNCHANGED witness /\ mishap' = TRUE
      BY <2>1, <3>2
    <3> QED
      BY <3>1, <3>2 DEF RetractWitness, RetractLine
<1>1. JournalTypeOK'
  <2>1. WholeFile(log) \in File
    BY <1>00 DEF WholeFile, File
  <2> QED
    BY <1>0, <1>00, <2>1 DEF JournalInv, JournalTypeOK
<1>2. AtRest'
  BY <1>0 DEF AtRest
<1>3. InTransaction'
  <2>1. /\ Chained(log) /\ Len(log) <= minted /\ LineFollows
        /\ witness.receipts \in {log, Append(log, Line)} /\ HoldsOnly(journal, log)
        /\ Range(Append(log, Line)) = Range(log) \cup {Line}
    BY <1>0, <1>00, InPhase DEF JournalInv, InTransaction
  <2>2. LineFollows'
    BY <1>0, <1>00, <2>1 DEF LineFollows, Line
  <2>3. witness'.receipts \in {log, Append(log, Line)}
    BY <1>00, <2>1 DEF WholeFile
  <2>4. HoldsOnly(journal', witness'.receipts)
    BY <1>00, <2>1, <2>3 DEF HoldsOnly, Lines
  <2> QED
    BY <1>0, <1>00, <2>1, <2>2, <2>3, <2>4 DEF InTransaction, HoldsOnly, Lines, Line
<1>4. Undamaged'
  BY <1>0, <1>00 DEF JournalInv, Undamaged, Clean
<1> QED
  BY <1>1, <1>2, <1>3, <1>4 DEF JournalInv

\* An accident that leaves a journal of receipts it already held, and at most
\* the one receipt of a journal whose witness was lost.
LEMMA DamageKeeps ==
    ASSUME JournalInv, JournalAtRisk,
           journal' \in File \cup {None},
           Range(Lines(journal')) \subseteq Range(Lines(journal)),
           Len(Lines(journal)) <= 1 /\ Replays(journal) =>
             Lines(journal') = <<>> \/ journal' = journal,
           mishap' = TRUE, UNCHANGED <<witness, txn, minted, log>>
    PROVE  JournalInv'
<1>1. JournalTypeOK'
  BY DEF JournalInv, JournalTypeOK
<1>2. AtRest'
  <2> SUFFICES ASSUME txn = None PROVE WitnessDecides' \/ WitnessLost'
    BY DEF AtRest
  <2>1. CASE WitnessDecides
    BY <2>1 DEF WitnessDecides, Continues, HoldsOnly, Lines
  <2>2. CASE WitnessLost
    <3>1. log = <<>>
      <4>1. IsPrefix(log, <<>>)
        BY <2>2 DEF WitnessLost, JournalAtRisk, Empty
      <4>2. log \in Seq(Receipt) /\ <<>> \in Seq(Receipt) /\ Len(<<>>) = 0
        BY EmptySeq DEF JournalInv, JournalTypeOK
      <4>3. Len(log) <= Len(<<>>)
        BY <4>1, <4>2, PrefixElements
      <4> QED
        BY <4>2, <4>3, EmptySeq, LenProperties
    <3>2. Lines(journal') = <<>> \/ journal' = journal
      BY <2>2, <3>1 DEF WitnessLost, Continues, Lines
    <3>3. CASE journal' = journal
      BY <2>2, <3>3 DEF WitnessLost, Continues
    <3>4. CASE Lines(journal') = <<>>
      <4>1. Continues(<<>>)
        BY <3>1, EmptySeq DEF Continues, Chained, IsPrefix, JournalInv, JournalTypeOK
      <4>2. HoldsOnly(journal', <<>>)
        BY <3>4 DEF HoldsOnly
      <4> QED
        BY <2>2, <4>1, <4>2
           DEF WitnessLost, WitnessDecides, Continues, HoldsOnly, Lines, Empty
    <3> QED
      BY <3>2, <3>3, <3>4
  <2> QED
    BY <2>1, <2>2 DEF JournalInv, AtRest
<1>3. InTransaction'
  <2> SUFFICES ASSUME txn # None PROVE InTransaction'
    BY DEF InTransaction
  <2>1. txn.phase # "undoing"
    BY DEF JournalAtRisk
  <2>2. LineFollows' <=> LineFollows
    BY DEF LineFollows, Line
  <2>3. ASSUME NEW receipts, HoldsOnly(journal, receipts)
        PROVE  HoldsOnly(journal', receipts)
    BY <2>3 DEF HoldsOnly
  <2> QED
    BY <2>1, <2>2, <2>3 DEF JournalInv, InTransaction, HoldsOnly, Lines, Line
<1>4. Undamaged'
  BY DEF Undamaged
<1> QED
  BY <1>1, <1>2, <1>3, <1>4 DEF JournalInv

LEMMA LoseJournalKeeps == JournalInv /\ LoseJournal => JournalInv'
<1> SUFFICES ASSUME JournalInv, LoseJournal PROVE JournalInv'
  OBVIOUS
<1>1. journal' = None /\ Lines(journal') = <<>> /\ Range(<<>>) = {}
  BY DEF LoseJournal, Lines, Range
<1> QED
  BY <1>1, DamageKeeps DEF LoseJournal

LEMMA RollBackJournalKeeps == JournalInv /\ RollBackJournal => JournalInv'
<1> SUFFICES ASSUME JournalInv, RollBackJournal PROVE JournalInv'
  OBVIOUS
<1> DEFINE old == journal.receipts
<1>1. PICK n \in 0..Len(old) : journal' = [receipts |-> SubSeq(old, 1, n), torn |-> FALSE]
  BY DEF RollBackJournal
<1>2. /\ journal \in File /\ journal # None /\ old \in Seq(Receipt)
      /\ Lines(journal) = old
  BY DEF RollBackJournal, JournalInv, JournalTypeOK, File, Lines
<1>3. SubSeq(old, 1, n) \in Seq(Receipt) /\ Range(SubSeq(old, 1, n)) \subseteq Range(old)
  BY <1>2, RangeOfCut
<1>4. journal' \in File /\ Lines(journal') = SubSeq(old, 1, n)
  <2>1. journal' \in File
    BY <1>1, <1>3 DEF File
  <2> QED
    BY <1>1, <2>1, PresentIsNotNone DEF Lines
<1>5. ASSUME Len(old) <= 1, Replays(journal)
      PROVE  Lines(journal') = <<>> \/ journal' = journal
  <2>1. n = 0 \/ n = Len(old)
    BY <1>2, <1>5, LenProperties
  <2>2. CASE n = 0
    BY <1>2, <1>4, <2>2 DEF Replays
  <2>3. CASE n = Len(old)
    <3>1. SubSeq(old, 1, n) = old
      BY <1>2, <2>3, SubSeqFull
    <3> QED
      BY <1>1, <1>2, <1>5, <3>1 DEF Replays, File
  <2> QED
    BY <2>1, <2>2, <2>3
<1> QED
  BY <1>2, <1>3, <1>4, <1>5, DamageKeeps DEF RollBackJournal

LEMMA EditJournalKeeps == JournalInv /\ EditJournal => JournalInv'
<1> SUFFICES ASSUME JournalInv, EditJournal PROVE JournalInv'
  OBVIOUS
<1> DEFINE old == journal.receipts
<1>1. PICK n \in DOMAIN old : journal' = [journal EXCEPT !.receipts = RemoveAt(@, n)]
  BY DEF EditJournal
<1>2. /\ journal \in File /\ journal # None /\ old \in Seq(Receipt)
      /\ Lines(journal) = old
  BY DEF EditJournal, JournalInv, JournalTypeOK, File, Lines
<1>3. RemoveAt(old, n) \in Seq(Receipt) /\ Range(RemoveAt(old, n)) \subseteq Range(old)
  BY <1>2, RangeOfRemoveAt
<1>4. journal' \in File /\ Lines(journal') = RemoveAt(old, n)
  <2>1. journal' \in File /\ journal'.receipts = RemoveAt(old, n)
    BY <1>1, <1>2, <1>3 DEF File
  <2> QED
    BY <2>1, PresentIsNotNone DEF Lines
<1>5. ASSUME Len(old) <= 1
      PROVE  RemoveAt(old, n) = <<>>
  <2>1. n = 1 /\ Len(old) = 1 /\ n \in 1..Len(old)
    <3>1. Len(old) \in Nat /\ DOMAIN old = 1..Len(old)
      BY <1>2, LenProperties
    <3>2. n \in 1..Len(old)
      BY <1>1, <3>1
    <3>3. ASSUME NEW len \in Nat, len <= 1, n \in 1..len
          PROVE  n = 1 /\ len = 1
      BY <3>3
    <3> QED
      BY <1>5, <3>1, <3>2, <3>3
  <2>2. SubSeq(old, 1, n - 1) = <<>> /\ SubSeq(old, n + 1, Len(old)) = <<>>
    BY <1>2, <2>1, SubSeqEmpty
  <2> QED
    BY <2>2, ConcatEmptySeq, EmptySeq DEF RemoveAt
<1> QED
  BY <1>2, <1>3, <1>4, <1>5, DamageKeeps DEF EditJournal

LEMMA LoseWitnessKeeps == JournalInv /\ LoseWitness => JournalInv'
<1> SUFFICES ASSUME JournalInv, LoseWitness PROVE JournalInv'
  OBVIOUS
<1>1. JournalTypeOK'
  <2>1. Empty \in File
    BY EmptySeq DEF Empty, File
  <2> QED
    BY <2>1 DEF LoseWitness, JournalInv, JournalTypeOK
<1>2. AtRest'
  <2>1. /\ txn = None /\ journal # None /\ Replays(journal) /\ witness' = Empty
        /\ IsPrefix(log, journal.receipts) /\ UNCHANGED <<journal, txn, minted, log>>
        /\ journal.receipts \in Seq(Receipt) /\ witness.receipts \in Seq(Receipt)
    BY DEF LoseWitness, JournalInv, JournalTypeOK, File
  <2>2. Continues(journal.receipts)
    <3>1. CASE WitnessDecides
      <4>1. IsPrefix(journal.receipts, witness.receipts)
        BY <2>1, <3>1, ChainsAgree DEF WitnessDecides, Continues, HoldsOnly, Lines, Replays
      <4>2. Len(journal.receipts) <= Len(witness.receipts)
        BY <2>1, <4>1, PrefixElements
      <4>3. minted \in Nat /\ Len(log) \in Nat
        BY LenProperties DEF JournalInv, JournalTypeOK
      <4> QED
        BY <2>1, <3>1, <4>2, <4>3, LenProperties DEF WitnessDecides, Continues, Replays
    <3>2. CASE WitnessLost
      BY <3>2 DEF WitnessLost
    <3> QED
      BY <2>1, <3>1, <3>2 DEF JournalInv, AtRest
  <2> QED
    BY <2>1, <2>2 DEF AtRest, WitnessLost, Continues
<1>3. InTransaction'
  BY DEF LoseWitness, Phase, JournalInv, InTransaction, LineFollows, Line, HoldsOnly, Lines
<1>4. Undamaged'
  <2>1. Classify(journal, Empty) = "verified"
    BY DEF LoseWitness, Replays, Classify, Empty
  <2> QED
    BY <2>1 DEF LoseWitness, Undamaged, Reading
<1> QED
  BY <1>1, <1>2, <1>3, <1>4 DEF JournalInv

LEMMA RemedyKeeps == JournalInv /\ Remedy => JournalInv'
<1> SUFFICES ASSUME JournalInv, Remedy PROVE JournalInv'
  OBVIOUS
<1>0. /\ txn = None /\ UNCHANGED <<txn, minted, log, mishap>> /\ mishap
      /\ journal \in File \cup {None} /\ witness \in File
  BY DEF Remedy, JournalInv, JournalTypeOK, Undamaged
<1>00. /\ witness' \in File /\ witness'.receipts = witness.receipts
       /\ journal' = journal \/ journal' = witness
  <2> DEFINE mended == [witness EXCEPT !.torn = FALSE]
  <2>1. mended \in File /\ mended.receipts = witness.receipts
    BY <1>0 DEF File
  <2> HIDE DEF mended
  <2>2. Remedied(journal, witness)
          \in {<<journal, mended>>, <<witness, witness>>, <<journal, witness>>}
    BY DEF Remedied, mended
  <2> QED
    <3>1. CASE Remedied(journal, witness) = <<journal, mended>>
      BY <2>1, <3>1 DEF Remedy
    <3>2. CASE Remedied(journal, witness) = <<witness, witness>>
      BY <1>0, <3>2 DEF Remedy
    <3>3. CASE Remedied(journal, witness) = <<journal, witness>>
      BY <1>0, <3>3 DEF Remedy
    <3> QED
      BY <2>2, <3>1, <3>2, <3>3
<1>1. JournalTypeOK'
  BY <1>0, <1>00 DEF JournalInv, JournalTypeOK
<1>2. AtRest'
  <2>1. WitnessDecides
    <3>1. ~WitnessLost
      BY DEF Remedy, WitnessLost, Reading, Classify, Empty, Replays
    <3> QED
      BY <1>0, <3>1 DEF JournalInv, AtRest
  <2>2. HoldsOnly(journal', witness.receipts)
    BY <1>0, <1>00, <2>1, PresentIsNotNone DEF WitnessDecides, HoldsOnly, Lines
  <2> QED
    BY <1>0, <1>00, <2>1, <2>2 DEF AtRest, WitnessDecides, Continues, HoldsOnly, Lines
<1>3. InTransaction'
  BY <1>0 DEF InTransaction
<1>4. Undamaged'
  BY <1>0 DEF Undamaged
<1> QED
  BY <1>1, <1>2, <1>3, <1>4 DEF JournalInv

-----------------------------------------------------------------------------
(* The invariant and what follows from it.                                 *)

LEMMA InitKeeps == Init => JournalInv
<1> SUFFICES ASSUME Init PROVE JournalInv
  OBVIOUS
<1>1. <<>> \in Seq(Receipt) /\ Len(<<>>) = 0 /\ Empty \in File /\ Range(<<>>) = {}
  BY EmptySeq DEF Empty, File, Range
<1>2. JournalTypeOK
  <2>1. journal \in File \cup {None} /\ witness \in File /\ log \in Seq(Receipt)
    BY <1>1 DEF Init
  <2>2. minted \in 0..MaxReceipts
    BY DEF Init
  <2>3. mishap \in BOOLEAN /\ txn \in Transaction \cup {None}
    BY DEF Init
  <2> QED
    BY <2>1, <2>2, <2>3 DEF JournalTypeOK
<1>3. WitnessDecides
  <2>1. witness.receipts = <<>> /\ log = <<>> /\ Lines(journal) = <<>> /\ minted = 0
    BY DEF Init, Lines, Empty
  <2>2. IsPrefix(<<>>, <<>>)
    BY <1>1 DEF IsPrefix
  <2>3. Chained(<<>>)
    BY EmptySeq DEF Chained
  <2> QED
    BY <1>1, <2>1, <2>2, <2>3 DEF WitnessDecides, Continues, HoldsOnly
<1>4. Undamaged
  BY DEF Init, Undamaged, Reading, Classify, Empty
<1> QED
  BY <1>2, <1>3, <1>4 DEF Init, JournalInv, AtRest, InTransaction

LEMMA NextKeeps == JournalInv /\ [Next]_vars => JournalInv'
<1> SUFFICES ASSUME JournalInv, [Next]_vars PROVE JournalInv'
  OBVIOUS
<1>1. CASE UNCHANGED vars
  BY <1>1 DEF vars, JournalInv, JournalTypeOK, AtRest, WitnessDecides, WitnessLost,
              InTransaction, LineFollows, Line, Undamaged, Clean, Reading, Continues, HoldsOnly, Lines
<1> QED
  BY <1>1, OpenAbsentKeeps, OpenVerifiedKeeps, AdoptKeeps, CloseKeeps, CrashKeeps,
     BeginAppendKeeps, WitnessTakesLineKeeps, WitnessFailsKeeps, JournalTakesLineKeeps,
     JournalUntouchedKeeps, JournalFailsKeeps, UndoJournalKeeps, RetractWitnessKeeps,
     LoseJournalKeeps, RollBackJournalKeeps, EditJournalKeeps, LoseWitnessKeeps, RemedyKeeps
     DEF Next

THEOREM JournalInvariant == Spec => []JournalInv
BY InitKeeps, NextKeeps, PTL DEF Spec

\* The two files and the transaction keep their types.
THEOREM JournalWellTyped == Spec => []JournalTypeOK
<1>1. JournalInv => JournalTypeOK
  BY DEF JournalInv
<1> QED
  BY <1>1, JournalInvariant, PTL

\* Whichever crash, failed write or failed undo came between the two writes of
\* an append, a journal that verifies is where its witness begins.
THEOREM JournalBehindWitness == Spec => []JournalNeverAhead
<1>1. JournalInv => JournalNeverAhead
  <2> SUFFICES ASSUME JournalInv, journal # None, witness # Empty, Replays(journal)
               PROVE  IsPrefix(journal.receipts, witness.receipts)
    BY DEF JournalNeverAhead
  <2>1. WitnessDecides
    BY WitnessKnows DEF JournalInv, AtRest, WitnessLost
  <2>2. journal.receipts \in Seq(Receipt) /\ witness.receipts \in Seq(Receipt)
    BY DEF JournalInv, JournalTypeOK, File
  <2> QED
    BY <2>1, <2>2, ChainsAgree DEF WitnessDecides, Continues, HoldsOnly, Lines, Replays
<1> QED
  BY <1>1, JournalInvariant, PTL

\* An append that only fails leaves an account the next caller can open.
THEOREM FailuresAloneAreHarmless == Spec => []FailureAloneIsNotDamage
<1>1. JournalInv => FailureAloneIsNotDamage
  BY DEF JournalInv, Undamaged, FailureAloneIsNotDamage
<1> QED
  BY <1>1, JournalInvariant, PTL

\* A reading that needs no command is left as it is by running one.
LEMMA SettledStays ==
    ASSUME NEW j, NEW w, Classify(j, w) \in {"absent", "verified"}
    PROVE  Remedied(j, w) = <<j, w>>
BY DEF Remedied, CopyOffered

\* Beside a witness without a fragment one command is enough.
LEMMA OneRemedy ==
    ASSUME NEW j, NEW W \in Seq(Receipt), Chained(W), log \in Seq(Receipt), IsPrefix(log, W)
    PROVE  LET once == Remedied(j, WholeFile(W))
           IN  /\ Classify(once[1], once[2]) \in {"absent", "verified"}
               /\ IsPrefix(log, Lines(once[1]))
<1> DEFINE w == WholeFile(W)
           once == Remedied(j, w)
<1>1. /\ ~w.torn /\ w.receipts = W /\ w # None
      /\ w = Empty <=> W = <<>>
  <2>1. w \in File
    BY DEF WholeFile, File
  <2> QED
    BY <2>1, PresentIsNotNone DEF WholeFile, Empty
<1>2. CASE CopyOffered(Classify(j, w))
  <2>1. once = <<w, w>>
    BY <1>2 DEF Remedied, CopyOffered
  <2>2. Lines(w) = W
    BY <1>1 DEF Lines
  <2>3. Classify(w, w) \in {"absent", "verified"}
    <3>1. CASE W = <<>>
      BY <1>1, <3>1 DEF Classify
    <3>2. CASE W # <<>>
      BY <1>1, <3>2 DEF Classify, Replays
    <3> QED
      BY <3>1, <3>2
  <2> QED
    BY <2>1, <2>2, <2>3
<1>3. CASE ~CopyOffered(Classify(j, w))
  <2>1. Classify(j, w) \in {"absent", "verified"} /\ (w = Empty \/ w = j)
    BY <1>1, <1>3 DEF Classify, CopyOffered
  <2>2. once = <<j, w>>
    BY <2>1, SettledStays
  <2>3. IsPrefix(log, Lines(j))
    <3>1. CASE w = j
      BY <1>1, <3>1 DEF Lines
    <3>2. CASE w = Empty
      <4>1. W = <<>> /\ Len(W) = 0 /\ Len(log) \in Nat
        BY <1>1, <3>2, EmptySeq, LenProperties
      <4>2. Len(log) <= Len(W)
        BY PrefixElements
      <4>3. log = <<>>
        BY <4>1, <4>2, EmptySeq
      <4> QED
        BY <4>3 DEF IsPrefix
    <3> QED
      BY <2>1, <3>1, <3>2
  <2> QED
    BY <2>1, <2>2, <2>3
<1> QED
  BY <1>2, <1>3

\* Two of the printed commands bring any damaged account back to one that
\* opens with every acknowledged receipt.
THEOREM RemediesSuffice == Spec => []RemediesConverge
<1>1. JournalInv => RemediesConverge
  <2> SUFFICES ASSUME JournalInv, txn = None PROVE RemediesConverge
    BY DEF RemediesConverge
  <2> DEFINE once == Remedied(journal, witness)
             twice == Remedied(once[1], once[2])
             W == witness.receipts
  <2> HIDE DEF twice
  <2>1. /\ log \in Seq(Receipt) /\ W \in Seq(Receipt) /\ witness \in File
        /\ witness = [receipts |-> W, torn |-> witness.torn]
    BY DEF JournalInv, JournalTypeOK, File
  <2> SUFFICES /\ Classify(twice[1], twice[2]) \in {"absent", "verified"}
               /\ IsPrefix(log, Lines(twice[1]))
    BY DEF RemediesConverge, Lines, twice
  <2>2. CASE WitnessLost
    <3>1. Classify(journal, witness) = "verified"
      BY <2>2 DEF WitnessLost, Classify, Empty, Replays
    <3>2. once = <<journal, witness>> /\ twice = <<journal, witness>>
      BY <3>1, SettledStays DEF twice
    <3> QED
      BY <2>2, <3>1, <3>2 DEF WitnessLost, Continues, Lines
  <2>3. CASE WitnessDecides
    <3>1. Chained(W) /\ IsPrefix(log, W)
      BY <2>3 DEF WitnessDecides, Continues
    <3>2. CASE witness.torn
      <4>1. once = <<journal, [witness EXCEPT !.torn = FALSE]>>
        BY <3>2 DEF Classify, Remedied
      <4>2. [witness EXCEPT !.torn = FALSE] = WholeFile(W)
        <5> DEFINE mended == [witness EXCEPT !.torn = FALSE]
        <5>1. mended \in File /\ mended.receipts = W /\ mended.torn = FALSE
          BY <2>1 DEF File
        <5>2. ASSUME NEW file \in File, file.torn = FALSE
              PROVE  file = WholeFile(file.receipts)
          BY <5>2 DEF File, WholeFile
        <5> HIDE DEF mended
        <5>3. mended = WholeFile(W)
          BY <5>1, <5>2
        <5> QED
          BY <5>3 DEF mended
      <4>3. twice = Remedied(journal, WholeFile(W))
        BY <4>1, <4>2 DEF twice
      <4> QED
        BY <2>1, <3>1, <4>3, OneRemedy
    <3>3. CASE ~witness.torn
      <4>1. witness = WholeFile(W)
        BY <2>1, <3>3 DEF WholeFile, File
      <4>2. Classify(once[1], once[2]) \in {"absent", "verified"} /\ IsPrefix(log, Lines(once[1]))
        BY <2>1, <3>1, <4>1, OneRemedy
      <4>3. twice = <<once[1], once[2]>>
        BY <4>2, SettledStays DEF twice
      <4> QED
        BY <4>2, <4>3
    <3> QED
      BY <3>2, <3>3
  <2> QED
    BY <2>2, <2>3 DEF JournalInv, AtRest
<1> QED
  BY <1>1, JournalInvariant, PTL

-----------------------------------------------------------------------------
(* The two files implement one append-only log.                            *)

\* What a transaction opens with is the log, or the log and a line more.
LEMMA OpensOnTheLog ==
    ASSUME JournalInv, NEW receipts \in Seq(Receipt), Continues(receipts), log' = receipts,
           txn = None, txn' # None, txn'.base = receipts
    PROVE  Durable!Begin
<1>1. receipts = log \/ \E r \in Receipt : receipts = Append(log, r)
  BY LongerByOne DEF Continues, JournalInv, JournalTypeOK
<1> QED
  BY <1>1 DEF Durable!Begin, Durable!Extended

LEMMA StepRefines ==
    JournalInv /\ [Next]_vars => [Durable!DurableNext]_(Durable!logVars)
<1> SUFFICES ASSUME JournalInv, [Next]_vars
             PROVE  Durable!DurableNext \/ UNCHANGED Durable!logVars
  OBVIOUS
<1> USE DEF Durable!logVars
<1>1. CASE OpenAbsent
  <2>1. /\ txn = None /\ txn' # None /\ txn'.base = <<>> /\ log' = <<>> /\ <<>> \in Seq(Receipt)
    BY <1>1, EmptySeq, Served DEF OpenAbsent
  <2>2. witness = Empty /\ journal \in {None, Empty}
    BY <1>1 DEF OpenAbsent, Reading, Classify
  <2>3. Continues(<<>>)
    BY <2>1, <2>2 DEF JournalInv, AtRest, WitnessDecides, WitnessLost, Replays, Empty
  <2> QED
    BY <2>1, <2>3, OpensOnTheLog DEF Durable!DurableNext
<1>2. CASE OpenVerified
  <2>1. /\ txn = None /\ witness = journal /\ witness # Empty /\ journal.receipts \in Seq(Receipt)
    BY <1>2 DEF OpenVerified, Reading, Classify, JournalInv, JournalTypeOK, File
  <2>2. txn' # None /\ txn'.base = journal.receipts /\ log' = journal.receipts
    BY <1>2, <2>1, Served DEF OpenVerified
  <2>3. Continues(journal.receipts)
    BY <2>1 DEF JournalInv, AtRest, WitnessDecides, WitnessLost
  <2> QED
    BY <2>1, <2>2, <2>3, OpensOnTheLog DEF Durable!DurableNext
<1>3. CASE Adopt
  <2>1. /\ txn = None /\ witness = Empty /\ journal # None /\ Replays(journal)
        /\ journal.receipts \in Seq(Receipt)
    BY <1>3 DEF Adopt, Reading, Classify, JournalInv, JournalTypeOK, File
  <2>2. Continues(journal.receipts)
    BY <2>1, LoneJournalDecides DEF WitnessLost
  <2>3. CASE Serve(journal.receipts)
    <3>1. txn' # None /\ txn'.base = journal.receipts /\ log' = journal.receipts
      BY <2>1, <2>3, Served
    <3> QED
      BY <2>1, <2>2, <3>1, OpensOnTheLog DEF Durable!DurableNext
  <2>4. CASE UNCHANGED <<txn, log, mishap>>
    BY <2>4
  <2> QED
    BY <1>3, <2>3, <2>4 DEF Adopt
<1>4. CASE Close \/ Crash
  BY <1>4 DEF Close, Crash, Durable!DurableNext, Durable!End
<1>5. CASE JournalTakesLine
  <2>1. /\ txn # None /\ txn.base = log /\ Line \in Receipt /\ Append(log, Line) \in Seq(Receipt)
    BY <1>5, InPhase DEF JournalTakesLine
  <2>2. txn' # None /\ txn'.base = Append(log, Line) /\ log' = Append(log, Line)
    BY <1>5, <2>1, ReadyTyped DEF JournalTakesLine, Line
  <2> QED
    BY <2>1, <2>2 DEF Durable!DurableNext, Durable!AppendOne, Durable!Extended
<1>6. ASSUME txn \in Transaction, txn # None, txn' # None, txn'.base = txn.base, UNCHANGED log
      PROVE  UNCHANGED Durable!logVars
  BY <1>6
<1>7. CASE BeginAppend \/ WitnessTakesLine \/ WitnessFails \/ JournalUntouched
           \/ JournalFails \/ UndoJournal \/ RetractWitness
  <2>1. txn \in Transaction /\ txn # None /\ UNCHANGED log
    BY <1>7 DEF BeginAppend, WitnessTakesLine, WitnessFails, JournalUntouched, JournalFails,
                UndoJournal, RetractWitness, Phase, JournalInv, JournalTypeOK
  <2>2. txn' \in Transaction \cup {None}
    BY NextKeeps DEF JournalInv, JournalTypeOK
  <2>3. txn'.base = txn.base
    BY <1>7, <2>1 DEF BeginAppend, WitnessTakesLine, WitnessFails, JournalUntouched,
                      JournalFails, UndoJournal, RetractWitness, Phase, Transaction
  <2>4. txn' # None
    <3>2. CASE BeginAppend \/ JournalFails
      BY <3>2, BeginAppendStep, JournalFailsStep
    <3>3. CASE WitnessTakesLine \/ WitnessFails \/ JournalUntouched \/ UndoJournal \/ RetractWitness
      <4>1. \E phase \in Phases : txn' = [txn EXCEPT !.phase = phase]
        BY <3>3 DEF WitnessTakesLine, WitnessFails, JournalUntouched, UndoJournal,
                    RetractWitness, Phase, Phases
      <4> QED
        BY <2>1, <4>1, PhaseTyped
    <3> QED
      BY <1>7, <3>2, <3>3
  <2> QED
    BY <1>6, <2>1, <2>3, <2>4
<1>8. CASE LoseJournal \/ RollBackJournal \/ EditJournal \/ LoseWitness \/ Remedy
           \/ UNCHANGED vars
  BY <1>8 DEF LoseJournal, RollBackJournal, EditJournal, LoseWitness, Remedy, vars
<1> QED
  BY <1>1, <1>2, <1>3, <1>4, <1>5, <1>7, <1>8 DEF Next

\* Through crashes, failed writes, accidents and the operator's commands, the
\* transactions of one account see one append-only log.
THEOREM JournalIsDurable == Spec => AppendOnlyLog
<1>1. Init => Durable!DurableInit
  BY DEF Init, Durable!DurableInit
<1>2. JournalInv /\ [Next]_vars => [Durable!DurableNext]_(Durable!logVars)
  BY StepRefines
<1> QED
  BY <1>1, <1>2, JournalInvariant, PTL DEF Spec, AppendOnlyLog, Durable!DurableSpec

=============================================================================
