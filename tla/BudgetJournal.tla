--------------------------- MODULE BudgetJournal ----------------------------
(***************************************************************************)
(* The two files an account lives in (rhei-core/src/budget): the journal   *)
(* under the project root and, outside it, the witness of the committed    *)
(* history.  A transaction holds both locks, so there is one at a time; it *)
(* can fail or die between any two writes, and a write can be cut short.   *)
(* Between transactions, and behind the back of one, accidents happen to   *)
(* one of the files, and an operator runs the command a refusal printed.   *)
(*                                                                         *)
(* A file is a sequence of whole receipts and perhaps the fragment of one. *)
(* One account at one root: what a second root does is not modelled here.  *)
(***************************************************************************)
EXTENDS Integers, Sequences, SequencesExt

CONSTANTS
    MaxReceipts,    \* bound: receipts ever written, the undone ones included
    None            \* no file, no transaction, no previous receipt

ASSUME MaxReceiptsAssumption == MaxReceipts \in Nat \ {0}

VARIABLES
    journal,        \* the journal's bytes, None where the file is not there
    witness,        \* the witness's bytes; an absent witness reads as empty
    txn,            \* the transaction that holds the locks, or None
    minted,         \* how many receipts have been made
    log,            \* history: the receipts acknowledged to any caller
    mishap          \* history: an accident since the last good opening

vars == <<journal, witness, txn, minted, log, mishap>>

Receipt ==
    [id : 1..MaxReceipts, sequence : 1..MaxReceipts,
     previous : (1..MaxReceipts) \cup {None}]

Empty == [receipts |-> <<>>, torn |-> FALSE]

File == [receipts : Seq(Receipt), torn : BOOLEAN]

Phases == {"ready", "witnessing", "journaling", "undoing", "retracting", "failed"}

Transaction ==
    [base : Seq(Receipt), phase : Phases,
     line : Receipt \cup {None}, undo : File \cup {None}]

ASSUME NoneAssumption == None \notin Nat \cup File \cup Transaction

-----------------------------------------------------------------------------
(* Reading the two files.                                                  *)

\* The hash and the sequence number a receipt names are those of the chain
\* it was appended to.
Chained(receipts) ==
    \A n \in DOMAIN receipts :
      /\ receipts[n].sequence = n
      /\ receipts[n].previous = IF n = 1 THEN None ELSE receipts[n - 1].id

Replays(file) == file.receipts # <<>> /\ ~file.torn /\ Chained(file.receipts)

\* (Mutant) A lost tail is taken for a chain of its own.
ClassifyTrusting(j, w) ==
    CASE w.torn -> "witness_torn"
      [] ~w.torn /\ j \in {None, Empty} /\ w = Empty -> "absent"
      [] ~w.torn /\ j = None /\ w # Empty -> "journal_absent"
      [] ~w.torn /\ j = Empty /\ w # Empty -> "journal_truncated"
      [] ~w.torn /\ j \notin {None, Empty} ->
           IF Replays(j) /\ (w = Empty \/ IsPrefix(j.receipts, w.receipts))
           THEN "verified" ELSE "chain_broken"

\* (Mutant) The copy is offered before the fragment is looked for.
ClassifyTornLast(j, w) ==
    IF j = None /\ w.receipts # <<>> THEN "journal_absent"
    ELSE IF j \in {None, Empty} /\ w = Empty THEN "absent"
    ELSE IF j = Empty THEN "journal_truncated"
    ELSE IF ~Replays(j) THEN "chain_broken"
    ELSE IF w = Empty \/ w = j THEN "verified"
    ELSE IF w.torn /\ w.receipts = j.receipts THEN "witness_torn"
    ELSE IF IsPrefix(j.receipts, w.receipts) THEN "journal_truncated"
    ELSE "chain_broken"

\* Which state, or which accident, the two files are.  A fragment at the end
\* of the witness comes before whatever would offer to copy it.
Classify(j, w) ==
    IF w.torn THEN "witness_torn"
    ELSE IF j \in {None, Empty} /\ w = Empty THEN "absent"
    ELSE IF j = None THEN "journal_absent"
    ELSE IF j = Empty THEN "journal_truncated"
    ELSE IF ~Replays(j) THEN "chain_broken"
    ELSE IF w = Empty \/ w = j THEN "verified"
    ELSE IF IsPrefix(j.receipts, w.receipts) THEN "journal_truncated"
    ELSE "chain_broken"

Reading == Classify(journal, witness)

-----------------------------------------------------------------------------
(* Opening and closing a transaction.                                      *)

Init ==
    /\ journal \in {None, Empty}
    /\ witness = Empty
    /\ txn = None
    /\ minted = 0
    /\ log = <<>>
    /\ mishap = FALSE

Ready(receipts) == [base |-> receipts, phase |-> "ready", line |-> None, undo |-> None]

\* Whoever opens is charged for exactly the receipts this open replayed.
Serve(receipts) == txn' = Ready(receipts) /\ log' = receipts /\ mishap' = FALSE

OpenAbsent ==
    /\ txn = None
    /\ Reading = "absent"
    /\ Serve(<<>>)
    /\ UNCHANGED <<journal, witness, minted>>

OpenVerified ==
    /\ txn = None
    /\ Reading = "verified"
    /\ witness # Empty
    /\ Serve(journal.receipts)
    /\ UNCHANGED <<journal, witness, minted>>

\* A journal this machine has no witness for: one is written, whole or not
\* at all, and an error leaves the account unopened either way.
Adopt ==
    /\ txn = None
    /\ Reading = "verified"
    /\ witness = Empty
    /\ \/ witness' = journal /\ Serve(journal.receipts)
       \/ witness' \in {Empty, journal} /\ UNCHANGED <<txn, log, mishap>>
    /\ UNCHANGED <<journal, minted>>

\* The locks are dropped, by a caller that is done or that got an error.
Close ==
    /\ txn # None
    /\ txn.phase \in {"ready", "failed"}
    /\ txn' = None
    /\ UNCHANGED <<journal, witness, minted, log, mishap>>

\* The process dies; whatever it had written so far stays.
Crash ==
    /\ txn # None
    /\ txn.phase \notin {"ready", "failed"}
    /\ txn' = None
    /\ mishap' = TRUE
    /\ UNCHANGED <<journal, witness, minted, log>>

-----------------------------------------------------------------------------
(* One append: the witness first, then the journal.                        *)

Phase(from, to) == txn # None /\ txn.phase = from /\ txn' = [txn EXCEPT !.phase = to]

\* The receipt that continues the chain this handle replayed.
NextLine ==
    [id |-> minted + 1, sequence |-> Len(txn.base) + 1,
     previous |-> IF txn.base = <<>> THEN None ELSE Last(txn.base).id]

\* The handle takes no second append until this one is done.
BeginAppend ==
    /\ txn # None
    /\ txn.phase = "ready"
    /\ minted < MaxReceipts
    /\ minted' = minted + 1
    /\ txn' = [txn EXCEPT !.phase = "witnessing", !.line = NextLine]
    /\ UNCHANGED <<journal, witness, log, mishap>>

First == txn.base = <<>>

Whole(file) == [file EXCEPT !.receipts = Append(@, txn.line)]

Cut(file) == [receipts |-> txn.base, torn |-> FALSE]

\* What a write that fails may leave: nothing, a fragment or the whole line.
Partly(file) == {file, [file EXCEPT !.torn = TRUE], Whole(file)}

WitnessTakesLine ==
    /\ Phase("witnessing", "journaling")
    /\ witness' = Whole(witness)
    /\ UNCHANGED <<journal, minted, log, mishap>>

\* The first line is renamed into place, so it is there or it is not.
WitnessFails ==
    /\ Phase("witnessing", "retracting")
    /\ witness' \in IF First THEN {witness, Whole(witness)} ELSE Partly(witness)
    /\ UNCHANGED <<journal, minted, log, mishap>>

\* The journal as the append's open finds or makes it, None where the open
\* fails: only a first receipt may create one, and none is written behind
\* bytes the account's open did not replay.
OpenedJournal ==
    IF First THEN IF journal \in {None, Empty} THEN Empty ELSE None
    ELSE journal

JournalTakesLine ==
    /\ txn # None
    /\ txn.phase = "journaling"
    /\ OpenedJournal # None
    /\ journal' = Whole(OpenedJournal)
    /\ txn' = Ready(Append(txn.base, txn.line))
    /\ log' = Append(txn.base, txn.line)
    /\ UNCHANGED <<witness, minted, mishap>>

\* The journal cannot be opened, or is opened and still has its length.
JournalUntouched ==
    /\ Phase("journaling", "retracting")
    /\ UNCHANGED <<journal, witness, minted, log, mishap>>

JournalFails ==
    /\ txn # None
    /\ txn.phase = "journaling"
    /\ OpenedJournal # None
    /\ journal' \in Partly(OpenedJournal) \ {journal}
    /\ txn' = [txn EXCEPT !.phase = "undoing", !.undo = journal]
    /\ UNCHANGED <<witness, minted, log, mishap>>

\* The journal as it was: gone where the append created it, else cut to its
\* old length.
Undone == txn.undo

\* (Mutant) The witness is retracted whether or not the journal was undone.
UndoJournalRegardless ==
    /\ txn # None
    /\ txn.phase = "undoing"
    /\ \/ journal' = Undone /\ UNCHANGED mishap
       \/ journal' \in {journal, Undone} /\ mishap' = TRUE
    /\ txn' = [txn EXCEPT !.phase = "retracting"]
    /\ UNCHANGED <<witness, minted, log>>

\* The witness is cut back only if the journal could be.
UndoJournal ==
    /\ txn # None
    /\ txn.phase = "undoing"
    /\ \/ /\ journal' = Undone
          /\ txn' = [txn EXCEPT !.phase = "retracting"]
          /\ UNCHANGED mishap
       \/ /\ journal' \in {journal, Undone}
          /\ txn' = [txn EXCEPT !.phase = "failed"]
          /\ mishap' = TRUE
    /\ UNCHANGED <<witness, minted, log>>

\* (Mutant) The witness keeps the line of an append that failed.
KeepLine == UNCHANGED <<witness, mishap>>

RetractLine ==
    \/ witness' = Cut(witness) /\ UNCHANGED mishap
    \/ UNCHANGED witness /\ mishap' = TRUE

RetractWitness ==
    /\ Phase("retracting", "failed")
    /\ RetractLine
    /\ UNCHANGED <<journal, minted, log>>

-----------------------------------------------------------------------------
(* Accidents.  One of the two files is intact through each of them: losing *)
(* both is the residual the design states.                                 *)

\* Not while an append cuts the journal back.
JournalAtRisk ==
    /\ txn # None => txn.phase # "undoing"
    /\ IsPrefix(log, witness.receipts)

LoseJournal ==
    /\ JournalAtRisk
    /\ journal' = None
    /\ mishap' = TRUE
    /\ UNCHANGED <<witness, txn, minted, log>>

\* A backup, or an earlier commit, is put in the journal's place.
RollBackJournal ==
    /\ JournalAtRisk
    /\ journal # None
    /\ \E n \in 0..Len(journal.receipts) :
         journal' = [receipts |-> SubSeq(journal.receipts, 1, n), torn |-> FALSE]
    /\ mishap' = TRUE
    /\ UNCHANGED <<witness, txn, minted, log>>

\* A receipt is edited out of the journal.
EditJournal ==
    /\ JournalAtRisk
    /\ journal # None
    /\ \E n \in DOMAIN journal.receipts :
         journal' = [journal EXCEPT !.receipts = RemoveAt(@, n)]
    /\ mishap' = TRUE
    /\ UNCHANGED <<witness, txn, minted, log>>

\* The journal reaches a machine that has no witness of it.
LoseWitness ==
    /\ txn = None
    /\ journal # None
    /\ Replays(journal)
    /\ IsPrefix(log, journal.receipts)
    /\ witness' = Empty
    /\ UNCHANGED <<journal, txn, minted, log, mishap>>

-----------------------------------------------------------------------------
(* The commands a refusal prints.                                          *)

CopyOffered(reading) == reading \in {"journal_absent", "journal_truncated", "chain_broken"}

\* Where a reading's command takes the two files.
Remedied(j, w) ==
    LET reading == Classify(j, w)
    IN  IF reading = "witness_torn" THEN <<j, [w EXCEPT !.torn = FALSE]>>
        ELSE IF CopyOffered(reading) THEN <<w, w>>
        ELSE <<j, w>>

\* The operator runs it before any other transaction opens the account.
Remedy ==
    /\ txn = None
    /\ Reading \notin {"absent", "verified"}
    /\ journal' = Remedied(journal, witness)[1]
    /\ witness' = Remedied(journal, witness)[2]
    /\ UNCHANGED <<txn, minted, log, mishap>>

Next ==
    \/ OpenAbsent \/ OpenVerified \/ Adopt \/ Close \/ Crash
    \/ BeginAppend \/ WitnessTakesLine \/ WitnessFails
    \/ JournalTakesLine \/ JournalUntouched \/ JournalFails
    \/ UndoJournal \/ RetractWitness
    \/ LoseJournal \/ RollBackJournal \/ EditJournal \/ LoseWitness
    \/ Remedy

Spec == Init /\ [][Next]_vars

-----------------------------------------------------------------------------
(* Properties.                                                             *)

\* The files and the transaction hold what the code's types allow.
JournalTypeOK ==
    /\ journal \in File \cup {None}
    /\ witness \in File
    /\ txn \in Transaction \cup {None}
    /\ minted \in 0..MaxReceipts
    /\ log \in Seq(Receipt)
    /\ mishap \in BOOLEAN

\* Through crashes, failed writes and accidents to either file, transactions
\* see one append-only log: no acknowledged receipt is ever missing from what
\* a later transaction is charged for, and none appears twice or out of order.
Durable == INSTANCE DurableLog WITH view <- IF txn = None THEN None ELSE txn.base

AppendOnlyLog == Durable!DurableSpec

\* Two of the printed commands, run one after the other, bring any damaged
\* account back to one that opens with every acknowledged receipt.
RemediesConverge ==
    txn = None =>
      LET once == Remedied(journal, witness)
          twice == Remedied(once[1], once[2])
          j == twice[1]
      IN  /\ Classify(j, twice[2]) \in {"absent", "verified"}
          /\ IsPrefix(log, IF j = None THEN <<>> ELSE j.receipts)

\* An append that only fails, however far it got, leaves the account one the
\* next caller can open: damage takes a crash, an accident or a cut that
\* fails as well.
FailureAloneIsNotDamage ==
    txn = None /\ ~mishap => Reading \in {"absent", "verified"}

\* A journal that verifies never holds a receipt its witness lacks, whichever
\* crash, failed write or failed undo came between the two.
JournalNeverAhead ==
    journal # None /\ witness # Empty /\ Replays(journal) =>
      IsPrefix(journal.receipts, witness.receipts)

=============================================================================
