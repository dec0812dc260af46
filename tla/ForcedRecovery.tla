--------------------------- MODULE ForcedRecovery ---------------------------
(***************************************************************************)
(* An operator's forced move and its recovery (rhei-cli/src/cli:           *)
(* operator_force.rs, operator_transaction.rs, operator_recover.rs) beside *)
(* the ordinary commands that share the project's guards.                  *)
(*                                                                         *)
(* A forced move is confirmed on a preview and made under locks: a marker  *)
(* with every image, the images one file at a time, a pair of lines at the *)
(* end of the ledger, and the marker away again.  It may stop between any  *)
(* two of these; a recovery, confirmed in the same way, then decides from  *)
(* what the ledger holds.                                                  *)
(*                                                                         *)
(* A file is the set of the writes that went into it, {} when it is not    *)
(* there; the ledger is a sequence of bytes <<id, k>>, an ordinary line    *)
(* being the one byte <<id, 0>> and a pair PairLength bytes, so that an    *)
(* append can be cut anywhere in a pair.                                   *)
(*                                                                         *)
(* Forced moves and recoveries wait for the disk.  Ordinary commands do    *)
(* not: what they wrote last, a file or a line, the power can take.        *)
(***************************************************************************)
EXTENDS RootGuards, Sequences

CONSTANTS
    LastFile,       \* how many files a forced move rewrites
    InitialFiles,   \* file -> what it holds at the start
    PairLength,     \* the bytes of a pair of lines
    MaxWrites,      \* bound: writes, lines and forced moves made in all
    MaxVisits,      \* bound: ordinary commands begun
    MaxPreviews,    \* bound: transactions begun
    MaxStops,       \* bound: processes killed
    MaxOutages,     \* bound: losses of power
    MaxEdits        \* bound: edits made by hand, outside every command

ASSUME LengthAssumption == LastFile \in Nat \ {0} /\ PairLength \in Nat \ {0, 1}

ASSUME BoundsAssumption ==
    \A n \in {MaxWrites, MaxVisits, MaxPreviews, MaxStops, MaxOutages, MaxEdits} : n \in Nat

Files == 1..LastFile

ASSUME FilesAssumption == InitialFiles \in [Files -> SUBSET {0}]

VARIABLES
    files,          \* file -> the writes that went into it
    older,          \* file -> what it may be found to hold instead, without power
    ledger,         \* the ledger as every process reads it
    disk,           \* the part of it that is on the disk
    marker,         \* the pending forced move, or None
    stage,          \* process -> where it stands
    index,          \* process -> the root or the file it is at
    shown,          \* operator -> what was confirmed, and of which marker
    used            \* what is spent of each bound

dataVars == <<files, older, ledger, disk, marker>>

vars == <<guardVars, dataVars, stage, index, shown, used>>

Ids == 1..MaxWrites

Byte == Ids \X (0..PairLength)

Pair(id) == [k \in 1..PairLength |-> <<id, k>>]

Images == [Files -> SUBSET (0..MaxWrites)]

Marker == [id : Ids, before : Images, after : Images, prefix : Seq(Byte)]

ASSUME NoMarkerAssumption == None \notin Marker

OrdinaryStages == {"idle", "entering", "inside"}

\* "locked" is under every lock and before the first effect.
HopStages ==
    {"idle", "confirmed", "guards", "locked", "truncate", "append", "sync", "install", "unmark"}

Meanings == {"force", "forward", "rollback"}

Spend(what) == used' = [used EXCEPT ![what] = @ + 1]

Bound == [writes |-> MaxWrites, visits |-> MaxVisits, previews |-> MaxPreviews,
          stops |-> MaxStops, outages |-> MaxOutages, edits |-> MaxEdits]

Affords(what) == used[what] < Bound[what]

-----------------------------------------------------------------------------
(* What the evidence says.                                                 *)

\* The bytes after the marker's offset; the prefix is known by its digest.
Suffix(m) == SubSeq(ledger, Len(m.prefix) + 1, Len(ledger))

PrefixKept(m) ==
    Len(m.prefix) <= Len(ledger) /\ SubSeq(ledger, 1, Len(m.prefix)) = m.prefix

\* (Mutant) The first byte of a pair is already more than rolls back.
StartsPairNever(m) == Suffix(m) = <<>>

StartsPair(m) ==
    Len(Suffix(m)) < PairLength /\ Suffix(m) = SubSeq(Pair(m.id), 1, Len(Suffix(m)))

ImagesKnown(m) == \A f \in Files : files[f] \in {m.before[f], m.after[f]}

Decision(m) ==
    IF ~(PrefixKept(m) /\ ImagesKnown(m)) THEN "refuse"
    ELSE IF Suffix(m) = Pair(m.id) THEN "forward"
    ELSE IF StartsPair(m) THEN "rollback" ELSE "refuse"

-----------------------------------------------------------------------------
(* Where a process stands.                                                 *)

Goes(p, to) ==
    /\ stage' = [stage EXCEPT ![p] = to]
    /\ index' = [index EXCEPT ![p] = 1]
    /\ UNCHANGED shown

Stays(p) ==
    /\ index' = [index EXCEPT ![p] = @ + 1]
    /\ UNCHANGED <<stage, shown>>

\* What a process had in mind goes with the locks it held.
Ends(P) ==
    /\ stage' = [p \in Proc |-> IF p \in P THEN "idle" ELSE stage[p]]
    /\ index' = [p \in Proc |-> IF p \in P THEN 1 ELSE index[p]]
    /\ shown' = [p \in Operator |-> IF p \in P THEN None ELSE shown[p]]
    /\ LetGo(P)

-----------------------------------------------------------------------------
(* Ordinary commands: the marker is looked for before the guards, under    *)
(* each of them and after the last.                                        *)

\* (Mutant) A command that has passed the first look asks no more.
NoMarkerAsked(c) == stage[c] # "idle" \/ marker = None

CheckPending(c) == marker = None

Begin(c) ==
    /\ stage[c] = "idle" /\ Affords("visits") /\ CheckPending(c)
    /\ Spend("visits") /\ Goes(c, "entering")
    /\ UNCHANGED <<guardVars, dataVars>>

EnterRoot(c) ==
    /\ stage[c] = "entering" /\ CheckPending(c)
    /\ TakeShared(c, index[c])
    /\ IF index[c] = LastRoot THEN Goes(c, "inside") ELSE Stays(c)
    /\ UNCHANGED <<dataVars, used>>

RefusedAtMarker(c) ==
    /\ stage[c] = "entering" /\ ~CheckPending(c)
    /\ Ends({c})
    /\ UNCHANGED <<dataVars, used>>

\* What the commands do inside is PlanTransition's subject; here they put a
\* file in place, or a line at the end of the ledger.  The code hands either
\* to the system and does not wait for the disk (write_file_atomic_locked,
\* append_line).
WriteFile(c, f) ==
    /\ stage[c] = "inside" /\ Affords("writes")
    /\ files' = [files EXCEPT ![f] = @ \cup {used.writes + 1}]
    /\ older' = [older EXCEPT ![f] = @ \cup {files[f]}]
    /\ Spend("writes")
    /\ UNCHANGED <<guardVars, ledger, disk, marker, stage, index, shown>>

WriteLine(c) ==
    /\ stage[c] = "inside" /\ Affords("writes")
    /\ ledger' = Append(ledger, <<used.writes + 1, 0>>)
    /\ Spend("writes")
    /\ UNCHANGED <<guardVars, files, older, disk, marker, stage, index, shown>>

Leave(c) ==
    /\ stage[c] = "inside" /\ Ends({c})
    /\ UNCHANGED <<dataVars, used>>

-----------------------------------------------------------------------------
(* The ceremony a forced move and a recovery share: a preview under no     *)
(* lock that outlives it, the words typed back, and then every lock.       *)

Confirms(p, what, m) ==
    /\ stage[p] = "idle" /\ Affords("previews")
    /\ stage' = [stage EXCEPT ![p] = "confirmed"]
    /\ shown' = [shown EXCEPT ![p] = [does |-> what, marker |-> m]]
    /\ Spend("previews")
    /\ UNCHANGED <<guardVars, dataVars, index>>

\* The plan is loaded like any command loads it.
PreviewForce(p) == marker = None /\ Confirms(p, "force", None)

\* The marker is read before any plan file, whoever is at work behind it.
PreviewRecovery(p) ==
    /\ marker # None
    /\ Decision(marker) \in {"forward", "rollback"}
    /\ Confirms(p, Decision(marker), marker)

LockRuns(p) ==
    /\ stage[p] = "confirmed"
    /\ TryRunLocks(p) /\ Goes(p, "guards")
    /\ UNCHANGED <<dataVars, used>>

\* (Mutant) The guards are taken from the last root to the first.
TakeGuardBackwards(p) ==
    /\ stage[p] = "guards"
    /\ TakeExclusive(p, LastRoot + 1 - index[p])
    /\ IF index[p] = LastRoot THEN Goes(p, "locked") ELSE Stays(p)
    /\ UNCHANGED <<dataVars, used>>

TakeGuard(p) ==
    /\ stage[p] = "guards"
    /\ TakeExclusive(p, index[p])
    /\ IF index[p] = LastRoot THEN Goes(p, "locked") ELSE Stays(p)
    /\ UNCHANGED <<dataVars, used>>

-----------------------------------------------------------------------------
(* Under the locks.                                                        *)

\* (Mutant) The images of the preview, not those of the moment, are written.
ImagesAsPreviewed(id) ==
    [before |-> InitialFiles, after |-> [f \in Files |-> InitialFiles[f] \cup {id}]]

ImagesNow(id) ==
    [before |-> files, after |-> [f \in Files |-> files[f] \cup {id}]]

\* Everything was looked at again; the marker is on the disk before the first
\* effect.
Publish(p) ==
    /\ stage[p] = "locked" /\ shown[p].does = "force" /\ marker = None
    /\ Affords("writes")
    /\ LET id == used.writes + 1
       IN marker' = [id |-> id, before |-> ImagesNow(id).before,
                     after |-> ImagesNow(id).after, prefix |-> ledger]
    /\ Spend("writes") /\ Goes(p, "install")
    /\ UNCHANGED <<guardVars, files, older, ledger, disk>>

\* (Mutant) What was confirmed is a marker, whatever it says now.
StillMarked(p) == marker # None

\* What was confirmed is still what is there.
StillShown(p) ==
    /\ marker = shown[p].marker
    /\ marker # None
    /\ Decision(marker) = shown[p].does

Recheck(p) ==
    /\ stage[p] = "locked" /\ shown[p].does # "force" /\ StillShown(p)
    /\ Goes(p, IF shown[p].does = "rollback" THEN "truncate" ELSE "sync")
    /\ UNCHANGED <<guardVars, dataVars, used>>

Truncate(p) ==
    /\ stage[p] = "truncate"
    /\ ledger' = marker.prefix
    /\ Goes(p, "sync")
    /\ UNCHANGED <<guardVars, files, older, disk, marker, used>>

\* (Mutant) A replay leaves the ledger to the system's own time.
SyncForcedLedgerOnly(p) ==
    /\ stage[p] = "sync"
    /\ disk' = IF shown[p].does = "force" THEN ledger ELSE disk
    /\ Goes(p, IF shown[p].does = "force" THEN "unmark" ELSE "install")
    /\ UNCHANGED <<guardVars, files, older, ledger, marker, used>>

SyncLedger(p) ==
    /\ stage[p] = "sync"
    /\ disk' = ledger
    /\ Goes(p, IF shown[p].does = "force" THEN "unmark" ELSE "install")
    /\ UNCHANGED <<guardVars, files, older, ledger, marker, used>>

Image(p) == IF shown[p].does = "rollback" THEN marker.before ELSE marker.after

InstallImage(p) ==
    /\ stage[p] = "install"
    /\ files' = [files EXCEPT ![index[p]] = Image(p)[index[p]]]
    /\ older' = [older EXCEPT ![index[p]] = {}]
    /\ IF index[p] < LastFile THEN Stays(p)
       ELSE Goes(p, IF shown[p].does = "force" THEN "append" ELSE "unmark")
    /\ UNCHANGED <<guardVars, ledger, disk, marker, used>>

AppendPair(p) ==
    /\ stage[p] = "append"
    /\ ledger' = Append(ledger, Pair(marker.id)[index[p]])
    /\ IF index[p] < PairLength THEN Stays(p) ELSE Goes(p, "sync")
    /\ UNCHANGED <<guardVars, files, older, disk, marker, used>>

Unmark(p) ==
    /\ stage[p] = "unmark"
    /\ marker' = None
    /\ Ends({p})
    /\ UNCHANGED <<files, older, ledger, disk, used>>

\* Other words were typed, or the run locks are held; or, before the first
\* effect, a safeguard, a marker or another decision refuses.
GiveUp(p) ==
    /\ \/ stage[p] = "confirmed"
       \/ stage[p] = "locked"
    /\ Ends({p})
    /\ UNCHANGED <<dataVars, used>>

-----------------------------------------------------------------------------
(* What may happen at any moment.                                          *)

\* A process is killed, or a step of it fails and it returns: the files stay
\* as they are.
Stop(p) ==
    /\ stage[p] # "idle" /\ Affords("stops")
    /\ Ends({p})
    /\ Spend("stops")
    /\ UNCHANGED dataVars

\* What the ledger may be found to hold after a loss of power.
Survivors ==
    LET longer == IF Len(ledger) < Len(disk) THEN disk ELSE ledger
        least == IF Len(ledger) < Len(disk) THEN Len(ledger) ELSE Len(disk)
    IN {SubSeq(longer, 1, n) : n \in least..Len(longer)}

PowerLoss ==
    /\ Affords("outages") /\ Spend("outages")
    /\ \E found \in Survivors : ledger' = found /\ disk' = found
    /\ files' \in [Files -> UNION {older[f] \cup {files[f]} : f \in Files}]
    /\ \A f \in Files : files'[f] \in older[f] \cup {files[f]}
    /\ older' = [f \in Files |-> {}]
    /\ Ends(Proc)
    /\ UNCHANGED marker

\* A file is edited by hand, by someone who does not know of any lock, and is
\* on the disk.
Edit(f) ==
    /\ Affords("edits") /\ Affords("writes")
    /\ \A r \in Roots : exclusive[r] = None
    /\ files' = [files EXCEPT ![f] = @ \cup {used.writes + 1}]
    /\ older' = [older EXCEPT ![f] = {}]
    /\ used' = [used EXCEPT !.writes = @ + 1, !.edits = @ + 1]
    /\ UNCHANGED <<guardVars, ledger, disk, marker, stage, index, shown>>

-----------------------------------------------------------------------------
Init ==
    /\ GuardsInit
    /\ files = InitialFiles
    /\ older = [f \in Files |-> {}]
    /\ ledger = <<>> /\ disk = <<>>
    /\ marker = None
    /\ stage = [p \in Proc |-> "idle"]
    /\ index = [p \in Proc |-> 1]
    /\ shown = [p \in Operator |-> None]
    /\ used = [what \in DOMAIN Bound |-> 0]

CommandStep(c) ==
    \/ Begin(c) \/ EnterRoot(c) \/ RefusedAtMarker(c)
    \/ WriteLine(c) \/ Leave(c)
    \/ \E f \in Files : WriteFile(c, f)

Locking(p) == LockRuns(p) \/ TakeGuard(p)

Replaying(p) ==
    Recheck(p) \/ Truncate(p) \/ SyncLedger(p) \/ InstallImage(p) \/ Unmark(p)

HopStep(p) == PreviewForce(p) \/ Publish(p) \/ AppendPair(p) \/ GiveUp(p)

Next ==
    \/ \E c \in Command : CommandStep(c)
    \/ \E p \in Operator : HopStep(p) \/ PreviewRecovery(p) \/ Locking(p) \/ Replaying(p)
    \/ \E p \in Proc : Stop(p)
    \/ \E f \in Files : Edit(f)
    \/ PowerLoss

\* A process that can go on does; nobody has to begin anything.
Fairness ==
    /\ \A c \in Command : WF_vars(EnterRoot(c) \/ RefusedAtMarker(c) \/ Leave(c))
    /\ \A p \in Operator :
         /\ WF_vars(Locking(p) \/ Replaying(p) \/ Publish(p) \/ AppendPair(p))
         /\ WF_vars(stage[p] = "locked" /\ GiveUp(p))

Spec == Init /\ [][Next]_vars /\ Fairness

-----------------------------------------------------------------------------
(* Properties.                                                             *)

Shown == [does : Meanings, marker : Marker \cup {None}]

\* Every variable stays within the values the code can give it.
RecoveryTypeOK ==
    /\ GuardsTypeOK
    /\ files \in Images
    /\ older \in [Files -> SUBSET SUBSET (0..MaxWrites)]
    /\ ledger \in Seq(Byte) /\ disk \in Seq(Byte)
    /\ marker \in Marker \cup {None}
    /\ stage \in [Proc -> OrdinaryStages \cup HopStages]
    /\ \A p \in Proc : stage[p] \in IF p \in Command THEN OrdinaryStages ELSE HopStages
    /\ index \in [Proc -> Nat]
    /\ shown \in [Operator -> Shown \cup {None}]
    /\ used \in [{"writes", "visits", "previews", "stops", "outages", "edits"} -> Nat]

\* The ledger or a file is without a write that was there when the marker was
\* made.
WritesLost(m) ==
    \/ Len(ledger) < Len(m.prefix)
    \/ \E f \in Files : ~(m.before[f] \subseteq files[f])

\* Whatever stopped a forced move, and however often its recovery was stopped
\* too, the files and the ledger say which way to go.  Two things may leave
\* them undecided: an edit made by hand, and a loss of power that takes what
\* commands had written before the move and nobody had waited for
\* (forced_decision, forced_commit).
EvidenceDecides ==
    marker # None /\ used.edits = 0 /\ Decision(marker) = "refuse"
      => used.outages > 0 /\ WritesLost(marker)

\* No command is at work on a root while a forced move is half done there, and
\* none while an operator works under the guards (RootAccessGuard::acquire).
NoCommandBesideAMarker ==
    \A c \in Command : stage[c] = "inside" => marker = None

\* A confirmation changes what it was shown and goes the way it was shown,
\* whatever others did between the preview and the locks, to the last file
\* (forced_replay).
ReplaysWhatWasConfirmed ==
    \A p \in Operator :
      stage[p] \in {"truncate", "sync", "install", "unmark"} /\ shown[p].does # "force"
        => /\ marker = shown[p].marker
           /\ Decision(marker) = shown[p].does

\* A move is committed once its whole pair is on the disk.
Committed == marker # None /\ SubSeq(disk, Len(marker.prefix) + 1, Len(disk)) = Pair(marker.id)

Pending == IF marker = None THEN {} ELSE {marker.id}

\* The files as they will be once nothing is pending, or without the pending
\* move where it stays.
Content ==
    [f \in Files |-> (files[f] \ Pending) \cup IF Committed THEN Pending ELSE {}]

History ==
    IF marker = None \/ Len(ledger) < Len(marker.prefix) THEN ledger
    ELSE marker.prefix \o IF Committed THEN Pair(marker.id) ELSE <<>>

\* No recovery will resolve the pending move.
Stuck == marker # None /\ Decision(marker) = "refuse"

Accidents == used.outages + used.edits

Hops == INSTANCE WholeHops
          WITH content <- Content, history <- History, stuck <- Stuck, accidents <- Accidents

\* A forced move changes its files and the ledger together, once or not at
\* all, wherever it and its recoveries are stopped, and undoes nothing that
\* commands and hands have written.  Only an edit by hand, or a loss of power
\* that takes earlier writes, leaves it half done, and then no command changes
\* anything more (forced_commit, forced_replay).
HopsAreWhole == Hops!HopsSpec

\* Every ceremony ends, with its move or without: nobody waits for ever for
\* a guard (forced_root_guards).
CeremoniesEnd == \A p \in Operator : stage[p] \in {"guards", "locked"} ~> stage[p] = "idle"

=============================================================================
