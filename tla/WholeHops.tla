------------------------------ MODULE WholeHops -----------------------------
(* What an operator's correction of a ticket comes to: its files and its   *)
(* entry in the history change together, once or not at all, and what      *)
(* others wrote stays.  An accident may take the newest writes, or a hand  *)
(* may add one; either may leave a correction stuck, half done for good.   *)
EXTENDS Integers, Sequences

CONSTANTS
    Files,          \* the files a correction rewrites
    PairLength,     \* its entry in the history has this many parts
    InitialFiles,   \* file -> the writes it starts with
    Ids             \* what tells one write from another, in their order

VARIABLES
    content,        \* file -> the writes that went into it
    history,        \* the parts of the entries made so far, in order
    stuck,          \* a correction is half done and stays so
    accidents       \* how often the power was lost, or a hand has written

seen == <<content, history, stuck, accidents>>

Fresh(id) ==
    /\ \A f \in Files : id \notin content[f]
    /\ \A n \in DOMAIN history : history[n][1] # id

Entry(id) == [k \in 1..PairLength |-> <<id, k>>]

Init ==
    /\ content = InitialFiles
    /\ history = <<>>
    /\ ~stuck
    /\ accidents = 0

Write(f) ==
    /\ \E id \in Ids : Fresh(id) /\ content' = [content EXCEPT ![f] = @ \cup {id}]
    /\ UNCHANGED history

Line ==
    /\ \E id \in Ids : Fresh(id) /\ history' = Append(history, <<id, 0>>)
    /\ UNCHANGED content

Hop ==
    \E id \in Ids :
      /\ Fresh(id)
      /\ content' = [f \in Files |-> content[f] \cup {id}]
      /\ history' = history \o Entry(id)

\* The corrections made so far; a line has the one part 0.
Corrections == {history[n][1] : n \in {k \in DOMAIN history : history[k][2] # 0}}

\* The newest lines and writes go, down to the last correction at the most.
Lose ==
    /\ \E n \in 0..Len(history) :
         /\ history' = SubSeq(history, 1, n)
         /\ \A k \in n + 1..Len(history) : history[k][2] = 0
    /\ DOMAIN content' = Files
    /\ \A f \in Files :
         /\ content'[f] \subseteq content[f]
         /\ \A id \in content[f] \ content'[f], done \in Corrections : done < id

Accident ==
    /\ accidents' = accidents + 1
    /\ \/ Hop /\ UNCHANGED stuck
       \/ Lose /\ UNCHANGED stuck
       \/ Lose /\ stuck' /\ <<content, history>>' # <<content, history>>
       \/ \E f \in Files : Write(f) /\ stuck' \in {stuck, TRUE}

\* Nothing else happens while a correction is stuck.
Undisturbed ==
    /\ ~stuck
    /\ Hop \/ Line \/ \E f \in Files : Write(f)
    /\ UNCHANGED <<stuck, accidents>>

Next == Undisturbed \/ Accident

HopsSpec == Init /\ [][Next]_seen

=============================================================================
