--------------------------------- MODULE Turn ---------------------------------
(***************************************************************************)
(* What a turn promises to whoever drives it, the string driver and the    *)
(* event driver alike: it is tried once, once more after a fold and once   *)
(* more after each of a few waits; each try asks the person at most so     *)
(* many times; it ends once, with one ending, which is that of its last    *)
(* try and stays what it is until the next turn; and nothing else works on *)
(* the conversation meanwhile.                                             *)
(***************************************************************************)
EXTENDS Naturals

CONSTANTS
    Endings,    \* the categories a turn may end with
    MaxAsks,    \* questions of one try
    MaxWaits    \* waits of one turn

VARIABLES
    status,   \* who works on the conversation
    asked,    \* answers taken in this try
    tries,    \* <<folds, waits>> so far in this turn
    ending    \* how the last turn ended; none while one is on

vars == <<status, asked, tries, ending>>

Unsaid == [category |-> "none"]

Init ==
    /\ status = "idle"
    /\ asked = 0
    /\ tries = <<0, 0>>
    /\ ending = Unsaid

Begin ==
    /\ status = "idle"
    /\ status' = "working"
    /\ asked' = 0
    /\ tries' = <<0, 0>>
    /\ ending' = Unsaid

Ask ==
    /\ status = "working" /\ asked < MaxAsks
    /\ status' = "asking"
    /\ UNCHANGED <<asked, tries, ending>>

TakeAnswer ==
    /\ status = "asking"
    /\ status' = "working"
    /\ asked' = asked + 1
    /\ UNCHANGED <<tries, ending>>

Retry ==
    /\ status = "working"
    /\ \/ tries[1] = 0 /\ tries' = <<1, tries[2]>>
       \/ tries[2] < MaxWaits /\ tries' = <<tries[1], tries[2] + 1>>
    /\ asked' = 0
    /\ UNCHANGED <<status, ending>>

\* Only a person who is asked can stop the turn at a question.
End(category) ==
    /\ status = IF category = "approval_stop" THEN "asking" ELSE "working"
    /\ status' = "idle"
    /\ ending' = [category |-> category, of |-> tries]
    /\ UNCHANGED <<asked, tries>>

\* A compaction or a resume takes the conversation between two turns.
Hold == status = "idle" /\ status' = "upkeep" /\ UNCHANGED <<asked, tries, ending>>

Release == status = "upkeep" /\ status' = "idle" /\ UNCHANGED <<asked, tries, ending>>

Next ==
    \/ Begin \/ Ask \/ TakeAnswer \/ Retry
    \/ \E category \in Endings : End(category)
    \/ Hold \/ Release

Spec == Init /\ [][Next]_vars
=============================================================================
