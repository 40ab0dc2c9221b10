--------------------------- MODULE PictureOutput ---------------------------
(***************************************************************************)
(* What a decoder promises of its output: pictures finish in any order the *)
(* coding order gives them, wait, and are shown in increasing POC order;   *)
(* no picture that is shown is overtaken by one that finishes later.       *)
(***************************************************************************)
EXTENDS Integers, Sequences, FiniteSets

VARIABLES
  waiting,   \* POCs of the pictures finished and not shown
  shown      \* POCs in the order they were shown

vars == <<waiting, shown>>

PocsOf(s) == {s[i] : i \in DOMAIN s}
IsIncreasing(s) == \A i, j \in DOMAIN s : i < j => s[i] < s[j]
Before(s, pocs) == \A p \in PocsOf(s) : \A q \in pocs : p < q

Init == waiting = {} /\ shown = <<>>

\* At most one picture finishes, later in order than all that were shown; then
\* some of those that wait are shown, the lowest first
Next ==
  LET now  == SubSeq(shown', Len(shown) + 1, Len(shown'))
      done == (waiting' \cup PocsOf(now)) \ waiting
  IN /\ Cardinality(done) <= 1
     /\ done \subseteq Nat /\ Before(shown, done)
     /\ IsIncreasing(now) /\ PocsOf(now) \cap waiting' = {}
     /\ Before(now, waiting')
     /\ waiting \subseteq waiting' \cup PocsOf(now)
     /\ shown' = shown \o now

Spec == Init /\ [][Next]_vars
=============================================================================
