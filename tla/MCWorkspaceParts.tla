---------------------------- MODULE MCWorkspaceParts ----------------------------
(* Instance of WorkspaceParts for TLC: two actors of every kind.  The run  *)
(* checks invariants only, and swapping the two in every part is sound.    *)
EXTENDS WorkspaceParts, TLC

CONSTANTS x, y, m1, w1, l1, l2

MCKeywordLimit == [free |-> 1, starter |-> 2, pro |-> 3]

Two == {x, y}
One == {m1}
Writer1 == {w1}

\* A process of its own for each actor, or one for both; one lead has an e-mail.
TwoLeads == {l1, l2}
Apart == [a \in Two |-> a]
MCDeployments == {Apart} \cup {[a \in Two |-> p] : p \in Two}
HasEmail == {l1}
MCWanted == {"qualified"}

Interchangeable == Permutations(Two)

================================================================================
