------------------------------ MODULE FileTree ------------------------------
(***************************************************************************)
(* What a file system promises its users: a tree of directories and files  *)
(* named by paths.  An operation on one path leaves every other path as it *)
(* was, and only an empty directory can be removed.                        *)
(***************************************************************************)
EXTENDS Naturals, Sequences, SequencesExt

CONSTANT Paths      \* the paths below the root, which is <<>>

VARIABLE tree       \* the type and the size of what every existing path names

Directory  == [type |-> "DIR", size |-> 0]
NewFile    == [type |-> "FILE", size |-> 0]

Init == tree = [p \in {<<>>} |-> Directory]

\* Only path p may be different in tree t and in tree u.
SameBut(p, t, u) ==
    /\ DOMAIN t \ {p} = DOMAIN u \ {p}
    /\ \A q \in DOMAIN t \ {p} : t[q] = u[q]

\* A new name appears under a directory.
Appears(p, t, u) ==
    /\ p \notin DOMAIN t /\ p \in DOMAIN u
    /\ Front(p) \in DOMAIN t /\ t[Front(p)].type = "DIR"
    /\ u[p] \in {Directory, NewFile}

\* A name with nothing below it disappears.
Disappears(p, t, u) ==
    /\ p \in DOMAIN t /\ p \notin DOMAIN u
    /\ \A q \in DOMAIN t \ {<<>>} : Front(q) # p

\* A file grows.
Grows(p, t, u) ==
    /\ p \in DOMAIN t \cap DOMAIN u
    /\ t[p].type = "FILE" /\ u[p].type = "FILE"
    /\ u[p].size > t[p].size

Next ==
    \E t \in {tree}, u \in {tree'}, p \in Paths :
        /\ SameBut(p, t, u)
        /\ Appears(p, t, u) \/ Disappears(p, t, u) \/ Grows(p, t, u)

Spec == Init /\ [][Next]_tree
=============================================================================
