-------------------------- MODULE MCConfiguration --------------------------
(***************************************************************************)
(* Configuration with the files that are handled differently.              *)
(***************************************************************************)
EXTENDS Configuration, TLC

Plain == [idle |-> None, chars |-> None]
OwnSettings == {Plain} \cup {[Plain EXCEPT !.idle = v] : v \in Values}
                       \cup {[Plain EXCEPT !.chars = v] : v \in Values}

Files ==
    [entries : SeqsUpTo([key : Peers, spelling : Spellings, own : OwnSettings],
                        MaxEntries),
     default : {Plain} \cup {[Plain EXCEPT !.idle = v] : v \in Values}]

Symmetry == Permutations(Peers) \cup Permutations(Ids)

MCSpec == Init /\ [][NextWith(Files)]_vars
=============================================================================
