----------------------------- MODULE FileStore -----------------------------
(***************************************************************************)
(* What a persistent filesystem promises: a tree of directories and files  *)
(* that only the calls of create, write, truncate and unlink change, each  *)
(* of them at once and entirely.  There is no action for a restart or for  *)
(* a failed call: neither may be seen in the tree.  EspFs implements this  *)
(* specification with the tree that a mount of the flash would find.       *)
(***************************************************************************)
EXTENDS Naturals, Sequences, TLC

CONSTANTS
    Root,       \* the inode of the root directory
    Inodes,     \* inode numbers
    Names,      \* directory entries
    Bytes,      \* data
    Zero,       \* the byte a hole reads as
    MaxSize     \* the largest file

VARIABLE tree   \* inode -> directory or file

NewDir == [kind |-> "dir", entries |-> <<>>]
NewFile == [kind |-> "file", bytes |-> <<>>]

IsDir(t, i) == i \in DOMAIN t /\ t[i].kind = "dir"
IsFile(t, i) == i \in DOMAIN t /\ t[i].kind = "file"

Init == tree = (Root :> NewDir)

(* The trees that one call can make of tree t.                             *)
Creates(t, u) ==
    \E p \in DOMAIN t, n \in Names, i \in Inodes \ DOMAIN t,
       new \in {NewDir, NewFile} :
        /\ IsDir(t, p)
        /\ n \notin DOMAIN t[p].entries
        /\ u = (i :> new) @@ [t EXCEPT ![p].entries = (n :> i) @@ @]

(* The bytes of b from offset o on are those of d; a gap is filled with    *)
(* Zero.                                                                   *)
Overwrite(b, o, d) ==
    [k \in 1 .. (IF Len(b) > o + Len(d) THEN Len(b) ELSE o + Len(d)) |->
        IF k \in o + 1 .. o + Len(d) THEN d[k - o]
        ELSE IF k \in DOMAIN b THEN b[k] ELSE Zero]

Writes(t, u) ==
    \E i \in DOMAIN t, o \in 0 .. MaxSize, l \in 1 .. MaxSize :
        /\ IsFile(t, i)
        /\ \E d \in [1 .. l -> Bytes] :
            u = [t EXCEPT ![i].bytes = Overwrite(@, o, d)]

Truncates(t, u) ==
    \E i \in DOMAIN t, l \in 0 .. MaxSize :
        /\ IsFile(t, i)
        /\ u = [t EXCEPT ![i].bytes =
            [k \in 1 .. l |-> IF k \in DOMAIN @ THEN @[k] ELSE Zero]]

(* A directory goes only when it is empty.                                 *)
Unlinks(t, u) ==
    \E p \in DOMAIN t :
        /\ IsDir(t, p)
        /\ \E n \in DOMAIN t[p].entries :
            LET i == t[p].entries[n]
                left == [e \in DOMAIN t[p].entries \ {n} |-> t[p].entries[e]]
            IN  /\ IsDir(t, i) => t[i].entries = <<>>
                /\ u = [j \in DOMAIN t \ {i} |->
                    IF j = p THEN [t[j] EXCEPT !.entries = left] ELSE t[j]]

Changes(t, u) ==
    \/ Creates(t, u)
    \/ Writes(t, u)
    \/ Truncates(t, u)
    \/ Unlinks(t, u)

Next == Changes(tree, tree')

Spec == Init /\ [][Next]_tree
=============================================================================
