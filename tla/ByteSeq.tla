------------------------------ MODULE ByteSeq ------------------------------
(***************************************************************************)
(* What src/src/list.c promises: each byte list is a sequence of chunks,   *)
(* out of one memory with room for so many of them.  The links, the ends   *)
(* kept by hand and the order of the frees are ByteList's.                 *)
(***************************************************************************)
EXTENDS Integers, Sequences, SequencesExt

CONSTANTS
    Lists,      \* the lists a program uses
    Chunks,     \* the byte strings a node may hold
    Capacity    \* the nodes memory has room for

VARIABLES
    seqs,       \* the chunks of each list, in order
    made,       \* the lists that have been created
    room        \* the nodes that can still be allocated

vars == <<seqs, made, room>>

Init == seqs = [l \in Lists |-> <<>>] /\ made = {} /\ room = Capacity

Create(l) == l \notin made /\ made' = made \union {l} /\ UNCHANGED <<seqs, room>>

Destroy(l) ==
    /\ l \in made
    /\ made' = made \ {l}
    /\ room' = room + Len(seqs[l])
    /\ seqs' = [seqs EXCEPT ![l] = <<>>]

\* The program allocates or frees a node of its own.
Hold == room > 0 /\ room' = room - 1 /\ UNCHANGED <<seqs, made>>
Drop == room' = room + 1 /\ room' <= Capacity /\ UNCHANGED <<seqs, made>>

\* A new chunk, or one in a node the program held.
AppendChunk(l, d) ==
    /\ l \in made
    /\ seqs' = [seqs EXCEPT ![l] = Append(@, d)]
    /\ room' \in {room, room - 1} \cap Nat
    /\ UNCHANGED made

RemoveChunk(l, i) ==
    /\ l \in made
    /\ i \in DOMAIN seqs[l]
    /\ seqs' = [seqs EXCEPT ![l] = RemoveAt(@, i)]
    /\ room' = room + 1
    /\ UNCHANGED made

Overwrite(l, i, d) ==
    /\ i \in DOMAIN seqs[l]
    /\ seqs' = [seqs EXCEPT ![l][i] = d]
    /\ UNCHANGED <<made, room>>

\* All of src goes behind what dst has, as far as there is room.  A list
\* copied behind itself never comes to its own end.
CopyChunks(dst, src) ==
    LET n == Len(seqs[src])
        k == IF dst = src \/ n > room THEN room ELSE n
    IN  /\ {dst, src} \subseteq made
        /\ n > 0
        /\ seqs' = [seqs EXCEPT ![dst] = @ \o [i \in 1..k |-> seqs[src][((i - 1) % n) + 1]]]
        /\ room' = room - k
        /\ UNCHANGED made

Next ==
    \/ Hold \/ Drop
    \/ \E l \in Lists :
        \/ Create(l) \/ Destroy(l)
        \/ \E d \in Chunks : AppendChunk(l, d) \/ \E i \in DOMAIN seqs[l] : Overwrite(l, i, d)
        \/ \E i \in DOMAIN seqs[l] : RemoveChunk(l, i)
        \/ \E src \in Lists : CopyChunks(l, src)

Spec == Init /\ [][Next]_vars
=============================================================================
