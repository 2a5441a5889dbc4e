------------------------------ MODULE ByteList ------------------------------
(***************************************************************************)
(* The doubly linked lists of src/src/list.c, pointer by pointer: memory   *)
(* is a partial function from addresses to nodes, a list is its first      *)
(* node and a count kept beside it.  The program creates and destroys      *)
(* lists and nodes and calls every operation in any order.  A call that    *)
(* returns early changes nothing and is no step.                           *)
(*                                                                         *)
(* Allocation fails where no address is free.  The failing second malloc   *)
(* of byte_node_create, for the data, is left out.                         *)
(***************************************************************************)
EXTENDS Integers, Sequences, FiniteSets

CONSTANTS
    Nodes,      \* the addresses of nodes
    Lists,
    Appended,   \* the byte strings that are appended
    Bytes,      \* the bytes that overwritten or uninitialised memory may show
    NULL,
    Wild        \* a pointer that was never initialised

ASSUME NodesAssumption == IsFiniteSet(Nodes) /\ Nodes \subseteq Nat
ASSUME PointerAssumption == NULL \notin Nodes /\ Wild \notin Nodes /\ NULL # Wild
ASSUME DataAssumption == 0 \in Bytes /\ Appended \subseteq Seq(Bytes)

VARIABLES
    heap,       \* [data, next, prev] of each allocated node
    list,       \* [made, first, len] of each list
    held,       \* the nodes the program has created and not handed over
    fate        \* "running", "crashed", or "undefined" past undefined behaviour

vars == <<heap, list, held, fate>>

Contents == UNION {[1..Len(d) -> Bytes] : d \in Appended}

Init ==
    /\ heap = <<>>
    /\ list = [l \in Lists |-> [made |-> FALSE, first |-> NULL, len |-> 0]]
    /\ held = {} /\ fate = "running"

---------------------------------------------------------------------------
\* The nodes met from a first node on, for as long as the next pointers lead
\* to nodes.
Walk(h, first) ==
    LET from[n \in Nodes \union {NULL, Wild}] ==
            IF n \in DOMAIN h THEN <<n>> \o from[h[n].next] ELSE <<>>
    IN  from[first]

\* The node idx links behind the first.
NodeAt(h, first, idx) == Walk(h, first)[idx + 1]

EndOf(h, first) == LET w == Walk(h, first) IN w[Len(w)]

Fresh(h) == CHOOSE n \in Nodes \ DOMAIN h : \A m \in Nodes \ DOMAIN h : n <= m

Allocated(h, n, d) ==
    [m \in DOMAIN h \union {n} |->
        IF m = n THEN [data |-> d, next |-> NULL, prev |-> NULL] ELSE h[m]]
Freed(h, ns) == [m \in DOMAIN h \ ns |-> h[m]]

\* A new node in a memory m of heap and list, which becomes the first of l or
\* is linked with the nodes given.
Linked(m, l, d, last, prev) ==
    LET n == Fresh(m.heap)
        h == Allocated(m.heap, n, d)
    IN  [heap |-> IF m.list[l].first = NULL THEN h
                  ELSE [h EXCEPT ![last].next = n, ![n].prev = prev],
         list |-> [m.list EXCEPT ![l].first = IF @ = NULL THEN n ELSE @, ![l].len = @ + 1]]

\* Seeded bug: the new node is not linked back.
AppendData_NoPrev(m, l, d) == Linked(m, l, d, EndOf(m.heap, m.list[l].first), NULL)

\* Seeded bug: list_end stays on the first node.
AppendData_BehindFirst(m, l, d) == Linked(m, l, d, m.list[l].first, m.list[l].first)

\* byte_list_append_data, with a node to spare.
AppendData(m, l, d) ==
    LET list_end == EndOf(m.heap, m.list[l].first) IN Linked(m, l, d, list_end, list_end)

HasRoom(h) == DOMAIN h # Nodes

---------------------------------------------------------------------------
Returns == fate = "running" /\ fate' = fate
DiesAs(f) == fate = "running" /\ fate' = f /\ UNCHANGED <<heap, list, held>>

Made(l) == list[l].made
Chain(l) == Walk(heap, list[l].first)
InLists == UNION {{Chain(l)[i] : i \in DOMAIN Chain(l)} : l \in Lists}

\* The program's own nodes, and those byte_list_get hands out.
Known == held \union InLists

NodeCreate(d) ==
    /\ Returns
    /\ HasRoom(heap)
    /\ heap' = Allocated(heap, Fresh(heap), d)
    /\ held' = held \union {Fresh(heap)}
    /\ UNCHANGED list

NodeDestroy(n) ==
    /\ Returns
    /\ n \in held
    /\ heap' = Freed(heap, {n})
    /\ held' = held \ {n}
    /\ UNCHANGED list

NodeZero(n) ==
    /\ Returns
    /\ heap' = [heap EXCEPT ![n].data = [i \in DOMAIN @ |-> 0]]
    /\ UNCHANGED <<list, held>>

\* The old data is freed before the new is allocated and filled from src,
\* so that a node copied onto itself is filled from uninitialised memory.
NodeCopy(dst, src) ==
    /\ Returns
    /\ \/ dst # src /\ heap' = [heap EXCEPT ![dst].data = heap[src].data]
       \/ /\ dst = src
          /\ \E left \in [DOMAIN heap[src].data -> Bytes] :
                heap' = [heap EXCEPT ![dst].data = left]
    /\ UNCHANGED <<list, held>>

Create(l) ==
    /\ Returns
    /\ ~Made(l)
    /\ list' = [list EXCEPT ![l].made = TRUE]
    /\ UNCHANGED <<heap, held>>

\* Seeded bug: only the first node is freed.
Destroy_FirstOnly(l) ==
    /\ Returns
    /\ Made(l)
    /\ heap' = Freed(heap, IF list[l].len > 0 THEN {list[l].first} ELSE {})
    /\ list' = [list EXCEPT ![l] = [made |-> FALSE, first |-> NULL, len |-> 0]]
    /\ UNCHANGED held

\* The list is walked to its end, then back along the prev pointers until it
\* is at the first node, freeing what comes next of each node arrived at.
Destroy(l) ==
    LET first == list[l].first
        last == EndOf(heap, first)
        back[k \in Nat] ==
            IF k = 0 THEN last ELSE IF back[k - 1] = first THEN first
            ELSE heap[back[k - 1]].prev
        turns == CHOOSE k \in 0..Cardinality(Nodes) :
                    back[k] = first /\ \A j \in 0..(k - 1) : back[j] # first
        freed == {heap[back[k]].next : k \in 1..turns} \union {first}
    IN  /\ Returns
        /\ Made(l)
        /\ heap' = Freed(heap, IF list[l].len > 0 THEN freed ELSE {})
        /\ list' = [list EXCEPT ![l] = [made |-> FALSE, first |-> NULL, len |-> 0]]
        /\ UNCHANGED held

\* list_end is not initialised before it is followed, nor before it is the
\* prev of the node that becomes the first.
AppendNode(l, n) ==
    /\ Made(l)
    /\ n \in held
    /\ \/ /\ list[l].first = NULL
          /\ Returns
          /\ list' = [list EXCEPT ![l].first = n, ![l].len = @ + 1]
          /\ heap' = [heap EXCEPT ![n].prev = Wild]
          /\ held' = held \ {n}
       \/ list[l].first # NULL /\ DiesAs("undefined")

AppendBytes(l, d) ==
    /\ Returns
    /\ Made(l)
    /\ HasRoom(heap)
    /\ LET m == AppendData([heap |-> heap, list |-> list], l, d) IN
          heap' = m.heap /\ list' = m.list
    /\ UNCHANGED held

\* Seeded bug: the count of a list of one node is decremented twice.
RemoveEnd_CountsTwice(l) ==
    LET node == heap[EndOf(heap, list[l].first)].prev IN
    /\ Returns
    /\ list[l].first # NULL
    /\ IF list[l].len = 1
         THEN /\ heap' = Freed(heap, {list[l].first})
              /\ list' = [list EXCEPT ![l].first = NULL, ![l].len = @ - 2]
         ELSE /\ heap' = [Freed(heap, {heap[node].next}) EXCEPT ![node].next = NULL]
              /\ list' = [list EXCEPT ![l].len = @ - 1]
    /\ UNCHANGED held

RemoveEnd(l) ==
    LET node == heap[EndOf(heap, list[l].first)].prev IN
    /\ Returns
    /\ list[l].first # NULL
    /\ IF list[l].len = 1
         THEN /\ heap' = Freed(heap, {list[l].first})
              /\ list' = [list EXCEPT ![l].first = NULL, ![l].len = @ - 1]
         ELSE /\ heap' = [Freed(heap, {heap[node].next}) EXCEPT ![node].next = NULL]
              /\ list' = [list EXCEPT ![l].len = @ - 1]
    /\ UNCHANGED held

\* Seeded bug: node has already moved back when the one behind it is read.
NodeAfter_Swapped(l, idx) == heap[heap[NodeAt(heap, list[l].first, idx)].prev].next

\* The node behind the removed one, which is written to: there may be none.
NodeAfter(l, idx) == heap[NodeAt(heap, list[l].first, idx)].next

\* The branch for a node that is neither the first nor the only one.
Unlinks(l, idx) == list[l].len # 1 /\ ~(idx = 0 /\ list[l].len > 1)

RemoveIdx(l, idx) ==
    LET first == list[l].first
        second == heap[first].next
        after == NodeAfter(l, idx)
        node == heap[NodeAt(heap, first, idx)].prev
        less == [list EXCEPT ![l].len = @ - 1]
    IN  /\ list[l].len # 0 /\ first # NULL
        /\ \/ idx >= list[l].len /\ RemoveEnd(l)
           \/ /\ idx < list[l].len
              /\ \/ /\ idx = 0 /\ list[l].len > 1 /\ Returns
                    /\ heap' = [Freed(heap, {first}) EXCEPT ![second].prev = NULL]
                    /\ list' = [less EXCEPT ![l].first = second]
                    /\ UNCHANGED held
                 \/ /\ list[l].len = 1 /\ Returns
                    /\ heap' = Freed(heap, {first})
                    /\ list' = [less EXCEPT ![l].first = NULL]
                    /\ UNCHANGED held
                 \/ /\ Unlinks(l, idx) /\ after # NULL /\ Returns
                    /\ heap' = [Freed(heap, {heap[node].next}) EXCEPT
                                    ![node].next = after, ![after].prev = node]
                    /\ list' = less
                    /\ UNCHANGED held
                 \/ Unlinks(l, idx) /\ after = NULL /\ DiesAs("crashed")

\* One turn of byte_list_copy, at a node of src; the loop ends where src does,
\* or where an append fails.
CopyTurn(m, dst) ==
    IF m.at = NULL \/ ~HasRoom(m.heap) THEN m
    ELSE LET a == AppendData(m, dst, m.heap[m.at].data) IN
         [heap |-> a.heap, list |-> a.list, at |-> a.heap[m.at].next]

\* Every turn allocates a node, so that as many as there are nodes are enough.
Copied(dst, src) ==
    LET turn[k \in 0..Cardinality(Nodes)] ==
            IF k = 0 THEN [heap |-> heap, list |-> list, at |-> list[src].first]
            ELSE CopyTurn(turn[k - 1], dst)
    IN  turn[Cardinality(Nodes)]

Copy(dst, src) ==
    /\ Returns
    /\ Made(dst) /\ Made(src)
    /\ heap' = Copied(dst, src).heap
    /\ list' = Copied(dst, src).list
    /\ UNCHANGED held

Next ==
    \/ \E d \in Appended : NodeCreate(d)
    \/ \E n \in held : NodeDestroy(n)
    \/ \E n \in Known : NodeZero(n) \/ \E m \in Known : NodeCopy(n, m)
    \/ \E l \in Lists :
        \/ Create(l) \/ Destroy(l) \/ RemoveEnd(l)
        \/ \E n \in held : AppendNode(l, n)
        \/ \E d \in Appended : AppendBytes(l, d)
        \/ \E idx \in 0..Cardinality(Nodes) : RemoveIdx(l, idx)
        \/ \E src \in Lists : Copy(l, src)

Spec == Init /\ [][Next]_vars

---------------------------------------------------------------------------
ListTypeOK ==
    /\ DOMAIN heap \subseteq Nodes
    /\ \A n \in DOMAIN heap :
          heap[n] \in [data : Contents, next : Nodes \union {NULL}, prev : Nodes \union {NULL, Wild}]
    /\ list \in [Lists -> [made : BOOLEAN, first : Nodes \union {NULL}, len : 0..Cardinality(Nodes)]]
    /\ held \subseteq DOMAIN heap
    /\ fate \in {"running", "crashed", "undefined"}

\* The nodes of a list, none of them twice, up to the NULL behind the last.
IsChain(l, w) ==
    /\ \A i \in DOMAIN w : \A j \in 1..(i - 1) : w[i] # w[j]
    /\ \A i \in DOMAIN w : heap[w[i]].next = IF i = Len(w) THEN NULL ELSE w[i + 1]
    /\ list[l].first = IF w = <<>> THEN NULL ELSE w[1]

\* byte_list_get, byte_list_remove_end and byte_list_destroy trust the count
\* for the number of nodes behind first and the prev pointers for the way
\* back (list.c:159-163, :260-262, :284-290): the links are as many as the
\* count says, lead through allocated memory only, and back the way they
\* came, after any calls.
LinksSound ==
    \A l \in Lists :
        /\ IsChain(l, Chain(l))
        /\ Len(Chain(l)) = list[l].len
        /\ \A i \in 2..Len(Chain(l)) : heap[Chain(l)[i]].prev = Chain(l)[i - 1]

\* No node is lost, freed while a list has it, or shared by two lists: what
\* is allocated is held by the program or on exactly one list.
NothingLeaked ==
    /\ DOMAIN heap = held \union InLists
    /\ \A l \in Lists : \A i \in DOMAIN Chain(l) :
          /\ Chain(l)[i] \notin held
          /\ \A k \in Lists \ {l} : \A j \in DOMAIN Chain(k) : Chain(k)[j] # Chain(l)[i]

\* byte_list_remove_idx writes through a NULL pointer for the last of several
\* nodes (list.c:342), and for no other index and no other list.
RemovalsCrash ==
    \A l \in Lists : \A idx \in 0..(list[l].len - 1) :
        Unlinks(l, idx) /\ NodeAfter(l, idx) = NULL <=> idx = list[l].len - 1 /\ idx > 0

\* The chunks of the nodes w.
ChunksOf(h, w) == [i \in 1..Len(w) |-> h[w[i]].data]
Seqs == [l \in Lists |-> ChunksOf(heap, Chain(l))]
MadeLists == {l \in Lists : Made(l)}
Room == Cardinality(Nodes) - Cardinality(DOMAIN heap)

Contained ==
    INSTANCE ByteSeq WITH
        Chunks <- Contents, Capacity <- Cardinality(Nodes),
        seqs <- Seqs, made <- MadeLists, room <- Room

\* The lists are the sequences of chunks of ByteSeq, in a memory of as many
\* nodes: appended and copied behind, removed where asked, never reordered,
\* lost or counted wrong.
ListsAreSequences == Contained!Spec
=============================================================================
