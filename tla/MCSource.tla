------------------------------ MODULE MCSource ------------------------------
\* Two SourceInfos of one and two lines in a memory of four.
EXTENDS Source, TLC

\* Lines are interchangeable, and so are the two SourceInfos.
Symmetry == Permutations(Lines) \union Permutations(Infos)

MaxSize == 3        \* one more than the largest buffer, for the edits
MaxArrays == 2
MaxCalls == 2       \* kinds of odd calls in one behaviour

\* The scratch line has a label or a byte array; its number and its symbol
\* are copied as the label is.
Bounded ==
    /\ \A i \in Infos : info[i].size <= MaxSize
    /\ \A m \in DOMAIN heap : Len(heap[m].bytes) <= MaxArrays
    /\ Cardinality(calls) < MaxCalls
    /\ text_seg \in {Blank, [Blank EXCEPT !.label = "L"], [Blank EXCEPT !.bytes = <<"d">>]}
=============================================================================
