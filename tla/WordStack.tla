----------------------------- MODULE WordStack -----------------------------
(***************************************************************************)
(* What the stack instructions of src/src/cpu.c promise together: a        *)
(* last-in first-out stack of 16-bit words.  A word that is taken back is  *)
(* the latest one saved and not yet taken back.  The program may at any    *)
(* time give up what it has saved, by moving sp or overwriting the words.  *)
(***************************************************************************)
EXTENDS Integers, Sequences

CONSTANT Words

VARIABLES
    stack,      \* the words saved, the latest one last
    restored    \* the word last taken back

vars == <<stack, restored>>

Init == stack = <<>> /\ restored = 0

Front(s) == [i \in 1..(Len(s) - 1) |-> s[i]]

Last(s) == s[Len(s)]

\* Some word is appended; stated on stack', as only the refinement uses it.
Save ==
    /\ stack' # <<>>
    /\ Front(stack') = stack
    /\ Last(stack') \in Words
    /\ UNCHANGED restored

Restore ==
    /\ stack # <<>>
    /\ restored' = Last(stack)
    /\ stack' = Front(stack)

Abandon == stack' = <<>> /\ UNCHANGED restored

Next == Save \/ Restore \/ Abandon

Spec == Init /\ [][Next]_vars
=============================================================================
