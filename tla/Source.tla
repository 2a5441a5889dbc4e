------------------------------- MODULE Source -------------------------------
(***************************************************************************)
(* The life of the source representation of src/src/source.c: a scratch    *)
(* line is filled in piece by piece and its contents copied into the next  *)
(* slot of a SourceInfo, whose slots are lines of their own from the       *)
(* beginning.  Programs create, clone and destroy SourceInfos, add, edit   *)
(* and read lines in any order.                                            *)
(*                                                                         *)
(* A line is one address; its opcode, strings and byte list belong to it   *)
(* alone and come and go with it (but for the string of its symbol, which  *)
(* line_info_destroy forgets).  Memory has room for so many lines.         *)
(***************************************************************************)
EXTENDS Integers, Sequences, FiniteSets
LOCAL INSTANCE FiniteSetsExt

CONSTANTS
    Lines,      \* the addresses of lines
    Infos,      \* the SourceInfos a program uses
    Sizes,      \* the numbers of lines they are created for
    Texts,      \* the labels and symbols
    Numbers,    \* the line numbers, addresses, immediates and registers
    MaxBytes,   \* bound on the byte arrays of a line
    NULL

ASSUME LinesAssumption == IsFiniteSet(Lines) /\ NULL \notin Lines
ASSUME SizesAssumption == Sizes \subseteq Nat

VARIABLES
    heap,       \* the contents of each allocated line
    text_seg,   \* the contents of the scratch line
    info,       \* [live, buffer, size] of each SourceInfo
    fate,       \* "running", or how the program went wrong
    given,      \* history: the lines the program has added to each info
    calls       \* history: the kinds of call that have been made

vars == <<heap, text_seg, info, fate, given, calls>>

\* A text of length 0 is the empty string, whatever label_str points to.
Blank == [number |-> 0, label |-> "", symbol |-> "", bytes |-> <<>>]

NoInfo == [live |-> FALSE, buffer |-> <<>>, size |-> 0]

Init ==
    /\ heap = <<>>
    /\ text_seg = Blank
    /\ info = [i \in Infos |-> NoInfo]
    /\ fate = "running"
    /\ given = [i \in Infos |-> <<>>]
    /\ calls = {}

Free == Lines \ DOMAIN heap
max_size(i) == Len(info[i].buffer)
full(i) == info[i].size = max_size(i)

\* Seeded bug: the byte arrays take the place of the old ones, as a copy does.
Copied_Replaces(dst, src) == src

\* What line_info_copy leaves in a line that had old contents: the lengths
\* of the strings are copied in any case and decide whether there is one;
\* the byte arrays of src go behind those dst has.
Copied(dst, src) == [src EXCEPT !.bytes = dst.bytes \o src.bytes]

Running == fate = "running"
GoesWrong(how) == fate' = how /\ UNCHANGED <<heap, text_seg, info, given>>

---------------------------------------------------------------------------
\* The scratch line.
Fill(line) == text_seg' = line /\ UNCHANGED <<heap, info, fate, given, calls>>

LineInit == Running /\ Fill(Blank)
SetFields(n) == Running /\ Fill([text_seg EXCEPT !.number = n])
SetLabel(t) == Running /\ Fill([text_seg EXCEPT !.label = t])
SetSymbol(t) == Running /\ Fill([text_seg EXCEPT !.symbol = t])
AppendArray(d) ==
    Running /\ Len(text_seg.bytes) < MaxBytes /\ Fill([text_seg EXCEPT !.bytes = Append(@, d)])
ClearBytes == Running /\ Fill([text_seg EXCEPT !.bytes = <<>>])

---------------------------------------------------------------------------
\* The allocator may hand out any n free addresses, in any order.
Fresh(n) ==
    {s \in [1..n -> Free] : \A b, c \in 1..n : s[b] = s[c] => b = c}

\* Seeded bug: line_info_init is not called on a new line.
WithBlank_NoInit(s) == [m \in DOMAIN heap \union {s[j] : j \in DOMAIN s} |->
    IF m \in DOMAIN heap THEN heap[m] ELSE [Blank EXCEPT !.number = -1]]

WithBlank(s) == [m \in DOMAIN heap \union {s[j] : j \in DOMAIN s} |->
                    IF m \in DOMAIN heap THEN heap[m] ELSE Blank]

\* Seeded bug: the slots share one line.
Created_OneLine(n) ==
    IF n > Cardinality(Free) THEN {}
    ELSE {[heap |-> WithBlank(s),
           info |-> [live |-> TRUE, buffer |-> [b \in 1..n |-> s[1]], size |-> 0]] :
             s \in Fresh(1)}

\* What source_info_create may come back with.  Where memory ends on the way
\* and the block for a slot cannot be had, it returns NULL and the lines made
\* so far are forgotten; where only the line cannot be had, the slot is NULL
\* and nobody looks.
Made(n) == IF n <= Cardinality(Free) THEN n ELSE Cardinality(Free)

Created(n) ==
    LET k == Made(n)
        Slots(s) == [b \in 1..n |-> IF b <= k THEN s[b] ELSE NULL]
    IN  {[heap |-> WithBlank(s),
          info |-> [live |-> TRUE, buffer |-> Slots(s), size |-> 0]] : s \in Fresh(k)}
        \union
        {[heap |-> WithBlank(s), info |-> NoInfo] : s \in IF k = n THEN {} ELSE Fresh(k)}

Shortage(n) == IF n <= Cardinality(Free) THEN {} ELSE {"short"}

Create(i, n) ==
    /\ Running /\ ~info[i].live
    /\ \E made \in Created(n) :
          heap' = made.heap /\ info' = [info EXCEPT ![i] = made.info]
    /\ given' = [given EXCEPT ![i] = <<>>]
    /\ calls' = calls \union Shortage(n)
    /\ UNCHANGED <<text_seg, fate>>

\* Copies the scratch line into slot idx, counted from 0; a slot that is NULL
\* refuses it, as line_info_copy returns -1.
Store(i, idx) ==
    IF idx >= max_size(i) THEN GoesWrong("outside")
    ELSE LET line == info[i].buffer[idx + 1] IN
         /\ line # NULL
         /\ IF line \notin DOMAIN heap THEN GoesWrong("freed")
            ELSE /\ heap' = [heap EXCEPT ![line] = Copied(@, text_seg)]
                 /\ info' = [info EXCEPT ![i].size = @ + 1]
                 /\ given' = [given EXCEPT ![i] = Append(@, text_seg)]
                 /\ UNCHANGED <<text_seg, fate>>

\* Seeded bug: no check that there is room.
AddLine_Unchecked(i) ==
    Running /\ info[i].live /\ Store(i, info[i].size) /\ UNCHANGED calls

\* Seeded bug: the line is counted before its slot is taken.
AddLine_CountsFirst(i) ==
    /\ Running /\ info[i].live
    /\ ~full(i)
    /\ Store(i, info[i].size + 1)
    /\ UNCHANGED calls

AddLine(i) ==
    /\ Running /\ info[i].live
    /\ ~full(i)
    /\ Store(i, info[i].size)
    /\ UNCHANGED calls

EditLine(i, idx) ==
    /\ Running /\ info[i].live
    /\ idx <= info[i].size
    /\ Store(i, idx)
    /\ calls' = calls \union {"edit"}

\* The program reads a line it has asked for; the slot behind the last one
\* is handed out as well.
GetIdx(i, idx) ==
    /\ Running /\ info[i].live
    /\ idx <= max_size(i)
    /\ \/ idx = max_size(i) /\ GoesWrong("outside")
       \/ /\ idx < max_size(i)
          /\ info[i].buffer[idx + 1] \notin DOMAIN heap \union {NULL}
          /\ GoesWrong("freed")
    /\ calls' = calls \union {"get"}

\* The clone's own lines are made, and those of the slots that are filled are
\* forgotten for the lines of the original.
CloneInfo(src, dst) ==
    /\ Running /\ info[src].live /\ ~info[dst].live
    /\ \E made \in Created(max_size(src)) :
        IF made.info.live /\ info[src].size > max_size(src)
          THEN GoesWrong("outside")
          ELSE /\ heap' = made.heap
               /\ info' = [info EXCEPT ![dst] =
                    IF ~made.info.live THEN NoInfo
                    ELSE [live |-> TRUE, size |-> info[src].size,
                          buffer |-> [b \in 1..max_size(src) |->
                              IF b <= info[src].size THEN info[src].buffer[b]
                              ELSE made.info.buffer[b]]]]
               /\ given' = [given EXCEPT ![dst] = given[src]]
               /\ UNCHANGED <<text_seg, fate>>
    /\ calls' = calls \union {"clone"} \union Shortage(max_size(src))

SlotLines(i) == {info[i].buffer[b] : b \in 1..max_size(i)}

\* Seeded bug: only the slots that are filled have their lines destroyed.
Destroy_FilledOnly(i) ==
    LET filled == {info[i].buffer[b] : b \in 1..info[i].size} IN
    /\ Running /\ info[i].live
    /\ \/ info[i].size = 0 /\ calls' = calls \union {"destroy empty"} /\ UNCHANGED heap
       \/ /\ info[i].size > 0 /\ filled \subseteq DOMAIN heap
          /\ heap' = [m \in DOMAIN heap \ filled |-> heap[m]]
          /\ UNCHANGED calls
    /\ info' = [info EXCEPT ![i] = NoInfo]
    /\ given' = [given EXCEPT ![i] = <<>>]
    /\ UNCHANGED <<text_seg, fate>>

\* Of an info without lines only the info itself is freed.  Otherwise every
\* slot's line is destroyed, filled or not; a slot may be NULL, or its line
\* freed already.
Destroy(i) ==
    LET lines == SlotLines(i) IN
    /\ Running /\ info[i].live
    /\ \/ info[i].size = 0 /\ calls' = calls \union {"destroy empty"} /\ UNCHANGED heap
       \/ /\ info[i].size > 0 /\ lines \subseteq DOMAIN heap
          /\ heap' = [m \in DOMAIN heap \ lines |-> heap[m]]
          /\ UNCHANGED calls
    /\ info' = [info EXCEPT ![i] = NoInfo]
    /\ given' = [given EXCEPT ![i] = <<>>]
    /\ UNCHANGED <<text_seg, fate>>

DestroyTwice(i) ==
    LET lines == SlotLines(i) IN
    /\ Running /\ info[i].live
    /\ info[i].size > 0 /\ ~(lines \subseteq DOMAIN heap)
    /\ GoesWrong(IF lines \subseteq DOMAIN heap \union {NULL} THEN "null" ELSE "freed")
    /\ UNCHANGED calls

Next ==
    \/ LineInit \/ ClearBytes
    \/ \E n \in Numbers : SetFields(n)
    \/ \E t \in Texts : SetLabel(t) \/ SetSymbol(t)
    \/ AppendArray("d")
    \/ \E i \in Infos :
        \/ \E n \in Sizes : Create(i, n)
        \/ AddLine(i) \/ Destroy(i) \/ DestroyTwice(i)
        \/ \E idx \in 0..info[i].size : EditLine(i, idx)
        \/ \E idx \in 0..max_size(i) : GetIdx(i, idx)
        \/ \E dst \in Infos : CloneInfo(i, dst)

Spec == Init /\ [][Next]_vars

---------------------------------------------------------------------------
LineContents ==
    [number : Numbers \union {0}, label : Texts \union {""}, symbol : Texts \union {""},
     bytes : Seq({"d"})]

SourceTypeOK ==
    /\ DOMAIN heap \subseteq Lines
    /\ heap \in [DOMAIN heap -> LineContents]
    /\ text_seg \in LineContents
    /\ info \in [Infos -> [live : BOOLEAN, buffer : Seq(Lines \union {NULL}), size : Nat]]
    /\ given \in [Infos -> Seq(LineContents)]
    /\ fate \in {"running", "outside", "freed", "null"}

Without(kinds) == calls \intersect kinds = {}

\* What the lexer hands over is what the assembler finds, line by line: as
\* long as lines are only added, each filled slot has the label, symbol, fields
\* and byte arrays of its line and nothing of an earlier one.
LinesAsGiven ==
    Without({"edit", "clone"}) =>
        \A i \in Infos : info[i].live =>
            /\ info[i].size = Len(given[i])
            /\ \A e \in 1..info[i].size : heap[info[i].buffer[e]] = given[i][e]

\* An edit takes nothing back: whichever slots were filled, and filled again,
\* the byte arrays of every line ever stored in an info are still there, none
\* of them twice, because line_info_copy appends them (source.c:285).
ArraysPileUp ==
    Without({"clone"}) =>
        \A i \in Infos : info[i].live =>
            LET slots == {b \in 1..max_size(i) : info[i].buffer[b] # NULL}
                held == MapThenSumSet(LAMBDA b : Len(heap[info[i].buffer[b]].bytes), slots)
                stored == MapThenSumSet(LAMBDA e : Len(given[i][e].bytes), DOMAIN given[i])
            IN  held = stored

\* No slot outside the buffer is touched, unless lines have been edited,
\* which makes room on paper (source.c:503), or the slot behind the last one
\* is asked for.
InsideUntilEdited == fate = "outside" => ~Without({"edit", "get"})

\* No line is freed twice, or used after it was freed, before an info has
\* been cloned; no NULL is followed before memory has run out.
FreedOnce ==
    /\ Without({"clone"}) =>
        /\ fate # "freed"
        /\ \A i \in Infos : \A b \in 1..max_size(i) :
            /\ info[i].buffer[b] \in DOMAIN heap \union {NULL}
            /\ \A k \in Infos : \A c \in 1..max_size(k) :
                 info[k].buffer[c] = info[i].buffer[b] /\ info[i].buffer[b] # NULL
                    => k = i /\ c = b
    /\ Without({"short"}) => fate # "null"

\* Every line allocated for an info that still lives is in one of its slots:
\* lines are forgotten only by destroying an empty info, by cloning one and
\* where memory runs out.
LinesReachable ==
    Without({"destroy empty", "clone", "short"}) =>
        \A m \in DOMAIN heap :
            \E i \in Infos : \E b \in 1..max_size(i) : info[i].buffer[b] = m

\* "Check that the pointers are not equal": the filled slots of a clone are
\* not the lines of the original.
ClonesApart ==
    \A i, k \in Infos : i # k /\ info[i].live /\ info[k].live =>
        \A b \in 1..info[i].size : \A c \in 1..info[k].size :
            info[i].buffer[b] # info[k].buffer[c]
=============================================================================
