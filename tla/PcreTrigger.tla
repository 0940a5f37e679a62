---------------------------- MODULE PcreTrigger ----------------------------
(***************************************************************************)
(* CPcreTrigger and CPcreStringQueue: the code of the strongest input is   *)
(* appended to a bounded buffer of symbols, every pattern is sought in it, *)
(* and the buffer loses all up to the end of the last text found.  The     *)
(* buffer is an array that ends with a zero, which push_back writes and    *)
(* pop_front does not; what the patterns see runs up to the first zero.    *)
(*                                                                         *)
(* A pattern is a word; the regular expressions are the library's.         *)
(***************************************************************************)
EXTENDS Integers, Sequences, SequencesExt, FiniteSetsExt

CONSTANTS
    Codes,       \* codes of the inputs
    Patterns,    \* words over Codes
    max_size,
    MaxInputs    \* bound: inputs in a behaviour

ASSUME PcreAssumption ==
    /\ Patterns \subseteq Seq(Codes) \ {<<>>}
    /\ max_size \in Nat \ {0}
    /\ MaxInputs \in Nat

VARIABLES
    q, cur_size,
    text,       \* the string the patterns were sought in
    found,      \* the patterns found in it, whose outputs were set
    inputs,     \* history: all inputs since a pattern was last found,
    taken       \* and their number since the trigger was loaded

pcreVars == <<q, cur_size, text, found, inputs, taken>>

Zero == "zero"

PcreTypeOK ==
    /\ q \in [0 .. max_size -> Codes \cup {Zero}]
    /\ cur_size \in 0 .. max_size
    /\ text \in Seq(Codes)
    /\ found \subseteq Patterns
    /\ inputs \in Seq(Codes)
    /\ taken \in 0 .. MaxInputs

\* The array is not initialised; nothing reads it before a symbol is pushed.
PcreInit ==
    /\ q \in [0 .. max_size -> {Zero} \cup Codes]
    /\ cur_size = 0
    /\ text = <<>>
    /\ found = {}
    /\ inputs = <<>>
    /\ taken = 0

\* pop_front(n) of a buffer: the rest moves down, the tail stays as it was.
ShiftedShort(buf, size, n) ==
    [i \in 0 .. max_size |-> IF i + n < size - 1 THEN buf[i + n] ELSE buf[i]]
Shifted(buf, size, n) ==
    [i \in 0 .. max_size |-> IF i + n < size THEN buf[i + n] ELSE buf[i]]

Room == IF cur_size = max_size THEN Shifted(q, cur_size, 1) ELSE q
Size == IF cur_size = max_size THEN cur_size - 1 ELSE cur_size

Pushed(c) == [Room EXCEPT ![Size] = c, ![Size + 1] = Zero]

\* str(): the characters before the first zero.
Str(buf) ==
    LET zero == Min({i \in 0 .. max_size : buf[i] = Zero})
    IN  [i \in 1 .. zero |-> buf[i - 1]]

\* Where a pattern first ends in the text; 0 if it does not occur.
Ends(p, s) == {e \in Len(p) .. Len(s) : SubSeq(s, e - Len(p) + 1, e) = p}
EndOf(p, s) == IF Ends(p, s) = {} THEN 0 ELSE Min(Ends(p, s))

\* The end of the last text found, which is where the buffer is trimmed.
Trim(s) == Max({0} \cup {EndOf(p, s) : p \in Patterns})

ProcessInput(c) ==
    LET s    == Str(Pushed(c))
        trim == Min({Size + 1, Trim(s)})
    IN  /\ taken < MaxInputs
        /\ text' = s
        /\ found' = {p \in Patterns : EndOf(p, s) > 0}
        /\ q' = Shifted(Pushed(c), Size + 1, trim)
        /\ cur_size' = Size + 1 - trim
        /\ inputs' = IF found = {} THEN Append(inputs, c) ELSE <<c>>
        /\ taken' = taken + 1

PcreNext == \E c \in Codes : ProcessInput(c)

PcreSpec == PcreInit /\ [][PcreNext]_pcreVars

----------------------------------------------------------------------------

Recent(s, n) == SubSeq(s, Len(s) - n + 1, Len(s))

\* The patterns are sought in the most recent inputs since one was found, as
\* many as there are or fit: the zero a trim leaves behind and the symbols
\* beyond it never get into the text, and nothing found is found again.
\* A pattern is found with the symbol that completes it: after the inputs are
\* processed none is left in the buffer to be found later.
FoundOnceAtOnce ==
    /\ text = Recent(inputs, Min({Len(inputs), max_size}))
    /\ \A p \in Patterns : EndOf(p, [i \in 1 .. cur_size |-> q[i - 1]]) = 0
=============================================================================
