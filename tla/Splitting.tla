-------------------------------- MODULE Splitting ------------------------------
(* What it means to split a sequence: paths into names, lines into words. *)
EXTENDS Integers, FiniteSets, Sequences

\* The n-th of a set of numbers, from the least.
Nth(S, n) == CHOOSE i \in S : Cardinality({j \in S : j < i}) = n - 1

\* Where the runs of elements other than sep start, and where one ends.
RunStarts(s, sep) == {i \in DOMAIN s : s[i] # sep /\ (i = 1 \/ s[i - 1] = sep)}

RunEnd(s, sep, i) ==
    CHOOSE j \in i .. Len(s) : /\ \A k \in i .. j : s[k] # sep
                               /\ j = Len(s) \/ s[j + 1] = sep

\* The runs, in order.
Runs(s, sep) ==
    [n \in 1 .. Cardinality(RunStarts(s, sep)) |->
        LET i == Nth(RunStarts(s, sep), n) IN SubSeq(s, i, RunEnd(s, sep, i))]
===============================================================================
