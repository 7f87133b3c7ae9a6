---------------------------- MODULE ExchangeSort ----------------------------
(***************************************************************************)
(* The arrays of LISTSIZE entries and how their first n entries are sorted *)
(* by frequency: sortList for the stored frequencies, sortAntPortList for  *)
(* the antenna ranges, the same two loops.                                 *)
(***************************************************************************)
EXTENDS Naturals

CONSTANT LISTSIZE

ASSUME SizeAssumption == LISTSIZE \in Nat \ {0}

Index == 0..(LISTSIZE - 1)

Exchange(list, i, j) ==
    IF list[i].freq > list[j].freq
    THEN [list EXCEPT ![i] = list[j], ![j] = list[i]]
    ELSE list

\* The inner loop: entry i is compared with all behind it.
Pass(list, n, i) ==
    LET after[j \in i..(n - 1)] == IF j = i THEN list ELSE Exchange(after[j - 1], i, j)
    IN  after[n - 1]

\* The outer loop, over all entries but the last.
Sort(list, n) ==
    LET after[i \in 0..(n - 1)] == IF i = 0 THEN list ELSE Pass(after[i - 1], n, i - 1)
    IN  IF n = 0 THEN list ELSE after[n - 1]
=============================================================================
