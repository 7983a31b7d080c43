-------------------------------- MODULE Sums --------------------------------
(***************************************************************************)
(* Sums of families of integers, by recursive functions so that they can   *)
(* be both evaluated and proved about: of f[1], ..., f[n], and of f[x] for *)
(* the elements x of a finite set.                                         *)
(***************************************************************************)
EXTENDS Integers

SumTo(f, n) ==
  LET total[i \in 0..n] == IF i = 0 THEN 0 ELSE total[i - 1] + f[i]
  IN  total[n]

SumOver(f, S) ==
  LET total[T \in SUBSET S] ==
        IF T = {} THEN 0
        ELSE LET x == CHOOSE x \in T : TRUE IN total[T \ {x}] + f[x]
  IN  total[S]
=============================================================================
