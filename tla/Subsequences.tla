---------------------------- MODULE Subsequences -----------------------------
(***************************************************************************)
(* Loops that keep some of a container's elements, in their order.         *)
(***************************************************************************)
EXTENDS Naturals, Sequences

(* What the first n elements of s leave, when those in T are kept; the     *)
(* elements of s in T.                                                     *)
Scan(s, T, n) ==
  LET F[i \in 0..n] == IF i = 0 THEN <<>>
                       ELSE IF s[i] \in T THEN Append(F[i - 1], s[i]) ELSE F[i - 1]
  IN  F
Filtered(s, T) == Scan(s, T, Len(s))[Len(s)]
===============================================================================
