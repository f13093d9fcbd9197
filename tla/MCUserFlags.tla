----------------------------- MODULE MCUserFlags -----------------------------
(* TLC instance of UserFlags. *)
EXTENDS UserFlags, Functions, TLC

CONSTANTS f1, f2, p1, a1, a2, d1

Sum(w) == FoldFunction(LAMBDA m, n : m + n, 0, w)

TwoFlags == {f1, f2}
OnePoster == {p1}
TwoAdmins == {a1, a2}
OneDecayer == {d1}

=============================================================================
