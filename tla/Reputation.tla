----------------------------- MODULE Reputation -----------------------------
(***************************************************************************)
(* What UserFlags promises to whoever reads the rows of a user: reports,   *)
(* edits and decay passes take effect one after the other, the flags and   *)
(* the aggregate at once, and none undoes another.  Only an edit may leave *)
(* a score that is not the sum of the flags, and only if MayDrift.         *)
(***************************************************************************)
EXTENDS Naturals

CONSTANTS Flags, Lasting, MaxWeight, Total(_), LevelFromScore(_),
          MayDrift    \* TRUE when an edit may run beside another transaction

VARIABLES
    weight, eff,   \* weights of the flags, as given and as they count now
    born,          \* flag ids in use
    score, level,
    drift          \* the score is not the sum of the flags

vars == <<weight, eff, born, score, level, drift>>

Nothing == [f \in {} |-> 0]

Given(w, f, n) == [g \in DOMAIN w \cup {f} |-> IF g = f THEN n ELSE w[g]]

Removed(w, f) == [g \in DOMAIN w \ {f} |-> w[g]]

Save(s) == score' = s /\ level' = LevelFromScore(s)

Init ==
    /\ weight = Nothing /\ eff = Nothing /\ born = {}
    /\ score = 0 /\ level = "CLEAN" /\ drift = FALSE

\* A flag with an id of its own, whose weight the score grows by.
Report(f, n) ==
    /\ f \notin born
    /\ born' = born \cup {f}
    /\ weight' = Given(weight, f, n)
    /\ eff' = Given(eff, f, n)
    /\ Save(score + n)
    /\ UNCHANGED drift

\* The score becomes the sum of the flags there are now, or of flags there were.
Recount ==
    \/ Save(Total(eff')) /\ drift' = FALSE
    \/ /\ MayDrift
       /\ \E S \in SUBSET born : \E w \in [S -> 0 .. MaxWeight] : Save(Total(w))
       /\ drift' = TRUE

\* One flag is removed, given a new weight, or looked at again.
Edit(f) ==
    /\ f \in DOMAIN weight
    /\ \/ weight' = Removed(weight, f) /\ eff' = Removed(eff, f)
       \/ \E n \in 1 .. MaxWeight : weight' = Given(weight, f, n) /\ eff' = Given(eff, f, n)
       \/ UNCHANGED <<weight, eff>>
    /\ Recount
    /\ UNCHANGED born

\* No flag is added, removed or made heavier, and the sum is right again.
Decay ==
    /\ \E w \in [DOMAIN eff -> 0 .. MaxWeight] :
         /\ \A f \in DOMAIN eff : IF f \in Lasting THEN w[f] = weight[f] ELSE w[f] <= eff[f]
         /\ eff' = w
         /\ Save(Total(w))
    /\ drift' = FALSE
    /\ UNCHANGED <<weight, born>>

Next ==
    \/ \E f \in Flags, n \in 1 .. MaxWeight : Report(f, n)
    \/ \E f \in Flags : Edit(f)
    \/ Decay

Spec == Init /\ [][Next]_vars

=============================================================================
