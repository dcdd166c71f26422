----------------------------- MODULE MCWebClient -----------------------------
(* One page that receives; two pages that send; two or three pages that call. *)
EXTENDS WebClient, TLC

CONSTANTS ann, bob, a1, b1, b2, k1, k2

MCUserOf == (a1 :> ann) @@ (b1 :> bob) @@ (b2 :> bob)

MCActs == {"accept", "reject", "hang up", "return"}

MCScenario(open, callers, calls, acts, limit) ==
    [open |-> open, callers |-> callers, calls |-> calls, acts |-> acts, faults |-> limit]

\* A call between two devices with faults; calls of both to each other.
MCFair == {MCScenario({a1, b1}, {a1}, {k1}, MCActs, 1),
           MCScenario({a1, b1}, {a1, b1}, {k1, k2}, {"reject", "hang up"}, 0)}

\* A call to two devices of a user; a call after the other, to either device.
MCHard == {MCScenario({a1, b1, b2}, {a1}, {k1}, MCActs, 0),
           MCScenario({a1, b1, b2}, {a1}, {k1}, {"accept"}, 1),
           MCScenario({a1, b1}, {a1}, {k1, k2}, {"accept", "hang up"}, 0),
           MCScenario({a1, b2}, {a1}, {k1, k2}, {"accept", "hang up"}, 0)}

MCDisturbed == {"drop", "fail", "lose", "own", "note", "edit", "late"}

MCSymmetry == {w @@ d : w \in Permutations(Workers), d \in Permutations({b1, b2})}
=============================================================================
