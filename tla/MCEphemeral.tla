---------------------------- MODULE MCEphemeral -----------------------------
(***************************************************************************)
(* Ephemeral agents for TLC: run r1 is three phases with chain_branch, the *)
(* middle one a parallel phase of two tasks, r2 a phase without it and one *)
(* with it, and w is a client's task that has nothing to do with them.     *)
(***************************************************************************)
EXTENDS Ephemeral, TLC

CONSTANTS r1, r2, a, p1, p2, c, s, d, w

MCSpecs == r1 :> <<a, p1, p2, c>> @@ r2 :> <<s, d>>

MCDeps ==
    p1 :> <<a>> @@ p2 :> <<a>> @@ c :> <<p1, p2>> @@ d :> <<s>>
    @@ [t \in {a, s, w} |-> <<>>]

MCAbove ==
    p1 :> {a} @@ p2 :> {a} @@ c :> {a, p1, p2} @@ d :> {s}
    @@ [t \in {a, s, w} |-> {}]

=============================================================================
