-------------------------- MODULE MCSessionJournal --------------------------
EXTENDS SessionJournal, TLC

CONSTANTS ann, bob, s1, s2, s3, s4, r1, r2, r3, claim, t1, t2

Intent(c, r, k) == [creator |-> c, expected |-> r, claim |-> k]

(* Two LIVEs of one creator; another creator's, accepted by automation;    *)
(* the same claim with other paths, which overlap the first one's.         *)
AllIntents ==
  s1 :> Intent(ann, NoRoom, NoClaim) @@ s2 :> Intent(ann, r2, NoClaim)
    @@ s3 :> Intent(bob, r3, claim) @@ s4 :> Intent(bob, r3, claim)
MCIntentOf == [s \in Sessions |-> AllIntents[s]]
MCOverlapping == {<<s1, s4>>, <<s4, s1>>}
MCSymmetry == Permutations(Tokens)
=============================================================================
