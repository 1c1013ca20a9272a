------------------------------ MODULE MCTrust -------------------------------
(***************************************************************************)
(* Both chains of trust in one run: the workshop's attestations and the    *)
(* joint retention evidence.  They share nothing, so "part" says which of  *)
(* the two moves.                                                          *)
(***************************************************************************)
EXTENDS WorkshopTrust, JointRetention, TLC

CONSTANTS mk, ck, sk, p1, p2, p3, i1, i2, m1, m2

Signer(p, r) == [principal |-> p, role |-> r]
MCRegistries ==
    { mk :> Signer(p1, "workshop_maker") @@ ck :> Signer(p2, "workshop_checker")
         @@ sk :> Signer(p3, "workshop_supervisor"),
      mk :> Signer(p1, "workshop_maker") @@ ck :> Signer(p1, "workshop_checker")
         @@ sk :> Signer(p3, "workshop_supervisor") }
MCKeyEnds == i1 :> 2 @@ i2 :> 2
Symmetry == Permutations({i1, i2}) \cup Permutations({m1, m2})

VARIABLE part

Init == TrustInit /\ RetentionInit /\ part \in {"workshop", "retention"}
Next ==
    \/ part = "workshop" /\ TrustNext /\ UNCHANGED <<retentionVars, part>>
    \/ part = "retention" /\ RetentionNext /\ UNCHANGED <<trustVars, part>>
Spec == Init /\ [][Next]_<<trustVars, retentionVars, part>>
=============================================================================
