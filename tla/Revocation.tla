----------------------------- MODULE Revocation -----------------------------
(***************************************************************************)
(* What the engine promises a Lightning channel, and nothing else.         *)
(* Commitments 0, 1, 2, ... are published one at a time, each as the point *)
(* of its own secret.  The secret of a commitment is handed over only once *)
(* the point of the next commitment is out, in order, at most once, and it *)
(* is the secret BOLT #3 derives from the channel seed.                    *)
(***************************************************************************)
EXTENDS Shachain

VARIABLES published,    \* number of commitments whose point is published
          secrets       \* the secrets handed over, in order

revocationVars == <<published, secrets>>

RevocationInit == published = 0 /\ secrets = << >>

Publish ==
    /\ published <= M
    /\ published' = published + 1
    /\ UNCHANGED secrets

Revoke ==
    /\ Len(secrets) < published - 1
    /\ Len(secrets') = Len(secrets) + 1
    /\ SubSeq(secrets', 1, Len(secrets)) = secrets
    /\ GeneratesFromSeed(secrets'[Len(secrets')], IndexOf(Len(secrets)))
    /\ UNCHANGED published

RevocationNext == Publish \/ Revoke

RevocationSpec == RevocationInit /\ [][RevocationNext]_revocationVars
=============================================================================
