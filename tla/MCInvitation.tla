---------------------------- MODULE MCInvitation ----------------------------
(* An instance of the invitations for the violated run.                    *)
EXTENDS Invitation, TLC

CONSTANTS a1, a2, i1, i2, i3, n1, n2, n3

\* One address is invited twice, the other once.
MCAddressOf == i1 :> a1 @@ i2 :> a1 @@ i3 :> a2
MCLinkOf == n1 :> i1 @@ n2 :> i2 @@ n3 :> i3
=============================================================================
