----------------------------- MODULE MCSession -----------------------------
(* Two connections of one client and one of another. *)
EXTENDS ServerSession, TLC

CONSTANTS s1, s2, s3, alice, bob

MCConns == {s1, s2, s3}
MCClients == {alice, bob}
MCClientOf == (s1 :> alice) @@ (s2 :> alice) @@ (s3 :> bob)
=============================================================================
