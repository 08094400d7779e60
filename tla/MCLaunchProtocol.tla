-------------------------- MODULE MCLaunchProtocol --------------------------
(* Two clients of one request, each on a machine of its own or on the same. *)
EXTENDS LaunchProtocol, TLC

CONSTANTS c1, c2, m1, m2, noon

Apart    == (c1 :> m1) @@ (c2 :> m2)
Together == (c1 :> m1) @@ (c2 :> m1)
Either   == {Apart, Together}
=============================================================================
