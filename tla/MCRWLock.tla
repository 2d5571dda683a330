------------------------------ MODULE MCRWLock ------------------------------
(* RWLock for TLC: query q1 locks, locks again inside the first holder and *)
(* once more from another thread; the others are one client each.          *)
EXTENDS RWLock, TLC

CONSTANTS a, b, s, c, d, q1, q2

MCClients == {a, b, s, c, d}
MCQueryOf == a :> q1 @@ b :> q1 @@ s :> q1 @@ c :> NoQuery @@ d :> q2
MCOuter == a :> a @@ b :> a @@ s :> s @@ c :> c @@ d :> d
=============================================================================
