-------------------------------- MODULE MCDnser --------------------------------
(* Two dnsers that share the cache; one site is split between them, and is an    *)
(* alias of an alias; the other site is now and then one of a ring of aliases. *)
EXTENDS Dnser, TLC

CONSTANTS d1, d2, k1, u1, u2, u3, u4, a, b, c, e, f

MCSeeds == <<u1, u2, u3, u4>>
MCSiteOf == (u1 :> a) @@ (u2 :> a) @@ (u3 :> b) @@ (u4 :> a)
MCHome == (u1 :> d1) @@ (u2 :> d1) @@ (u3 :> d1) @@ (u4 :> d2)
MCTarget == [u \in Urls |-> k1]
MCAliases == (a :> {c}) @@ (b :> {f}) @@ (c :> {e}) @@ (e :> {}) @@ (f :> {b})
MCAnswers == (a :> {{1}, {1, 2}}) @@ (b :> {{3}})
===============================================================================
