--------------------------------- MODULE Stage ---------------------------------
(***************************************************************************)
(* What a stage of the pipeline promises of the urls given to it: it takes *)
(* each once, and either passes it on once or gives it up, alone or with   *)
(* others that wait for the same answer; what has left it stays away.      *)
(* Dnser, Downloader and Extractor implement it, and so does Spider, which *)
(* is made of such stages.                                                 *)
(***************************************************************************)
CONSTANT Urls

VARIABLE place      \* where each url is, as the stage sees it

Places == {"coming", "held", "passed", "lost"}

Init == place \in [Urls -> {"coming", "held"}]

\* The steps from one assignment of places to the next.
Takes(u, now, then) ==
    /\ now[u] = "coming"
    /\ then = [now EXCEPT ![u] = "held"]

Passes(u, now, then) ==
    /\ now[u] = "held"
    /\ then = [now EXCEPT ![u] = "passed"]

Loses(us, now, then) ==
    /\ \A u \in us : now[u] = "held"
    /\ then = [u \in Urls |-> IF u \in us THEN "lost" ELSE now[u]]

Next ==
    \E now \in {place}, then \in {place'} :
        \/ \E u \in Urls : Takes(u, now, then) \/ Passes(u, now, then)
        \/ \E us \in SUBSET Urls : Loses(us, now, then)

Spec == Init /\ [][Next]_place
===============================================================================
