-------------------------------- MODULE Startup --------------------------------
(***************************************************************************)
(* Global::init: from the configuration to the queues of the threads, and  *)
(* from each seed to a Url and the thread that gets it.  These are the     *)
(* values of the constants of Spider.                                      *)
(***************************************************************************)
EXTENDS Config, Url

CONSTANTS
    Digest(_),      \* the four words of the MD5 of a canonical url
    NoObject        \* a seed of which no Url comes

\* A queue, and later a thread, for each index of a stage.
CountOf == [dnser |-> "DNSERS", scheduler |-> "SCHEDULERS",
             downloader |-> "DOWNLOADERS", extractor |-> "EXTRACTORS"]
ThreadsConfigured(stage) == {stage} \X (0..(Number(CountOf[stage]) - 1))

\* A seed whose Url stays uninitialised has no MD5 and is skipped.
SeedUrls == [n \in DOMAIN Configured.SEEDURLS |-> Parse(Configured.SEEDURLS[n])]
SeedObjects == {n \in DOMAIN SeedUrls : SeedUrls[n] # Uninitialized}
SeedsRead == [n \in DOMAIN SeedUrls |-> IF n \in SeedObjects THEN n ELSE NoObject]

KeysRead == {Canonical(SeedUrls[n]) : n \in SeedObjects}
KeyRead == [n \in SeedObjects |-> Canonical(SeedUrls[n])]

\* The index that shuffle gives, in the queues of each stage.
Routes ==
    [key \in KeysRead |->
        [stage \in DOMAIN CountOf |->
            <<stage, ShuffleIndex(Digest(key), Number(CountOf[stage]))>>]]
===============================================================================
