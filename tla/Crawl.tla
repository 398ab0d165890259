--------------------------------- MODULE Crawl ---------------------------------
(***************************************************************************)
(* The program from its configuration file to the saved pages: Startup     *)
(* reads the file, Spider runs the threads and moves the urls.             *)
(***************************************************************************)
EXTENDS Spider, Startup

CONSTANT FileMax    \* the length of the files of which StartsAsAsked speaks
ASSUME FileMaxType == FileMax \in Nat

\* Global::init and parse_config: in a file of any of these lines, in any order, each key
\* gets what its last line says, all its values and none of another, or keeps what was
\* set before: no comment, unknown key, bad line or earlier setting hides or changes it.
\* Excepted are the keys that a line longer than the buffer is about: the rest of such
\* a line is read as a line of its own (global.cc:196), so that seeds behind the cut
\* are lost.  When the first seed is dealt the constants of Spider are what the user's
\* own file asks for; what is no url of HTTP is skipped and takes nothing with it, two
\* ways to write a url have one key, and a key goes to the threads that its MD5 picks.
StartsAsAsked ==
    dealt = 0 =>
        /\ \A lines \in SeqOf(ToSet(Lines), FileMax) \cup {Lines} : \A key \in DOMAIN Defaults :
              IsCut(lines, key) \/ ConfiguredBy(lines)[key] = Asked(lines, key)
        /\ \A stage \in Stages : ThreadsOf(stage) = ThreadsConfigured(stage)
        /\ Seeds = SeedsRead
        /\ Urls = SeedObjects /\ Keys = KeysRead
        /\ \A u, v \in Urls : KeyOf[u] = KeyOf[v] <=> KeyRead[u] = KeyRead[v]
        /\ Shuffle = Routes

\* get_md5: when the seeds are dealt, two urls have the same canonical text, and with
\* it the same MD5, threads and place in the caches, if and only if they name the same
\* resource: the port left out or written, with zeros before it, the file left out, a
\* colon behind the host or inside the file.  Hosts are in lower case and there is no
\* fragment, both of which url.cc leaves as they are; no port is 0, which url.cc:180
\* leaves out of the text as it does 80, so that port 0 has the key of port 80.
KeysAreResources ==
    dealt = 0 => \A p, q \in Named : p[1] = q[1] <=> p[2] = q[2]
===============================================================================
