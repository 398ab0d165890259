------------------------------ MODULE MCExtractor ------------------------------
(* Extractors on a directory tree of a few sites. *)
EXTENDS Extractor, TLC

CONSTANTS e1, e2, e3, e4, s, t, u, v, w,
          p1, p2, p3, p4, p5, p6, p7, p8, p9, q1, q2, r1, r2, r3, r4

Page(encoding, data, size, site, file, names) ==
    [encoding |-> encoding, data |-> data, size |-> size, site |-> site, file |-> file,
     path |-> <<site>> \o names]

Index == <<"index.html">>
a == <<"a">>
b == <<"b">>
c == <<"c">>
A == <<"/", "a">>
B == <<"/", "b">>
C == <<"/", "c">>

\* One page of every kind.  p1 and p2 come to the same path one after the other,
\* p8 would need the file of p7 as its directory, p7 a directory as its file.
\* The extractors e1 and e2 have a site each and share a path of a third one.
\* Each extractor ends with a page that it does not come back from.
All ==
    (p1 :> Page("txt", "whole", 3, s, <<"/">>, <<Index>>))
    @@ (p2 :> Page("gzip", "whole", 2, s, <<"/", "index.html">>, <<Index>>))
    @@ (p3 :> Page("deflate", "whole", 1, s, C \o B, <<c, b>>))
    @@ (p4 :> Page("unknown", "whole", 1, s, B, <<b>>))
    @@ (q1 :> Page("gzip", "other", 1, s, B, <<b>>))
    @@ (q2 :> Page("deflate", "headerless", 2, v, <<"/">> \o A \o <<"/", "/">>, <<a>>))
    @@ (p5 :> Page("deflate", "broken", 2, t, C, <<c>>))
    @@ (p6 :> Page("gzip", "whole", 2, t, B \o C, <<b, c>>))
    @@ (p7 :> Page("gzip", "whole", 1, t, B, <<b>>))
    @@ (p8 :> Page("txt", "whole", 1, t, B \o C \o A \o B, <<b, c, a, b>>))
    @@ (p9 :> Page("txt", "whole", 0, t, A \o <<"/">>, <<a>>))
    @@ (r1 :> Page("txt", "whole", 2, u, A, <<a>>))
    @@ (r2 :> Page("deflate", "cut", 1, s, B, <<b>>))
    @@ (r3 :> Page("txt", "whole", 1, u, A \o <<"/">>, <<a>>))
    @@ (r4 :> Page("txt", "whole", 1, w, <<"/", "/">>, <<>>))
Queues == (e1 :> <<p1, p2, p3, p4, q1, r1, r2>>) @@ (e2 :> <<p5, p6, p7, p8, r3, p9>>)
          @@ (e3 :> <<q2>>) @@ (e4 :> <<r4>>)

\* Two extractors with a page each, on one site.
Two == (p1 :> Page("txt", "whole", 2, s, A, <<a>>)) @@ (p2 :> Page("txt", "whole", 1, s, B, <<b>>))
TwoQueues == (e1 :> <<p1>>) @@ (e2 :> <<p2>>)

AllEncodings == [p \in Pages |-> All[p].encoding]
AllData == [p \in Pages |-> All[p].data]
AllSizes == [p \in Pages |-> All[p].size]
AllSites == [p \in Pages |-> All[p].site]
AllFiles == [p \in Pages |-> All[p].file]
AllPaths == [p \in Pages |-> All[p].path]
TwoEncodings == [p \in Pages |-> Two[p].encoding]
TwoData == [p \in Pages |-> Two[p].data]
TwoSizes == [p \in Pages |-> Two[p].size]
TwoSites == [p \in Pages |-> Two[p].site]
TwoFiles == [p \in Pages |-> Two[p].file]
TwoPaths == [p \in Pages |-> Two[p].path]
===============================================================================
