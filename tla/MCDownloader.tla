----------------------------- MODULE MCDownloader -----------------------------
(* A downloader with three urls, two of them on the same site. *)
EXTENDS Downloader, TLC

CONSTANTS u1, u2, u3, a, b

MCArrivals == <<u1, u2, u3>>
MCSiteOf == (u1 :> a) @@ (u2 :> b) @@ (u3 :> a)
OneSite == [u \in Urls |-> a]

Line(key, gap, value) == [key |-> key, gap |-> gap, value |-> value]
Five == Line("content-length", "spaced", <<"5">>)
Chunked == Line("transfer-encoding", "spaced", <<"chunked">>)
Close == Line("connection", "spaced", <<"close">>)
Server == Line("server", "spaced", <<"s">>)

\* Bodies that look like lines, sizes and ends of headers.
Chunk(size, extension, data) == [size |-> size, extension |-> extension, data |-> data]
Blank == <<"a", "\r", "\n", "\r", "\n">>
OfFive == <<Chunk(<<"5">>, <<>>, Blank)>>
OfTwelve == <<Chunk(<<"2">>, <<" ", ";", "x">>, <<"0", "\r">>),
              Chunk(<<"0", "a">>, <<>>, Blank \o <<"1", "\r", "\n", "b", "\r">>)>>

With(lines, chunks) ==
    [lines |-> lines, chunks |-> chunks, trailer |-> <<>>,
     http |-> TRUE, ok |-> TRUE, long |-> FALSE]

\* One response of each kind that the code tells apart.
All == [
    plain   |-> With(<<Server, Five>>, OfFive),
    chunked |-> With(<<Chunked>>, OfTwelve),
    trailer |-> [With(<<Chunked>>, OfFive) EXCEPT !.trailer = <<"x", ":", "y", "\r", "\n">>],
    both    |-> With(<<Five, Chunked, Close>>, OfFive),
    late    |-> With(<<Chunked, Line("content-length", "tight", <<"1", "2">>),
                       Line("connection", "tight", <<"close">>)>>, OfTwelve),
    huge    |-> With(<<Line("content-length", "spaced", <<"7", "0", "0", "0">>)>>, OfFive),
    unsized |-> With(<<Server, Close>>, OfFive),
    empty   |-> With(<<Line("content-length", "spaced", <<"0">>), Close>>, <<>>),
    error   |-> [With(<<Five>>, OfFive) EXCEPT !.ok = FALSE],
    coded   |-> With(<<Line("transfer-encoding", "spaced", <<"gzip">>)>>, OfFive),
    long    |-> [With(<<Five>>, OfFive) EXCEPT !.long = TRUE],
    nocolon |-> With(<<Line("server", "none", <<>>), Five>>, OfFive)]

\* What RequestedPages asks of all responses holds of the usual ones with a length.
ASSUME LengthsAreClean == \A k \in Kinds \cap {"plain", "empty"} : Clean(k)

\* An error page, with an empty line in it, is left unread.
Errors == [plain |-> All.plain, error |-> All.error]
===============================================================================
