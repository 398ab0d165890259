------------------------------- MODULE MCSpider -------------------------------
(* Two threads per stage but one scheduler.  The configuration file has what a *)
(* hand-written one has: comments, spaces, keys the program does not know,     *)
(* lines that are too long (of seeds, and a comment whose rest sets a key),    *)
(* settings that a later one replaces.  Of the seeds, the first two are the    *)
(* same page; two are no urls of HTTP.                                         *)
EXTENDS Crawl, TLC

Http == "http://"
Page == <<Http, "a">>
SamePage == <<Http, "a", ":", "8", "0", "/">>
OtherPort == <<Http, "a", ":", "8", "/">>
OtherScheme == <<"ftp://", "a">>
BadPort == <<Http, "b", ":", "x", "/">>

LineLength == 30
Blanks(n) == [i \in 1..n |-> " "]
MCLines == <<
    <<"#", " ", "SEEDURLS", " ">> \o <<Http, "c">>,
    <<>>,
    <<"INTERVAL", " ", "5">>,
    <<"SEEDURLS", " ">> \o <<Http, "b">>,
    <<" ", "DOWNLOADERS", "\t", " ", "2", " ", "\r">>,
    <<"EXTRACTORS", " ", "2", "x">>,
    <<"SCHEDULERS">>,
    <<"#">> \o Blanks(LineLength - 1) \o <<"DNSERS", " ", "7">>,
    <<"DNSERS", " ", "2", " ", "9">>,
    <<"SEEDURLS", " ", Http, "a", " ", Http, "b">> \o Blanks(LineLength - 7)
      \o <<Http, "c">>,
    <<"FILETYPES", " ", ".html", " ", ".htm", " ", ".jpg", " ", ".jpeg", " ", ".png",
      " ", ".gif", " ", ".css", " ", ".js", " ", ".pdf", " ", ".txt", " ", ".xml", " ",
      ".json", " ", ".ps", " ", ".doc", " ", ".zip", " ", ".gz">>,
    <<"SEEDURLS", "\t">> \o Page \o <<" ">> \o SamePage \o <<" ", " ">> \o OtherScheme
      \o <<" ">> \o BadPort \o <<"\t">> \o OtherPort \o <<" ">>,
    <<"RECV_TIMEOUT", " ", "1", "0">> >>

MCHosts == {<<"a">>, <<"b">>}
MCPorts == {<<>>, <<"8", "0">>, <<"0", "8", "0">>, <<"8">>, <<"8", "0", "8">>}
MCFiles == {<<>>, <<"/">>, <<"/", "d">>, <<"/", "d", ":", "8">>}

\* Any function from urls to words does for a digest.
MCDigest(key) == <<Len(key) \div 2, 7, 2, 1000>>

MCDnsers == {"dnser"} \X {0, 1}
MCSchedulers == {"scheduler"} \X {0}
MCDownloaders == {"downloader"} \X {0, 1}
MCExtractors == {"extractor"} \X {0, 1}

MCUrls == {1, 2, 5}
MCSeeds == <<1, 2, NoUrl, NoUrl, 5>>
KeyOfPage == <<Http, "a", "/">>
MCKeys == {KeyOfPage, OtherPort}
MCKeyOf == 1 :> KeyOfPage @@ 2 :> KeyOfPage @@ 5 :> OtherPort
Route(d, l, x) ==
    [dnser |-> <<"dnser", d>>, scheduler |-> <<"scheduler", 0>>,
     downloader |-> <<"downloader", l>>, extractor |-> <<"extractor", x>>]
MCShuffle == KeyOfPage :> Route(0, 0, 0) @@ OtherPort :> Route(1, 1, 1)
===============================================================================
