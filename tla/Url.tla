---------------------------------- MODULE Url ----------------------------------
(***************************************************************************)
(* The text of a Url (url.cc) and where its MD5 leads (md5.h).  A raw url  *)
(* is a text whose first token is the scheme with its "://".  The MD5 of a *)
(* url stands for the canonical text it is computed from.                  *)
(***************************************************************************)
EXTENDS Utility

CONSTANTS Hosts, Ports, Files   \* the texts that the urls of resources are made of

MaxPort == 65535
DefaultPort == 80
Uninitialized == [site |-> <<>>, port |-> 0, file |-> <<>>]

\* find: the place of the first c, or the end of the text.
Find(text, c) == Min({i \in DOMAIN text : text[i] = c} \cup {Len(text) + 1})

\* Url::Url
Parse(raw) ==
    LET rest == Tail(raw)
        slash == Find(rest, "/")
        colon == Find(rest, ":")
        port == IF colon < slash
                THEN Str2Integer(SubSeq(rest, colon + 1, slash - 1), MaxPort)
                ELSE DefaultPort
    IN  IF Len(raw) < 2 \/ raw[1] # "http://" \/ port = NoNumber
        THEN Uninitialized
        ELSE [site |-> SubSeq(rest, 1, Min({slash, colon}) - 1),
              port |-> port,
              file |-> IF slash > Len(rest) THEN <<"/">>
                                            ELSE SubSeq(rest, slash, Len(rest))]

\* Mutant: two ports of a host are one.
CanonicalWithoutPort(url) == <<"http://">> \o url.site \o url.file

\* What get_md5 computes the MD5 of.
Canonical(url) ==
    <<"http://">> \o url.site
      \o (IF url.port \in {0, DefaultPort} THEN <<>> ELSE <<":">> \o Integer2Str[url.port])
      \o url.file

\* MD5::shuffle of a digest of four words among x threads, at least one.
ShuffleIndex(words, x) ==
    IF x = 1 THEN 0 ELSE FoldLeft(LAMBDA index, w : index + (w % x), 0, words) % x

-------------------------------------------------------------------------------
(* What a url is to name: the forms in which RFC 2396 lets one be written. *)

\* A port may be left out, and be written with zeros before it; a file begins with a
\* slash, or is left out.
ASSUME HostsType ==
    \A host \in Hosts : /\ host \in Seq(STRING) \ {<<>>}
                       /\ \A i \in DOMAIN host : host[i] \notin {"/", ":"}
ASSUME PortsType ==
    \A port \in Ports \ {<<>>} : /\ port \in Seq({Digits[i] : i \in 1..10})
                                 /\ NumberOf(port) \in 1..MaxPort
ASSUME FilesType ==
    \A file \in Files : file \in Seq(STRING) /\ (file # <<>> => Head(file) = "/")

Forms == [host : Hosts, port : Ports, file : Files]
Write(form) ==
    <<"http://">> \o form.host \o (IF form.port = <<>> THEN <<>> ELSE <<":">> \o form.port)
      \o form.file
Resource(form) ==
    [host |-> form.host,
     port |-> IF form.port = <<>> THEN DefaultPort ELSE NumberOf(form.port),
     file |-> IF form.file = <<>> THEN <<"/">> ELSE form.file]

Named == {<<Canonical(Parse(Write(f))), Resource(f)>> : f \in Forms}
===============================================================================
