----------------------------- MODULE MCLinkLexer ------------------------------
(* Links of every form.  A link in a tag takes four or five tokens of a page, *)
(* so six leave room for an entity or an ignored value in front of it.        *)
EXTENDS LinkLexer

Forms ==
    {<<"http:", "//", "name", "/dir">>, <<"http:", "//", "name">>,
     <<"http:", "//", "user@", "name", ":80", "/dir", "?q", "#f">>,
     <<"http:", "//", "name", "?q">>, <<"http:", "//", "name", "_x", "/dir">>,
     <<"http:", "/dir">>, <<"http:", "name", "?q", "#f">>,
     <<"ftp:", "//", "name", "/dir">>, <<"//", "name", "/dir">>,
     <<"/dir">>, <<"/dir", "?q", "#f">>, <<"name">>, <<"name", "/dir", "?q">>,
     <<"_x", "#f">>, <<"?q">>, <<"#f">>, <<>>}

\* A url with nothing but a path, and one with everything.
MCAddresses ==
    {[port |-> None, query |-> None, fragment |-> None],
     [port |-> ":8080", query |-> "?page", fragment |-> "#page"]}

\* Each is a link as RFC 2396 writes it, which LinksStayRight is about.
ASSUME FormsAreReferences == \A l \in Forms : IsReference(l)
===============================================================================
