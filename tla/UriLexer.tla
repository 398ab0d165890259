------------------------------- MODULE UriLexer -------------------------------
(***************************************************************************)
(* UriLexer (uri_lexer.l): a flex scanner with a stack of start conditions *)
(* that takes a link apart, and uri_merge, which resolves it against the   *)
(* address of the page.  The scanner outlives a link, and so does its      *)
(* stack: nothing empties it.                                              *)
(*                                                                         *)
(* A link is a sequence of parts: "http:" and "ftp:" are schemes, "name"   *)
(* is text that a host, a relative path or an opaque part may be, "_x"     *)
(* text that only a reg_name or a path may be.  Parts are what one rule    *)
(* matches; what a rule would match of a part is left out.                 *)
(***************************************************************************)
EXTENDS Naturals, Sequences, SequencesExt

VARIABLES
    ucond,      \* YY_START of the scanner, or "idle"
    ustack,     \* its stack of start conditions
    link,       \* _str
    rest,       \* what is not matched yet
    uri         \* _uri

uriVars == <<ucond, ustack, link, rest, uri>>

None == "none"
Schemes == {"http:", "ftp:"}
NoUri == [scheme |-> None, authority |-> None, userinfo |-> None, host |-> None,
          port |-> None, path |-> <<>>, query |-> None, fragment |-> None]

UriInit ==
    /\ ucond = "idle" /\ ustack = <<>>
    /\ link = <<>> /\ rest = <<>> /\ uri = NoUri

\* init, lex and yylex(content): BEGIN does not touch the stack.
StartUri(l) ==
    /\ ucond' = "SCHEME" /\ link' = l /\ rest' = l /\ uri' = NoUri
    /\ UNCHANGED ustack

-------------------------------------------------------------------------------
(* The rules. *)

Sees(parts) == rest # <<>> /\ Head(rest) \in parts

Push(c) == ucond' = c /\ ustack' = Append(ustack, ucond)
Begin(c) == ucond' = c /\ UNCHANGED ustack

Matched(field, value, n) ==
    /\ uri' = [uri EXCEPT ![field] = value]
    /\ rest' = SubSeq(rest, n + 1, Len(rest))
Unmatched == UNCHANGED <<rest, uri>>

\* A condition that takes one part if it is there, and goes on.
Part(c, parts, field, found, missing) ==
    /\ ucond = c
    /\ \/ Sees(parts) /\ Matched(field, Head(rest), 1) /\ Begin(found)
       \/ ~Sees(parts) /\ Unmatched /\ Begin(missing)
    /\ UNCHANGED link

\* The colon must be followed by a slash or another character of a uri.
Scheme ==
    /\ ucond = "SCHEME"
    /\ IF Sees(Schemes) /\ Len(rest) > 1 /\ rest[2] # "#f"
       THEN Matched("scheme", Head(rest), 1) /\ Push("AUTHORITY")
       ELSE Unmatched /\ Begin("REL_PATH")
    /\ UNCHANGED link

RelPath ==
    /\ ucond = "REL_PATH"
    /\ IF Sees({"name", "_x"})
       THEN LET n == IF Len(rest) > 1 /\ rest[2] = "/dir" THEN 2 ELSE 1 IN
            Matched("path", SubSeq(rest, 1, n), n) /\ Begin("QUERY")
       ELSE Unmatched /\ Push("AUTHORITY")
    /\ UNCHANGED link

\* Mutant: yy_pop_state is forgotten before BEGIN.
AuthorityKeeping ==
    /\ ucond = "AUTHORITY"
    /\ IF Sees({"//"})
       THEN Matched("authority", "server", 1) /\ Begin("USERINFO")
       ELSE Unmatched /\ Push("ABS_PATH")
    /\ UNCHANGED link

Authority ==
    /\ ucond = "AUTHORITY"
    /\ IF Sees({"//"})
       THEN /\ Matched("authority", "server", 1)
            /\ ucond' = "USERINFO" /\ ustack' = Front(ustack)
       ELSE Unmatched /\ Push("ABS_PATH")
    /\ UNCHANGED link

UserInfo == Part("USERINFO", {"user@"}, "userinfo", "HOST", "HOST")
Host == Part("HOST", {"name"}, "host", "PORT", "REG_NAME")
Port == Part("PORT", {":80"}, "port", "REG_NAME", "REG_NAME")

\* The parts of the server and this one are to be joined, but the copies are made
\* over each other and ended at the front: no name is left.
RegName ==
    /\ ucond = "REG_NAME"
    /\ IF Sees({"_x", "name"})
       THEN /\ uri' = [uri EXCEPT !.authority = "reg_name", !.userinfo = None,
                                  !.host = None, !.port = None]
            /\ rest' = Tail(rest)
       ELSE Unmatched
    /\ Push("ABS_PATH")
    /\ UNCHANGED link

\* Pops once, and once more when there was no authority.
AbsPath ==
    /\ ucond = "ABS_PATH"
    /\ LET bare == Last(ustack) = "AUTHORITY"
           left == IF bare THEN Front(ustack) ELSE ustack
           from == Last(left)
       IN  /\ ustack' = Front(left)
           /\ IF Sees({"/dir"})
              THEN Matched("path", <<Head(rest)>>, 1) /\ ucond' = "QUERY"
              ELSE /\ Unmatched
                   /\ ucond' = CASE ~bare -> "QUERY"
                                 [] bare /\ from = "SCHEME" -> "OPAQUE_PART"
                                 [] bare /\ from # "SCHEME" -> "FRAGMENT"
    /\ UNCHANGED link

\* Everything to the fragment.
OpaquePart ==
    /\ ucond = "OPAQUE_PART"
    /\ \E n \in 0..Len(rest) :
          /\ \A i \in 1..n : rest[i] # "#f"
          /\ n < Len(rest) => rest[n + 1] = "#f"
          /\ IF n > 0 /\ ~Sees({"/dir", "//"}) THEN Matched("path", SubSeq(rest, 1, n), n)
                                               ELSE Unmatched
    /\ Begin("FRAGMENT")
    /\ UNCHANGED link

Query == Part("QUERY", {"?q"}, "query", "FRAGMENT", "FRAGMENT")
Fragment == Part("FRAGMENT", {"#f"}, "fragment", "ACCEPT", "ACCEPT")

Lex == \/ Scheme \/ RelPath \/ Authority \/ UserInfo \/ Host \/ Port \/ RegName
       \/ AbsPath \/ OpaquePart \/ Query \/ Fragment

-------------------------------------------------------------------------------
(* The result. *)

\* lex() is S_OK when _length > 0, and every part that adds to it is in _uri.
Lexed == uri # NoUri

\* A path that does not start with a slash goes to path_merge, and whatever that
\* returns, the loop is left for S_FAIL.
Mergeable == uri.path = <<>> \/ Head(uri.path) = "/dir"

\* Mutant: the authority is the link's only when it has a scheme.
MergedByScheme(base) ==
    LET from == IF uri.scheme # None THEN uri ELSE base IN
    [from EXCEPT !.path = IF uri.path = <<>> THEN base.path ELSE uri.path,
                 !.query = uri.query, !.fragment = uri.fragment]

\* uri_merge, for the address of a page.
Merged(base) ==
    LET from == IF uri.authority # None THEN uri ELSE base IN
    [from EXCEPT !.scheme = IF uri.scheme # None THEN uri.scheme ELSE base.scheme,
                 !.path = IF uri.path = <<>> THEN base.path ELSE uri.path,
                 !.query = uri.query, !.fragment = uri.fragment]
===============================================================================
