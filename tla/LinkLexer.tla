------------------------------ MODULE LinkLexer -------------------------------
(***************************************************************************)
(* LinkLexer (link_lexer.l) of one extractor: the flex scanner that finds  *)
(* links in page after page, with its stack of start conditions, and       *)
(* save_link, which has UriLexer take each link apart and resolve it.      *)
(*                                                                         *)
(* A page is a sequence of marks and texts: what a rule reacts to, and the *)
(* text between.  A, AREA and LINK are "A", FRAME, IFRAME and IMG are      *)
(* "FRAME".  No rule enters BASE, so _base_flag is never set.  Nobody      *)
(* reads what META stores.                                                 *)
(***************************************************************************)
EXTENDS UriLexer

CONSTANTS
    Links,      \* the texts that may be links: sequences of parts
    Addresses,  \* what the urls of pages may have: a port, a query, a fragment
    MaxTokens,  \* bound on the length of a page
    MaxPages    \* bound on the number of pages

ASSUME LinksType == Links \subseteq Seq(STRING)
ASSUME AddressesType ==
    Addresses \subseteq [port : STRING, query : STRING, fragment : STRING]
ASSUME MaxTokensType == MaxTokens \in Nat
ASSUME MaxPagesType == MaxPages \in Nat

VARIABLES
    cond,       \* YY_START
    stack,      \* the stack of start conditions
    attr,       \* _cur_attr
    buf,        \* _tmp_buf
    put,        \* characters put back by entities
    base,       \* _base_uri
    uris,       \* what was pushed into _uris, with the link it was made of
    missed,     \* links for which save_link pushed nothing
    pages, read,    \* pages begun, and tokens read of the last
    lexing, eof     \* inside yylex(); the page is at its end

pageVars == <<cond, stack, attr, buf, put>>
inputVars == <<pages, read, lexing, eof>>
linkVars == <<base, uris, missed>>
lexerVars == <<uriVars, pageVars, inputVars, linkVars>>

Tags == {"A", "FRAME", "META"}
Quoted == {"DQUOTED", "SQUOTED", "UQUOTED"}

LexerInit ==
    /\ UriInit
    /\ cond = "INITIAL" /\ stack = <<>>
    /\ attr = None /\ buf = <<>> /\ put = 0
    /\ base = NoUri /\ uris = <<>> /\ missed = {}
    /\ pages = 0 /\ read = 0
    /\ lexing = FALSE /\ eof = FALSE

\* generate_uri: the page's url taken apart; a port of 80 is None.
PageUri(a) ==
    [NoUri EXCEPT !.scheme = "http:", !.authority = "server", !.host = "site",
                  !.port = a.port, !.path = <<"/file">>, !.query = a.query,
                  !.fragment = a.fragment]

\* init and lex: BEGIN INITIAL does not touch the stack.
StartPage ==
    /\ ~lexing /\ pages < MaxPages
    /\ pages' = pages + 1 /\ read' = 0 /\ lexing' = TRUE /\ eof' = FALSE
    /\ cond' = "INITIAL" /\ attr' = None /\ buf' = <<>>
    /\ \E a \in Addresses : base' = PageUri(a)
    /\ uris' = <<>> /\ missed' = {}
    /\ UNCHANGED <<stack, put, uriVars>>

EndOfPage ==
    /\ lexing /\ ~eof /\ eof' = TRUE
    /\ UNCHANGED <<pages, read, lexing, pageVars, linkVars, uriVars>>

-------------------------------------------------------------------------------
(* The rules. *)

\* The scanner is not inside save_link and has no character put back.
Scanning == lexing /\ ucond = "idle" /\ put = 0

\* The next token of the page is read.
Reads ==
    /\ Scanning /\ ~eof /\ read < MaxTokens
    /\ read' = read + 1
    /\ UNCHANGED <<pages, lexing, eof>>

Enter(c) == cond' = c /\ stack' = Append(stack, cond)
Leave(n) ==
    /\ cond' = stack[Len(stack) + 1 - n]
    /\ stack' = SubSeq(stack, 1, Len(stack) - n)
Become(c) == cond' = c /\ UNCHANGED stack

OpenComment ==
    /\ Reads /\ cond = "INITIAL" /\ Become("COMMENT")
    /\ UNCHANGED <<attr, buf, put, linkVars, uriVars>>

CloseComment ==
    /\ Reads /\ cond = "COMMENT" /\ Become("INITIAL")
    /\ UNCHANGED <<attr, buf, put, linkVars, uriVars>>

OpenTag(tag) ==
    /\ Reads /\ cond = "INITIAL" /\ Enter(tag)
    /\ UNCHANGED <<attr, buf, put, linkVars, uriVars>>

CloseTag ==
    /\ Reads /\ cond \in Tags \cup {"SCRIPT"} /\ Leave(1)
    /\ UNCHANGED <<attr, buf, put, linkVars, uriVars>>

\* The attribute that the tag has a use for.
Wanted(tag, a) ==
    \/ tag = "A" /\ a = "href"
    \/ tag = "FRAME" /\ a = "src"
    \/ tag = "META" /\ (a = "http-equiv" \/ (a = "content" /\ attr = "http-equiv"))

Attribute(a) ==
    /\ Reads /\ cond \in Tags
    /\ IF Wanted(cond, a) THEN attr' = a /\ Enter("VALUE")
                          ELSE attr' = None /\ Enter("IGNORE_VALUE")
    /\ UNCHANGED <<buf, put, linkVars, uriVars>>

\* An ignored value is read with the character behind it.  When that is the end
\* of the tag, BEGIN INITIAL leaves two conditions on the stack.
IgnoreValue(behind) ==
    /\ Reads /\ cond = "IGNORE_VALUE"
    /\ IF behind = ">" THEN Become("INITIAL") ELSE Leave(1)
    /\ UNCHANGED <<attr, buf, put, linkVars, uriVars>>

\* The first character of an unquoted value is put back and read again.
OpenQuote ==
    /\ Reads /\ cond = "VALUE" /\ buf' = <<>>
    /\ Enter("DQUOTED") \/ Enter("SQUOTED")
    /\ UNCHANGED <<attr, put, linkVars, uriVars>>

OpenUnquoted ==
    /\ Scanning /\ ~eof /\ read < MaxTokens
    /\ cond = "VALUE" /\ buf' = <<>>
    /\ Enter("UQUOTED")
    /\ UNCHANGED <<attr, put, inputVars, linkVars, uriVars>>

Text(l) ==
    /\ Reads /\ cond \in Quoted /\ buf = <<>>
    /\ buf' = l
    /\ UNCHANGED <<cond, stack, attr, put, linkVars, uriVars>>

\* Tokens that the condition has no rule for but "."
Passed ==
    /\ Reads
    /\ UNCHANGED <<pageVars, linkVars, uriVars>>

\* Mutant: only one condition is pushed for several characters.
EntityOnce(n) ==
    /\ Reads /\ cond \in Quoted
    /\ put' = n
    /\ cond' = "ENTITY" /\ stack' = Append(stack, cond)
    /\ UNCHANGED <<attr, buf, linkVars, uriVars>>

\* A named entity or a number of n bytes: each byte is put back and ENTITY pushed,
\* so that a quote, a blank or ">" from an entity does not end the value.
Entity(n) ==
    /\ Reads /\ cond \in Quoted
    /\ put' = n
    /\ cond' = "ENTITY" /\ stack' = stack \o <<cond>> \o [i \in 1..(n - 1) |-> "ENTITY"]
    /\ UNCHANGED <<attr, buf, linkVars, uriVars>>

\* The character becomes part of the text.  In another condition than ENTITY it
\* might be a quote or a blank that ends the value.
EntityCharacter ==
    /\ lexing /\ put > 0 /\ cond = "ENTITY"
    /\ put' = put - 1
    /\ Leave(1)
    /\ UNCHANGED <<attr, buf, inputVars, linkVars, uriVars>>

\* A quoted value ends with its quote, another one with a blank or the tag's end.
CloseValue(behind) ==
    /\ Reads /\ cond \in Quoted
    /\ behind = ">" => cond = "UQUOTED"
    /\ IF attr \in {"href", "src"} THEN StartUri(buf) ELSE UNCHANGED uriVars
    /\ buf' = <<>>
    /\ Leave(IF behind = ">" THEN 3 ELSE 2)
    /\ UNCHANGED <<attr, put, linkVars>>

\* Mutant: a comment has no rule for the end.
AtEndOfCommentToo ==
    /\ Scanning /\ eof
    /\ \/ cond = "INITIAL" /\ lexing' = FALSE /\ UNCHANGED <<cond, stack>>
       \/ cond \notin {"INITIAL", "COMMENT"} /\ Leave(1) /\ UNCHANGED lexing
    /\ UNCHANGED <<attr, buf, put, pages, read, eof, linkVars, uriVars>>

\* The rules for <<EOF>>: each leads one condition back, the last one returns.
AtEnd ==
    /\ Scanning /\ eof
    /\ \/ cond = "INITIAL" /\ lexing' = FALSE /\ UNCHANGED <<cond, stack>>
       \/ cond = "COMMENT" /\ Become("INITIAL") /\ UNCHANGED lexing
       \/ cond \notin {"INITIAL", "COMMENT"} /\ Leave(1) /\ UNCHANGED lexing
    /\ UNCHANGED <<attr, buf, put, pages, read, eof, linkVars, uriVars>>

-------------------------------------------------------------------------------
(* save_link, from the call of UriLexer::lex on. *)

Http == uri.scheme \in {None, "http:"}

LexLink == Lex /\ UNCHANGED <<pageVars, inputVars, linkVars>>

SaveLink ==
    /\ ucond = "ACCEPT" /\ ucond' = "idle"
    /\ IF Lexed /\ Http /\ Mergeable
       THEN uris' = Append(uris, [link |-> link, uri |-> Merged(base)]) /\ UNCHANGED missed
       ELSE missed' = missed \cup {link} /\ UNCHANGED uris
    /\ UNCHANGED <<base, ustack, link, rest, uri, pageVars, inputVars>>

-------------------------------------------------------------------------------

Input ==
    \/ StartPage \/ EndOfPage
    \/ OpenComment \/ CloseComment \/ CloseTag \/ OpenQuote \/ OpenUnquoted \/ Passed
    \/ \E tag \in Tags \cup {"SCRIPT"} : OpenTag(tag)
    \/ \E a \in {"href", "src", "http-equiv", "content", "class"} : Attribute(a)
    \/ \E l \in Links : Text(l)
    \/ \E n \in 1..2 : Entity(n)
    \/ \E behind \in {">", " "} : IgnoreValue(behind) \/ CloseValue(behind)
Work == EntityCharacter \/ AtEnd \/ LexLink \/ SaveLink

LexerNext == Input \/ Work

LexerSpec == LexerInit /\ [][LexerNext]_lexerVars

\* The scanner goes on with what it has; nothing makes a page end.
FairLexerSpec == LexerSpec /\ WF_lexerVars(Work)

-------------------------------------------------------------------------------
(* Properties. *)

\* What a condition needs below it on the stack, and what ignored values left.
Below(c, s) ==
    CASE c = "INITIAL" \/ c = "COMMENT" -> s = <<>>
      [] c \in Tags \cup {"SCRIPT"} -> s = <<"INITIAL">>
      [] c \in {"VALUE", "IGNORE_VALUE"} -> Len(s) = 2 /\ s[1] = "INITIAL" /\ s[2] \in Tags
      [] c \in Quoted -> Len(s) = 3 /\ s[1] = "INITIAL" /\ s[2] \in Tags /\ s[3] = "VALUE"
      [] c = "ENTITY" -> /\ Len(s) = 3 + put /\ s[1] = "INITIAL" /\ s[2] \in Tags
                         /\ s[3] = "VALUE" /\ s[4] \in Quoted
                         /\ \A i \in 5..Len(s) : s[i] = "ENTITY"
Leftover(s) == \A i \in DOMAIN s : s[i] \in IF i % 2 = 1 THEN {"INITIAL"} ELSE Tags

\* Every condition leads back to INITIAL.  Neither scanner ever pops an empty stack,
\* which would end the process; the stack of UriLexer is empty after each link;
\* that of LinkLexer keeps nothing but the pairs of ignored values; characters that
\* entities put back are read as such.
ConditionsLeadBack ==
    /\ \E n \in 0..Len(stack) :
          /\ n % 2 = 0 /\ Leftover(SubSeq(stack, 1, n))
          /\ Below(cond, SubSeq(stack, n + 1, Len(stack)))
    /\ put > 0 <=> cond = "ENTITY"
    /\ ucond \in {"idle", "SCHEME", "QUERY", "FRAGMENT", "ACCEPT"} => ustack = <<>>

\* A reference as RFC 2396 writes it: its parts in their order, a user and a port only
\* where they belong, one text at the front of a relative path, and behind a scheme
\* something that is no fragment.
UriParts == Schemes \cup {"//", "user@", "name", ":80", "_x", "/dir", "?q", "#f"}
Order(p) ==
    CASE p \in Schemes -> 1 [] p = "//" -> 2 [] p = "user@" -> 3 [] p = "name" -> 4
      [] p = ":80" -> 5 [] p = "_x" -> 6 [] p = "/dir" -> 7 [] p = "?q" -> 8 [] p = "#f" -> 9
IsReference(l) ==
    /\ l \in Seq(UriParts)
    /\ \A i, j \in DOMAIN l : i < j => Order(l[i]) < Order(l[j])
    /\ Contains(l, "user@") \/ Contains(l, ":80") => Contains(l, "//")
    /\ Contains(l, ":80") => Contains(l, "name")
    /\ Contains(l, "name") /\ Contains(l, "_x") => Contains(l, "//")
    /\ \A i \in DOMAIN l : l[i] \in Schemes => i < Len(l) /\ l[i + 1] # "#f"

\* What RFC 2396 makes of a link on the page.
Of(l, parts) ==
    IF \E i \in DOMAIN l : l[i] \in parts
    THEN l[CHOOSE i \in DOMAIN l : l[i] \in parts] ELSE None
HasAuthority(l) == Of(l, {"//"}) # None
IfHas(l, p) == IF Of(l, {p}) = None THEN <<>> ELSE <<p>>
PathOf(l) ==
    (IF HasAuthority(l) THEN <<>> ELSE IfHas(l, "name") \o IfHas(l, "_x")) \o IfHas(l, "/dir")
HasScheme(l) == Of(l, Schemes) # None
PageItself(l) ==
    ~HasScheme(l) /\ ~HasAuthority(l) /\ PathOf(l) = <<>> /\ Of(l, {"?q"}) = None
Resolved(l, page) ==
    LET absolute == HasScheme(l) \/ HasAuthority(l)
        from == IF absolute
                THEN [NoUri EXCEPT !.authority = IF HasAuthority(l) THEN "server" ELSE None,
                                   !.userinfo = Of(l, {"user@"}), !.host = Of(l, {"name"}),
                                   !.port = Of(l, {":80"})]
                ELSE page
    IN  [from EXCEPT !.scheme = IF HasScheme(l) THEN Of(l, Schemes) ELSE page.scheme,
                     !.path = IF PathOf(l) = <<>> /\ ~absolute THEN page.path ELSE PathOf(l),
                     !.query = IF PageItself(l) THEN page.query ELSE Of(l, {"?q"}),
                     !.fragment = Of(l, {"#f"})]

\* What uri_merge makes of these is another document than RFC 2396 says: a link to a
\* host without a path gets the path of the page, the name of a host with characters
\* of a reg_name is lost, a link with a scheme and no host gets the host of the page
\* (uri_lexer.l:521, where the comment above says "If the relative URI has a scheme or
\* an authority, take it's authority"), and a link into the page itself loses the
\* query of the page.
LedAstray(l, page) ==
    \/ HasAuthority(l) /\ (PathOf(l) = <<>> \/ Of(l, {"_x"}) # None)
    \/ HasScheme(l) /\ ~HasAuthority(l)
    \/ PageItself(l) /\ page.query # None

\* Not a link of the web, or one that is relative, or has nothing but a query, or
\* nothing at all.
NotFollowed(l) ==
    \/ Of(l, Schemes) \notin {None, "http:"}
    \/ PathOf(l) # <<>> /\ Head(PathOf(l)) # "/dir"
    \/ PathOf(l) = <<>> /\ ~HasAuthority(l) /\ (Of(l, {"?q"}) # None \/ Of(l, {"#f"}) = None)

\* Links are resolved as RFC 2396 says, on pages with a port or a query in their url as
\* well, and none is missed, but for the kinds above.
LinksAreRight ==
    /\ \A i \in DOMAIN uris :
          LedAstray(uris[i].link, base) \/ uris[i].uri = Resolved(uris[i].link, base)
    /\ \A l \in missed : NotFollowed(l)

\* The end of the page is the end of the lexing, whatever was left open.
PagesEnd == eof ~> ~lexing

\* What is left of a page that is at its end: the conditions to leave, and the rules
\* that UriLexer has for the rest of a link.
UriRulesLeft(c) ==
    CASE c = "SCHEME" -> 11 [] c = "REL_PATH" -> 10 [] c = "AUTHORITY" -> 9
      [] c = "USERINFO" -> 8 [] c = "HOST" -> 7 [] c = "PORT" -> 6 [] c = "REG_NAME" -> 5
      [] c = "ABS_PATH" -> 4 [] c \in {"QUERY", "OPAQUE_PART"} -> 3 [] c = "FRAGMENT" -> 2
      [] c = "ACCEPT" -> 1 [] c = "idle" -> 0
LeftAtEnd ==
    UriRulesLeft(ucond) + 2 * Len(stack) + (IF cond = "COMMENT" THEN 1 ELSE 0)
      + (IF lexing THEN 1 ELSE 0)

\* From the end of a page on each step takes the scanner one further: none pushes a
\* condition that another has popped, and none reads on.  PagesEnd rests on it.
EndComesCloser == [][lexing /\ eof => LeftAtEnd' \in 0..(LeftAtEnd - 1)]_lexerVars
===============================================================================
