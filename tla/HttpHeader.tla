------------------------------- MODULE HttpHeader -------------------------------
(***************************************************************************)
(* HttpResponseHeader::analysis (page.h): what the code reads out of the   *)
(* header of a response, and what HTTP says of the body behind it.         *)
(*                                                                         *)
(* A header is a sequence of lines behind the status line.  A line has a   *)
(* key, a gap (the colon with a space, "spaced", the colon alone, "tight", *)
(* or no colon with anything behind it, "none") and a value, a text.  Keys *)
(* and values are in lower case, as the code makes them.  The type, the    *)
(* charset and the encoding, which pages only carry along, are left out.   *)
(***************************************************************************)
EXTENDS Utility

CONSTANTS
    UintMax,        \* the largest uint32_t
    Responses       \* for each kind of response its header and what comes behind it

ASSUME UintMaxType == UintMax \in Nat
ASSUME LinesType ==
    \A k \in DOMAIN Responses :
        Responses[k].lines \in
            Seq([key : STRING, gap : {"spaced", "tight", "none"}, value : Seq(STRING)])

\* A length goes from a uint32_t into an int32_t; -1 stands for chunks.
Chunks == -1
Signed(n) == IF n > UintMax \div 2 THEN n - UintMax - 1 ELSE n

\* The constructor.
Fresh == [valid |-> TRUE, endless |-> FALSE, length |-> Chunks, keep |-> TRUE]

\* The value starts two characters behind the key.
Value(line) == IF line.gap = "tight" THEN Tail(line.value) ELSE line.value

ContentLength(h, value) ==
    LET n == Str2Integer(value, UintMax) IN
    IF n = NoNumber THEN h ELSE [h EXCEPT !.length = Signed(n)]

\* Mutant: the length of an earlier line stays.
TransferEncodingKeeping(h, value) ==
    IF value = <<"chunked">> THEN h ELSE [h EXCEPT !.valid = FALSE]

TransferEncoding(h, value) ==
    IF value = <<"chunked">> THEN [h EXCEPT !.length = Chunks] ELSE [h EXCEPT !.valid = FALSE]

Connection(h, value) == IF value = <<"close">> THEN [h EXCEPT !.keep = FALSE] ELSE h

\* One turn of the loop over the lines.  It does not get past a line without a value,
\* and returns at a transfer-coding it does not know.
ReadLine(h, line) ==
    IF ~h.valid \/ h.endless THEN h
    ELSE IF line.gap = "none" THEN [h EXCEPT !.endless = TRUE]
    ELSE CASE line.key = "content-length"    -> ContentLength(h, Value(line))
           [] line.key = "transfer-encoding" -> TransferEncoding(h, Value(line))
           [] line.key = "connection"        -> Connection(h, Value(line))
           [] OTHER                          -> h

\* A status line alone, or one that is not of HTTP/1.x, is rejected.
Analysis(r) ==
    LET read[n \in 0..Len(r.lines)] ==
            IF n = 0 THEN Fresh ELSE ReadLine(read[n - 1], r.lines[n])
    IN  IF ~r.http \/ r.lines = <<>> THEN [Fresh EXCEPT !.valid = FALSE]
        ELSE read[Len(r.lines)]
Analysed == [k \in DOMAIN Responses |-> Analysis(Responses[k])]

-------------------------------------------------------------------------------
(* What RFC 2616, section 4.4, says of the length of the body. *)

Values(r, key) == {r.lines[n].value : n \in {i \in DOMAIN r.lines : r.lines[i].key = key}}
Unsized == -2
Framing(r) ==
    IF Values(r, "transfer-encoding") # {} THEN Chunks
    ELSE IF Values(r, "content-length") # {}
    THEN NumberOf(CHOOSE v \in Values(r, "content-length") : TRUE)
    ELSE Unsized

\* The header is written as most servers do: in every line a space behind the colon
\* and a value behind that, one length that is a number and fits an int32_t, or chunks,
\* and in this order when both are there.
Usual(r) ==
    /\ \A n \in DOMAIN r.lines : r.lines[n].gap = "spaced"
    /\ \A v, w \in Values(r, "content-length") : v = w /\ IsNumber(v)
    /\ Framing(r) # Unsized /\ Framing(r) <= UintMax \div 2
    /\ \A i, j \in DOMAIN r.lines :
          r.lines[i].key = "transfer-encoding" /\ r.lines[j].key = "content-length" => j < i
===============================================================================
