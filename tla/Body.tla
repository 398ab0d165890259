---------------------------------- MODULE Body ----------------------------------
(***************************************************************************)
(* How the downloader reads the body of a response (downloader_task.cc),   *)
(* and how a server writes it.  A text is a sequence of bytes; letters are *)
(* in lower case, since the code reads both cases alike.                   *)
(***************************************************************************)
EXTENDS HttpHeader

EndOfLine == <<"\r", "\n">>
ASSUME BytesAreStrings == EndOfLine \in Seq(STRING) /\ <<"0">> \in Seq(STRING)
HexDigits == <<"0", "1", "2", "3", "4", "5", "6", "7", "8", "9",
               "a", "b", "c", "d", "e", "f">>
IsHex(c) == c \in Range(HexDigits)
HexDigit(c) == (CHOOSE i \in 1..16 : HexDigits[i] = c) - 1

\* What recv_chunk_size makes of a text: what is no digit is skipped.
HexNumber(text) ==
    LET number[n \in 0..Len(text)] ==
            IF n = 0 THEN 0
            ELSE IF ~IsHex(text[n]) THEN number[n - 1]
            ELSE (16 * number[n - 1] + HexDigit(text[n])) % (UintMax + 1)
    IN  number[Len(text)]

\* Where lines and headers end, behind a place in the text.
LineEnds(text, from) ==
    {i \in (from + 1)..Len(text) : SubSeq(text, i - 1, i) = EndOfLine}
HeaderEnds(text) ==
    {i \in 4..Len(text) : SubSeq(text, i - 3, i) = EndOfLine \o EndOfLine}
Behind(text, i) == SubSeq(text, i + 1, Len(text))

\* The connection ends, or times out, before the code has what it waits for.
Broken == [ok |-> FALSE, content |-> <<>>, rest |-> <<>>]

\* is_hex_digit holds for every letter.
SizeCharacters == Range(HexDigits) \cup {" ", "x", "y", "z"}

\* recv_chunk_size: the size, and what is left behind the line it is on.
RecvChunkSize(text) ==
    LET stops == {i \in DOMAIN text : text[i] \notin SizeCharacters}
    IN  IF stops = {} \/ LineEnds(text, Min(stops)) = {} THEN Broken
        ELSE [ok |-> TRUE, content |-> SubSeq(text, 1, Min(stops) - 1),
              rest |-> Behind(text, Min(LineEnds(text, Min(stops))))]

\* recv_and_discard: one line.
RecvAndDiscard(text) ==
    IF LineEnds(text, 1) = {} THEN Broken
    ELSE [ok |-> TRUE, content |-> <<>>, rest |-> Behind(text, Min(LineEnds(text, 1)))]

\* recvn: n bytes, which are at least one.
Recvn(text, n) ==
    IF n = 0 \/ Len(text) < n THEN Broken
    ELSE [ok |-> TRUE, content |-> SubSeq(text, 1, n), rest |-> Behind(text, n)]

\* Mutant: the end of the line behind a chunk is not read with it.
RecvChunkBare(line) == Recvn(line.rest, HexNumber(line.content))

\* A chunk and the end of the line behind it, which is not looked at.
RecvChunk(line) == Recvn(line.rest, HexNumber(line.content) + 2)

\* recv_by_chunk: chunks up to one of length 0, and then one more line.
RecvByChunk[text \in Seq(STRING)] ==
    LET line == RecvChunkSize(text)
        size == HexNumber(line.content)
        chunk == RecvChunk(line)
        later == RecvByChunk[chunk.rest]
    IN  IF ~line.ok THEN Broken
        ELSE IF size = 0 THEN RecvAndDiscard(line.rest)
        ELSE IF ~chunk.ok \/ ~later.ok THEN Broken
        ELSE [later EXCEPT !.content = SubSeq(chunk.content, 1, size) \o @]

\* recv_http_response_body, of a response with the status 200.
Recv(text, length) ==
    IF length = Chunks THEN RecvByChunk[text]
    ELSE IF length > 0 THEN Recvn(text, length) ELSE Broken

-------------------------------------------------------------------------------
(* What servers send: RFC 2616, section 3.6.1.                               *)

Entity(r) ==
    LET data[n \in 1..(Len(r.chunks) + 1)] ==
            IF n > Len(r.chunks) THEN <<>> ELSE r.chunks[n].data \o data[n + 1]
    IN  data[1]
ChunkCoded(r) ==
    LET coded[n \in 1..(Len(r.chunks) + 1)] ==
            IF n > Len(r.chunks)
            THEN <<"0">> \o EndOfLine \o r.trailer \o EndOfLine
            ELSE r.chunks[n].size \o r.chunks[n].extension \o EndOfLine
                   \o r.chunks[n].data \o EndOfLine \o coded[n + 1]
    IN  coded[1]
Sent ==
    [k \in DOMAIN Responses |->
        IF Framing(Responses[k]) = Chunks THEN ChunkCoded(Responses[k])
        ELSE Entity(Responses[k])]

ASSUME BodiesType ==
    \A k \in DOMAIN Responses :
        /\ Responses[k].chunks \in
               Seq([size : Seq(STRING), extension : Seq(STRING), data : Seq(STRING)])
        /\ Responses[k].trailer \in Seq(STRING)

\* A size is written in digits.  An extension begins with a semicolon, perhaps behind
\* spaces, and does not end the line.
ASSUME ChunksAreSized ==
    \A k \in DOMAIN Responses : \A n \in DOMAIN Responses[k].chunks :
        LET chunk == Responses[k].chunks[n]
            extension == chunk.extension
        IN  /\ \A i \in DOMAIN chunk.size : IsHex(chunk.size[i])
            /\ extension # <<>> =>
                   \E i \in DOMAIN extension :
                       extension[i] = ";" /\ \A j \in 1..(i - 1) : extension[j] = " "
            /\ LineEnds(extension, 1) = {}
            /\ chunk.data # <<>> /\ HexNumber(chunk.size) = Len(chunk.data)
ASSUME LengthsAreTrue ==
    \A k \in DOMAIN Responses :
        Usual(Responses[k]) /\ Framing(Responses[k]) # Chunks =>
            Framing(Responses[k]) = Len(Entity(Responses[k]))

\* What the code makes of the body of each kind of response.
Received == [k \in DOMAIN Responses |-> Recv(Sent[k], Analysed[k].length)]
Whole == {k \in DOMAIN Responses : Received[k].content = Entity(Responses[k])}
===============================================================================
