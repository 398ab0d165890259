---------------------------- MODULE ExtractorProofs ----------------------------
(***************************************************************************)
(* Proofs about Extractor, for any extractors and pages of every kind: its *)
(* types, that the buffer of the pool is put back once, that what goes on  *)
(* to save_page is decompressed completely, which pages end the process,   *)
(* that pages are saved, and whole, where no other extractor interferes,   *)
(* that no loop goes on forever, and that extractors are a stage.  At the  *)
(* end the link lexer that every extractor runs: that its start conditions *)
(* lead back, that the end of a page ends it, and that links are resolved  *)
(* as they should be.                                                      *)
(***************************************************************************)
EXTENDS Extractor, LinkLexer, SequenceTheorems, FiniteSetTheorems, WellFoundedInduction, TLAPS

Places == {"pop", "decompress", "inflate", "path", "mkdir", "write", "lex"}
Saving == {"path", "mkdir", "write", "lex"}

\* Between pop and the next page there is one, and decompress_page starts afresh.
HasPage ==
    \A e \in Extractors :
        /\ pc[e] # "pop" => cur[e] \in Pages
        /\ pc[e] = "decompress" => got[e] = 0 /\ reads[e] = 0 /\ ~dummy[e]

\* Every block that inflate gave is counted once, also when decompress_page starts
\* again: data that can be started again has given nothing, or gives nothing more.
Counted ==
    \A e \in Extractors : pc[e] = "inflate" =>
        /\ Encoding[cur[e]] \in {"gzip", "deflate"}
        /\ reads[e] <= Size[cur[e]] /\ got[e] <= Size[cur[e]]
        /\ got[e] = reads[e] \/ (Data[cur[e]] = "broken" /\ dummy[e])
        /\ Data[cur[e]] = "headerless" /\ ~dummy[e] => reads[e] = 0

\* A page that goes on to save_page could be decoded, and is there to its end.
Complete ==
    \A e \in Extractors : pc[e] \in Saving =>
        got[e] = Size[cur[e]] /\ Decodable(cur[e])

LocalTypes ==
    /\ pageq \in [Extractors -> Seq(Pages)]
    /\ pc \in [Extractors -> Places]
    /\ cur \in [Extractors -> Pages \cup {NoPage}]
    /\ got \in [Extractors -> Nat] /\ reads \in [Extractors -> Nat]
    /\ dummy \in [Extractors -> BOOLEAN]
    /\ caches \in [Extractors -> Nat] /\ depth \in [Extractors -> Nat]
    /\ saved \subseteq Pages /\ done \subseteq Pages
    /\ up \in BOOLEAN
Entries == [kind : {"none", "dir", "file"}, data : Seq(Pages \X Nat)]
DiskType == disk \in [Paths -> Entries]

Pagewise == LocalTypes /\ HasPage /\ Counted /\ Complete /\ CacheIsReturned
IInv == Pagewise /\ DiskType

LEMMA TypeIs == TypeOK <=> LocalTypes /\ DiskType
BY DEF TypeOK, LocalTypes, DiskType, Places, Entries

LEMMA InitPagewise == Init => Pagewise
<1> SUFFICES ASSUME Init PROVE Pagewise
  OBVIOUS
<1>1. up \in BOOLEAN
  BY Zenon DEF Init
<1>2. LocalTypes
  BY <1>1, QueuedType DEF Init, LocalTypes, Places
<1>3. HasPage /\ Counted /\ Complete /\ CacheIsReturned
  BY DEF Init, HasPage, Counted, Complete, CacheIsReturned, Saving
<1> QED
  BY <1>2, <1>3 DEF Pagewise

\* What inflate answers, by the data.
LEMMA InflateAnswers ==
    ASSUME NEW p \in Pages, NEW n \in Nat, NEW d \in BOOLEAN
    PROVE  /\ Inflate(p, n, d) = "Z_OK" =>
                 n + 1 <= Size[p] /\ ~(Data[p] = "broken" /\ d) /\ (Data[p] = "headerless" => d)
           /\ Inflate(p, n, d) = "Z_STREAM_END" => Data[p] = "whole"
           /\ Inflate(p, n, d) = "Z_BUF_ERROR" => Data[p] # "broken"
           /\ Inflate(p, n, d) = "Z_DATA_ERROR" => Data[p] \in {"headerless", "broken"}
<1>1. Size[p] \in Nat
  BY SizeType
<1>2. CASE Data[p] = "whole"
  BY <1>1, <1>2 DEF Inflate
<1>3. CASE Data[p] = "cut"
  BY <1>1, <1>3 DEF Inflate
<1>4. CASE Data[p] = "headerless"
  BY <1>1, <1>4 DEF Inflate
<1>5. CASE Data[p] = "broken"
  BY <1>1, <1>5 DEF Inflate
<1>6. CASE Data[p] = "other"
  BY <1>6 DEF Inflate
<1> QED
  BY <1>2, <1>3, <1>4, <1>5, <1>6, DataType

\* A page that is popped is all that changes, and decompress_page starts afresh.
LEMMA PopPagewise ==
    ASSUME Pagewise, NEW e \in Extractors, Pop(e)
    PROVE  Pagewise'
<1>1. LocalTypes /\ HasPage /\ Counted /\ Complete /\ CacheIsReturned
  BY DEF Pagewise
<1>2. Head(pageq[e]) \in Pages /\ Tail(pageq[e]) \in Seq(Pages)
  BY <1>1, HeadTailProperties DEF Pop, LocalTypes
<1>3. LocalTypes'
  BY <1>1, <1>2 DEF Pop, LocalTypes, Goto, Places
<1>4. /\ pc'[e] = "decompress" /\ cur'[e] \in Pages
      /\ got'[e] = 0 /\ reads'[e] = 0 /\ ~dummy'[e]
  BY <1>1, <1>2 DEF Pop, LocalTypes, Goto
<1>5. ASSUME NEW x \in Extractors, x # e
      PROVE  /\ pc'[x] = pc[x] /\ cur'[x] = cur[x] /\ got'[x] = got[x]
             /\ reads'[x] = reads[x] /\ dummy'[x] = dummy[x]
  BY <1>1, <1>5 DEF Pop, LocalTypes, Goto
<1>6. HasPage'
  BY <1>1, <1>4, <1>5 DEF HasPage
<1>7. Counted'
  <2> SUFFICES ASSUME NEW x \in Extractors, pc'[x] = "inflate"
               PROVE  /\ Encoding[cur'[x]] \in {"gzip", "deflate"}
                      /\ reads'[x] <= Size[cur'[x]] /\ got'[x] <= Size[cur'[x]]
                      /\ got'[x] = reads'[x] \/ (Data[cur'[x]] = "broken" /\ dummy'[x])
                      /\ Data[cur'[x]] = "headerless" /\ ~dummy'[x] => reads'[x] = 0
    BY DEF Counted
  <2>1. x # e
    BY <1>4
  <2>2. /\ Encoding[cur[x]] \in {"gzip", "deflate"}
        /\ reads[x] <= Size[cur[x]] /\ got[x] <= Size[cur[x]]
        /\ got[x] = reads[x] \/ (Data[cur[x]] = "broken" /\ dummy[x])
        /\ Data[cur[x]] = "headerless" /\ ~dummy[x] => reads[x] = 0
    BY <1>1, <1>5, <2>1 DEF Counted
  <2> QED
    BY <1>5, <2>1, <2>2
<1>8. Complete'
  <2> SUFFICES ASSUME NEW x \in Extractors, pc'[x] \in Saving
               PROVE  got'[x] = Size[cur'[x]] /\ Decodable(cur'[x])
    BY DEF Complete, Decodable
  <2>1. x # e
    BY <1>4 DEF Saving
  <2> QED
    BY <1>1, <1>5, <2>1 DEF Complete, Decodable
<1>9. CacheIsReturned'
  BY <1>1, <1>4, <1>5 DEF Pop, At, CacheIsReturned
<1> QED
  BY <1>3, <1>6, <1>7, <1>8, <1>9 DEF Pagewise

LEMMA StepPagewise ==
    ASSUME Pagewise, NEW e \in Extractors, Step(e)
    PROVE  Pagewise'
<1> USE SizeType DEF Pagewise, LocalTypes, HasPage, Counted, Complete, CacheIsReturned,
        Saving, Places, At, Goto, NextPage, localVars
<1>1. CASE Pop(e)
  BY <1>1, PopPagewise
<1>2. CASE PlainText(e)
  BY <1>2 DEF PlainText, Decodable
<1>3. CASE UnknownEncoding(e)
  BY <1>3 DEF UnknownEncoding
<1>4. CASE StartInflate(e)
  BY <1>4 DEF StartInflate
<1>5. ASSUME At(e, "inflate")
      PROVE  /\ cur[e] \in Pages /\ Size[cur[e]] \in Nat
             /\ reads[e] \in Nat /\ got[e] \in Nat /\ dummy[e] \in BOOLEAN
             /\ reads[e] <= Size[cur[e]] /\ got[e] <= Size[cur[e]]
             /\ caches[e] = 1
             /\ got[e] = reads[e] \/ (Data[cur[e]] = "broken" /\ dummy[e])
             /\ Data[cur[e]] = "headerless" /\ ~dummy[e] => reads[e] = 0
             /\ Encoding[cur[e]] \in {"gzip", "deflate"}
  BY <1>5
<1>6. CASE InflateGoesOn(e)
  <2> DEFINE n == IF Result(e) = "Z_OK" THEN 1 ELSE 0
  <2>1. /\ At(e, "inflate") /\ n \in Nat
        /\ got' = [got EXCEPT ![e] = @ + n] /\ reads' = [reads EXCEPT ![e] = @ + n]
        /\ UNCHANGED <<pageq, pc, cur, dummy, caches, depth, disk, saved, done, up>>
    BY <1>6 DEF InflateGoesOn, Inflating
  <2>2. \/ n = 0
        \/ /\ n = 1 /\ reads[e] + 1 <= Size[cur[e]]
           /\ ~(Data[cur[e]] = "broken" /\ dummy[e])
           /\ (Data[cur[e]] = "headerless" => dummy[e])
    BY <1>5, <2>1, InflateAnswers DEF Result
  <2> HIDE DEF n
  <2>3. /\ got'[e] = got[e] + n /\ reads'[e] = reads[e] + n
        /\ \A x \in Extractors \ {e} : got'[x] = got[x] /\ reads'[x] = reads[x]
        /\ got' \in [Extractors -> Nat] /\ reads' \in [Extractors -> Nat]
    BY <2>1
  <2>4. LocalTypes' /\ HasPage' /\ Complete' /\ CacheIsReturned'
    <3>1. pc[e] = "inflate"
      BY <2>1
    <3> QED
      BY <2>1, <2>3, <3>1
  <2>5. /\ reads[e] + n <= Size[cur[e]] /\ got[e] + n <= Size[cur[e]]
        /\ got[e] + n = reads[e] + n \/ (Data[cur[e]] = "broken" /\ dummy[e])
        /\ Data[cur[e]] = "headerless" /\ ~dummy[e] => reads[e] + n = 0
    BY <1>5, <2>1, <2>2
  <2>6. Counted'
    <3> SUFFICES ASSUME NEW x \in Extractors, pc'[x] = "inflate"
                 PROVE  /\ Encoding[cur'[x]] \in {"gzip", "deflate"}
                        /\ reads'[x] <= Size[cur'[x]] /\ got'[x] <= Size[cur'[x]]
                        /\ got'[x] = reads'[x] \/ (Data[cur'[x]] = "broken" /\ dummy'[x])
                        /\ Data[cur'[x]] = "headerless" /\ ~dummy'[x] => reads'[x] = 0
      BY DEF Counted
    <3>1. CASE x = e
      BY <1>5, <2>1, <2>3, <2>5, <3>1
    <3>2. CASE x # e
      BY <2>1, <2>3, <3>2
    <3> QED
      BY <3>1, <3>2
  <2> QED
    BY <2>4, <2>6
<1>7. CASE InflateEnds(e)
  <2>1. At(e, "inflate") /\ Data[cur[e]] = "whole"
    BY <1>5, <1>7, InflateAnswers DEF InflateEnds, Inflating, Result
  <2>2. got[e] + (Size[cur[e]] - reads[e]) = Size[cur[e]] /\ Decodable(cur[e])
    BY <1>5, <2>1 DEF Decodable
  <2> QED
    BY <1>5, <1>7, <2>1, <2>2 DEF InflateEnds
<1>8. CASE InflateDummy(e)
  <2>1. At(e, "inflate") /\ Data[cur[e]] \in {"headerless", "broken"} /\ ~dummy[e]
    BY <1>5, <1>8, InflateAnswers DEF InflateDummy, Inflating, Result
  <2> QED
    BY <1>5, <1>8, <2>1 DEF InflateDummy
<1>9. CASE InflateFails(e)
  <2>1. At(e, "inflate")
    BY <1>9 DEF InflateFails, Failed, Inflating
  <2> QED
    BY <1>5, <1>9, <2>1 DEF InflateFails
<1>10. CASE NoName(e) \/ ExtractFromNothing(e)
  <2>1. up' \in BOOLEAN
    BY <1>10, Zenon DEF NoName, ExtractFromNothing
  <2>2. UNCHANGED <<pageq, pc, cur, got, reads, dummy, caches, depth, saved, done>>
    BY <1>10 DEF NoName, ExtractFromNothing
  <2> QED
    BY <2>1, <2>2
<1>11. CASE Access(e)
  BY <1>11 DEF Access
<1>12. CASE Mkdir(e)
  <2>1. /\ pc[e] = "mkdir" /\ pc' = [pc EXCEPT ![e] = "path"]
        /\ depth' = [depth EXCEPT ![e] = @ + 1]
        /\ UNCHANGED <<pageq, cur, got, reads, dummy, caches, saved, done, up>>
    BY <1>12 DEF Mkdir
  <2> QED
    BY <2>1
<1>13. CASE MkdirFails(e)
  BY <1>13 DEF MkdirFails
<1>14. CASE Open(e) \/ OpenFails(e)
  <2>1. /\ pc[e] = "path"
        /\ \E place \in {"write", "lex"} : pc' = [pc EXCEPT ![e] = place]
        /\ UNCHANGED <<pageq, cur, got, reads, dummy, caches, depth, saved, done, up>>
    BY <1>14 DEF Open, OpenFails, Opening
  <2> QED
    BY <2>1
<1>15. CASE Write(e)
  BY <1>15 DEF Write
<1>16. CASE ExtractLinks(e)
  BY <1>16 DEF ExtractLinks
<1> QED
  BY <1>1, <1>2, <1>3, <1>4, <1>6, <1>7, <1>8, <1>9, <1>10, <1>11, <1>12, <1>13, <1>14, <1>15, <1>16
     DEF Step

LEMMA StepDisk ==
    ASSUME Pagewise, DiskType, NEW e \in Extractors, Step(e)
    PROVE  DiskType'
<1> USE DEF DiskType, Entries
<1>0. <<>> \in Seq(Pages \X Nat)
  BY EmptySeq
<1>1. CASE Mkdir(e)
  BY <1>0, <1>1 DEF Mkdir, Directory
<1>2. CASE Open(e)
  BY <1>0, <1>2 DEF Open, File
<1>3. CASE Write(e)
  <2> DEFINE p == cur[e]
             new == Prefix(Content(p), got[e])
  <2>1. p \in Pages /\ Size[p] \in Nat /\ got[e] = Size[p]
    BY <1>3, SizeType DEF Write, At, Pagewise, HasPage, Complete, Saving
  <2>2. new \in Seq(Pages \X Nat)
    <3>1. \A n \in 1..got[e] : Content(p)[n] \in Pages \X Nat
      BY <2>1 DEF Content, Block
    <3> QED
      BY <2>1, <3>1, SubSeqProperties DEF Prefix
  <2>3. ASSUME NEW old \in Seq(Pages \X Nat)
        PROVE  Overwrite(old, new) \in Seq(Pages \X Nat)
    <3> HIDE DEF new
    <3>1. SubSeq(old, Len(new) + 1, Len(old)) \in Seq(Pages \X Nat)
      <4>1. Len(new) \in Nat /\ Len(old) \in Nat
        BY <2>2, LenProperties
      <4>2. \A n \in (Len(new) + 1)..Len(old) : old[n] \in Pages \X Nat
        BY <4>1, ElementOfSeq
      <4> QED
        BY <4>1, <4>2, SubSeqProperties
    <3> QED
      BY <2>2, <3>1, ConcatProperties DEF Overwrite
  <2>4. disk' = [disk EXCEPT ![Path[p]] = File(Overwrite(@.data, new))]
    BY <1>3 DEF Write
  <2> HIDE DEF new
  <2>5. ASSUME NEW path \in Paths
        PROVE  disk'[path] \in Entries
    <3>1. disk[path].data \in Seq(Pages \X Nat)
      OBVIOUS
    <3> QED
      BY <2>3, <2>4, <3>1 DEF File
  <2> QED
    BY <2>4, <2>5
<1>4. CASE UNCHANGED disk
  BY <1>4
<1> QED
  BY <1>1, <1>2, <1>3, <1>4 DEF Step, Pop, PlainText, UnknownEncoding, StartInflate,
     InflateGoesOn, InflateEnds, InflateDummy, InflateFails, NoName, Access, MkdirFails,
     OpenFails, ExtractLinks, ExtractFromNothing

LEMMA StutterIInv == IInv /\ UNCHANGED vars => IInv'
BY DEF vars, IInv, Pagewise, LocalTypes, HasPage, Counted, Complete, CacheIsReturned, DiskType

THEOREM ExtractorInvariant == Spec => []IInv
<1>1. Init => IInv
  <2>1. Init => DiskType
    BY EmptySeq DEF Init, DiskType, Entries, Nothing
  <2> QED
    BY <2>1, InitPagewise DEF IInv
<1>2. IInv /\ [Next]_vars => IInv'
  BY StutterIInv, StepPagewise, StepDisk DEF IInv, Next
<1> QED
  BY <1>1, <1>2, PTL DEF Spec

-------------------------------------------------------------------------------
(* What ends the process. *)

\* A set of numbers has a least one.
LEMMA LeastIs ==
    ASSUME NEW T \in SUBSET Nat, T # {}
    PROVE  \E m \in T : \A n \in T : m <= n
<1>1. PICK m \in T : \A n \in T : <<n, m>> \notin OpToRel(<, Nat)
  BY WFMin, NatLessThanWellFounded
<1>2. \A n \in T : ~(n < m)
  BY <1>1 DEF OpToRel
<1> QED
  BY <1>2

LEMMA BelowIsFinite ==
    ASSUME NEW n \in Nat, NEW T \in SUBSET (0..n)
    PROVE  IsFiniteSet(T) /\ Cardinality(T) \in Nat
<1>1. IsFiniteSet(0..n)
  BY FS_Interval
<1>2. IsFiniteSet(T)
  BY <1>1, FS_Subset
<1> QED
  BY <1>2, FS_CardinalityType

\* split: a text without parts is made of separators.
LEMMA NothingToSplit ==
    ASSUME NEW A, NEW text \in Seq(A), NEW separators, Len(Split(text, separators)) = 0
    PROVE  \A i \in DOMAIN text : text[i] \in separators
<1> DEFINE ends == {0, Len(text) + 1} \cup {i \in DOMAIN text : text[i] \in separators}
           End(i) == Min({j \in ends : j > i})
           before == {i \in ends : i + 1 \in DOMAIN text \ ends}
           Nth(n) == CHOOSE i \in before : Cardinality({j \in before : j <= i}) = n
<1>1. DOMAIN text = 1..Len(text) /\ Len(text) \in Nat
  OBVIOUS
<1>2. Len([n \in 1..Cardinality(before) |-> SubSeq(text, Nth(n) + 1, End(Nth(n)) - 1)]) = 0
  BY DEF Split
<1>3. IsFiniteSet(before) /\ Cardinality(before) \in Nat
  <2>1. before \subseteq 0..Len(text) + 1 /\ Len(text) + 1 \in Nat
    BY <1>1
  <2> HIDE DEF ends, before
  <2> QED
    BY <2>1, BelowIsFinite
<1>4. Cardinality(before) = 0
  <2> DEFINE N == Cardinality(before)
             Piece(n) == SubSeq(text, Nth(n) + 1, End(Nth(n)) - 1)
  <2>1. N \in Nat /\ Len([n \in 1..N |-> Piece(n)]) = 0
    BY <1>2, <1>3
  <2> HIDE DEF N, Piece
  <2>2. N = 0
    BY <2>1
  <2> QED
    BY <2>2 DEF N
<1>5. before = {}
  BY <1>3, <1>4, FS_EmptySet
<1>6. SUFFICES ASSUME NEW k \in DOMAIN text, text[k] \notin separators PROVE FALSE
  OBVIOUS
<1> DEFINE ink == {i \in DOMAIN text : text[i] \notin separators}
<1>7. PICK m \in ink : \A n \in ink : m <= n
  <2>1. ink # {} /\ ink \in SUBSET Nat
    BY <1>1, <1>6
  <2> HIDE DEF ink
  <2> QED
    BY <2>1, LeastIs
<1>8. m - 1 \in ends
  <2>1. CASE m = 1
    BY <2>1
  <2>2. CASE m # 1
    BY <1>1, <1>7, <2>2
  <2> QED
    BY <2>1, <2>2
<1>9. m \in DOMAIN text /\ m \notin ends
  BY <1>1
<1>10. m - 1 \in before
  BY <1>1, <1>8, <1>9
<1> QED
  BY <1>5, <1>10

\* The parts of a text are a sequence.
LEMMA SplitIsSeq ==
    ASSUME NEW A, NEW text \in Seq(A), NEW separators, NEW site
    PROVE  \E S : site \in S /\ Split(text, separators) \in Seq(S)
<1> DEFINE ends == {0, Len(text) + 1} \cup {i \in DOMAIN text : text[i] \in separators}
           End(i) == Min({j \in ends : j > i})
           before == {i \in ends : i + 1 \in DOMAIN text \ ends}
           Nth(n) == CHOOSE i \in before : Cardinality({j \in before : j <= i}) = n
           N == Cardinality(before)
           Piece(n) == SubSeq(text, Nth(n) + 1, End(Nth(n)) - 1)
           S == {Piece(n) : n \in 1..N} \cup {site}
<1>1. N \in Nat
  <2>1. before \subseteq 0..Len(text) + 1 /\ Len(text) + 1 \in Nat
    OBVIOUS
  <2> HIDE DEF before
  <2> QED
    BY <2>1, BelowIsFinite
<1>2. Split(text, separators) = [n \in 1..N |-> Piece(n)]
  BY DEF Split
<1> HIDE DEF N, Piece
<1>3. [n \in 1..N |-> Piece(n)] \in Seq(S)
  BY <1>1
<1> QED
  BY <1>2, <1>3

\* save_page finds no name in a file of slashes alone.
LEMMA OnlySiteIsNameless ==
    ASSUME NEW p \in Pages, Len(Path[p]) = 1
    PROVE  Nameless(p)
<1> DEFINE file == FileText[p]
           text == IF file \in {<<>>, <<"/">>} THEN <<"/", "index.html">> ELSE file
<1>1. file \in Seq(STRING) /\ \E A : text \in Seq(A)
  <2>1. file \in Seq(STRING)
    BY FileTextType
  <2>2. <<"/", "index.html">> \in Seq({"/", "index.html"})
    OBVIOUS
  <2> HIDE DEF file
  <2> QED
    BY <2>1, <2>2
<1>2. Path[p] = <<Site[p]>> \o Split(text, {"/"})
  <2>1. Path[p] = SavePath(Site[p], file)
    BY PathIsSavePath
  <2> QED
    BY <2>1 DEF SavePath
<1>3. Len(Split(text, {"/"})) = 0
  <2>1. PICK S : Site[p] \in S /\ Split(text, {"/"}) \in Seq(S)
    BY <1>1, SplitIsSeq
  <2> DEFINE parts == Split(text, {"/"})
  <2> HIDE DEF parts
  <2>2. Len(<<Site[p]>> \o parts) = 1 + Len(parts) /\ Len(parts) \in Nat
    BY <2>1 DEF parts
  <2> QED
    BY <1>2, <2>2 DEF parts
<1>4. \A i \in DOMAIN text : text[i] \in {"/"}
  BY <1>1, <1>3, NothingToSplit
<1>5. file \notin {<<>>, <<"/">>}
  <2> SUFFICES ASSUME file \in {<<>>, <<"/">>} PROVE FALSE
    OBVIOUS
  <2>1. text = <<"/", "index.html">>
    OBVIOUS
  <2> HIDE DEF text
  <2>2. 2 \in DOMAIN text /\ text[2] = "index.html"
    BY <2>1
  <2> QED
    BY <1>4, <2>2
<1>6. \A i \in DOMAIN file : file[i] = "/"
  BY <1>4, <1>5
<1>7. Len(file) > 1
  <2>1. Len(file) \in Nat /\ Len(file) # 0
    BY <1>1, <1>5, EmptySeq
  <2>2. ASSUME Len(file) = 1 PROVE FALSE
    <3>1. file[1] = "/"
      BY <1>1, <1>6, <2>2
    <3> HIDE DEF file
    <3>2. file = <<"/">>
      BY <1>1, <2>2, <3>1
    <3> QED
      BY <1>5, <3>2 DEF file
  <2> HIDE DEF file
  <2> QED
    BY <2>1, <2>2
<1> QED
  BY <1>6, <1>7 DEF Nameless

LEMMA StepOdd ==
    ASSUME Pagewise, NEW e \in Extractors, Step(e)
    PROVE  OnlyOddPagesEndIt'
<1>1. CASE NoName(e)
  <2>1. cur' = cur /\ pc[e] = "path" /\ Len(Path[cur[e]]) = 1
    BY <1>1 DEF NoName, At, ThePath
  <2>2. cur[e] \in Pages /\ Decodable(cur[e])
    BY <2>1 DEF Pagewise, HasPage, Complete, Saving
  <2>3. Nameless(cur[e])
    BY <2>1, <2>2, OnlySiteIsNameless
  <2> QED
    BY <2>1, <2>2, <2>3, NoPageIsNoPage DEF OnlyOddPagesEndIt
<1>2. CASE ExtractFromNothing(e)
  <2>1. cur' = cur /\ pc[e] = "lex" /\ got[e] = 0
    BY <1>2 DEF ExtractFromNothing, At
  <2>2. cur[e] \in Pages /\ Decodable(cur[e]) /\ Size[cur[e]] = 0
    BY <2>1 DEF Pagewise, HasPage, Complete, Saving
  <2> QED
    BY <2>1, <2>2, NoPageIsNoPage DEF OnlyOddPagesEndIt
<1>3. CASE up' = up
  <2>1. up
    BY DEF Step, Pop, PlainText, UnknownEncoding, StartInflate, InflateGoesOn, InflateEnds,
           InflateDummy, InflateFails, Failed, Inflating, NoName, Access, Mkdir, MkdirFails, Open,
           OpenFails, Opening, Write, ExtractLinks, ExtractFromNothing, At
  <2> QED
    BY <1>3, <2>1 DEF OnlyOddPagesEndIt
<1> QED
  BY <1>1, <1>2, <1>3 DEF Step, Pop, PlainText, UnknownEncoding, StartInflate, InflateGoesOn,
     InflateEnds, InflateDummy, InflateFails, Access, Mkdir, MkdirFails, Open, OpenFails, Write,
     ExtractLinks

\* save_page and yylex end the process for no other pages than a file of slashes,
\* and one that was decompressed to nothing.
THEOREM OnlyOddPagesStop == Spec => []OnlyOddPagesEndIt
<1>1. Init => OnlyOddPagesEndIt
  BY DEF Init, OnlyOddPagesEndIt
<1>2. IInv /\ OnlyOddPagesEndIt /\ [Next]_vars => OnlyOddPagesEndIt'
  <2>1. OnlyOddPagesEndIt /\ UNCHANGED vars => OnlyOddPagesEndIt'
    BY DEF vars, OnlyOddPagesEndIt
  <2> QED
    BY <2>1, StepOdd DEF IInv, Next
<1> QED
  BY <1>1, <1>2, ExtractorInvariant, PTL DEF Spec

-------------------------------------------------------------------------------
(* The directory tree. *)

\* An extractor works on the pages of its own queue.
FromQueue ==
    \A e \in Extractors :
        /\ \A i \in 1..Len(pageq[e]) : pageq[e][i] \in Elements(Queued[e])
        /\ cur[e] # NoPage => cur[e] \in Elements(Queued[e])

\* save_page goes down the path from its first name, and never past the last.
OnTheWay ==
    \A e \in Extractors :
        /\ pc[e] \in {"decompress", "inflate"} => depth[e] = 0
        /\ pc[e] = "path" => depth[e] + 1 <= Len(ThePath(e))
        /\ pc[e] = "mkdir" => depth[e] + 1 < Len(ThePath(e))

\* Files are where paths end, directories where paths go on, and a file stays one
\* while it is written.
FilesAreEnds ==
    \A path \in Paths : disk[path].kind = "file" => \E q \in Pages : path = Path[q]
DirsAreAbove ==
    \A path \in Paths : disk[path].kind = "dir" => \E q \in Pages : IsBelow(Path[q], path)
WritesToFiles ==
    \A e \in Extractors : pc[e] = "write" => disk[ThePath(e)].kind = "file"

\* If a page's path is free, the directories are there as far as save_page has come.
DirsMade ==
    \A e \in Extractors : pc[e] \in {"path", "mkdir"} /\ PathIsFree(cur[e]) =>
        \A n \in 1..depth[e] : disk[Prefix(ThePath(e), n)].kind = "dir"

\* Nobody makes the directory that access() has found missing.
StillMissing ==
    \A e \in Extractors : pc[e] = "mkdir" /\ InOneQueue(SameSite(cur[e])) =>
        disk[Here(e)].kind = "none"

\* A file that was opened is empty until it is written.
Emptied ==
    \A e \in Extractors : pc[e] = "write" /\ InOneQueue(SamePath(cur[e])) =>
        disk[ThePath(e)].data = <<>>

\* A good page is saved when its links are extracted.
SavedWhenLexed ==
    \A e \in Extractors :
        pc[e] = "lex" /\ Good(cur[e]) /\ InOneQueue(SameSite(cur[e])) => cur[e] \in saved

Where == FromQueue /\ OnTheWay
Kinds == FilesAreEnds /\ DirsAreAbove /\ WritesToFiles
Way == DirsMade /\ StillMissing
Files == Emptied /\ FilesAreWhole
Saves == SavedWhenLexed /\ GoodPagesAreSaved
TreeInv == IInv /\ Where /\ Kinds /\ Way /\ Files /\ Saves

\* What a step does, but for what happens inside decompress_page.
Begins(e) ==
    /\ pc[e] = "pop" /\ pageq[e] # <<>>
    /\ pageq' = [pageq EXCEPT ![e] = Tail(pageq[e])]
    /\ pc' = [pc EXCEPT ![e] = "decompress"] /\ cur' = [cur EXCEPT ![e] = Head(pageq[e])]
    /\ depth' = [depth EXCEPT ![e] = 0]
    /\ UNCHANGED <<disk, saved, done>>
Decompresses(e) ==
    /\ pc[e] \in {"decompress", "inflate"}
    /\ \E place \in {"inflate", "path"} : pc' = [pc EXCEPT ![e] = place]
    /\ UNCHANGED <<pageq, cur, depth, disk, saved, done>>
Leaves(e) ==
    /\ \/ pc[e] \in {"decompress", "inflate"} /\ ~Decodable(cur[e])
       \/ pc[e] = "lex"
    /\ pc' = [pc EXCEPT ![e] = "pop"] /\ cur' = [cur EXCEPT ![e] = NoPage]
    /\ done' = done \cup {cur[e]}
    /\ UNCHANGED <<pageq, depth, disk, saved>>
Ends == UNCHANGED <<pageq, pc, cur, depth, disk, saved, done>>
Walks(e) == Access(e) \/ Mkdir(e) \/ MkdirFails(e) \/ Open(e) \/ OpenFails(e) \/ Write(e)

LEMMA StepIs ==
    ASSUME IInv, NEW e \in Extractors, Step(e)
    PROVE  Begins(e) \/ Decompresses(e) \/ Leaves(e) \/ Ends \/ Walks(e)
<1> USE DEF IInv, Pagewise, LocalTypes, At, Goto, NextPage, localVars
<1>1. CASE Pop(e)
  BY <1>1 DEF Pop, Begins
<1>2. CASE PlainText(e) \/ StartInflate(e)
  BY <1>2 DEF PlainText, StartInflate, Decompresses
<1>3. CASE UnknownEncoding(e)
  BY <1>3 DEF UnknownEncoding, Leaves, Decodable
<1>4. CASE InflateGoesOn(e) \/ InflateDummy(e)
  BY <1>4 DEF InflateGoesOn, InflateDummy, Inflating, Ends
<1>5. CASE InflateEnds(e)
  BY <1>5 DEF InflateEnds, Inflating, Decompresses
<1>6. CASE InflateFails(e)
  <2>1. pc[e] = "inflate" /\ Result(e) \in {"Z_DATA_ERROR", "Z_NEED_DICT"}
    BY <1>6 DEF InflateFails, Failed, Inflating
  <2>2. Encoding[cur[e]] \in {"gzip", "deflate"}
    BY <2>1 DEF Counted
  <2>3. Data[cur[e]] # "whole"
    BY <2>1 DEF Result, Inflate
  <2> QED
    BY <1>6, <2>1, <2>2, <2>3 DEF InflateFails, Leaves, Decodable
<1>7. CASE NoName(e) \/ ExtractFromNothing(e)
  BY <1>7 DEF NoName, ExtractFromNothing, Ends
<1>8. CASE ExtractLinks(e)
  BY <1>8 DEF ExtractLinks, Leaves
<1> QED
  BY <1>1, <1>2, <1>3, <1>4, <1>5, <1>6, <1>7, <1>8 DEF Step, Walks

\* Prefixes of a path.
LEMMA PathFacts ==
    ASSUME NEW p \in Pages
    PROVE  /\ Path[p] \in Seq(Names) /\ Len(Path[p]) \in Nat \ {0}
           /\ Prefix(Path[p], Len(Path[p])) = Path[p] /\ Path[p] \in Paths
<1>1. Path[p] \in Seq(Names) /\ Path[p] # <<>>
  BY PathType
<1>2. Len(Path[p]) \in Nat \ {0}
  BY <1>1, EmptySeq
<1>3. Prefix(Path[p], Len(Path[p])) = Path[p]
  BY <1>1, SubSeqFull DEF Prefix
<1>4. Path[p] \in Paths
  BY <1>2, <1>3 DEF Paths
<1> QED
  BY <1>1, <1>2, <1>3, <1>4

LEMMA PrefixFacts ==
    ASSUME NEW p \in Pages, NEW n \in 1..Len(Path[p])
    PROVE  /\ Prefix(Path[p], n) \in Paths /\ Len(Prefix(Path[p], n)) = n
           /\ Prefix(Path[p], n)[1] = Path[p][1]
           /\ Parent(Prefix(Path[p], n)) = Prefix(Path[p], n - 1)
<1> DEFINE path == Path[p]  r == Prefix(path, n)
<1>1. path \in Seq(Names) /\ Len(path) \in Nat \ {0}
  BY PathFacts
<1>2. r \in Paths
  BY DEF Paths
<1>3. \A i \in 1..n : path[i] \in Names
  BY <1>1, ElementOfSeq
<1>4. /\ r \in Seq(Names) /\ Len(r) = (IF 1 <= n THEN n - 1 + 1 ELSE 0)
      /\ \A i \in 1..n - 1 + 1 : r[i] = path[1 + i - 1]
  BY <1>1, <1>3, SubSeqProperties DEF Prefix
<1>5. Len(r) = n /\ r[1] = path[1]
  BY <1>1, <1>4
<1>6. Parent(r) = Prefix(path, n - 1)
  <2>1. Parent(r) = SubSeq(r, 1, n - 1)
    BY <1>5 DEF Parent, Prefix
  <2>2. CASE n = 1
    BY <2>1, <2>2, SubSeqEmpty DEF Prefix
  <2>3. CASE n # 1
    <3>1. SubSeq(SubSeq(path, 1, n), 1, n - 1) = SubSeq(path, 1 + 1 - 1, 1 + (n - 1) - 1)
      <4>1. 1 \in 1..Len(path) /\ n \in 1..Len(path) /\ 1 \in 1..(n - 1 + 1)
            /\ n - 1 \in 1..(n - 1 + 1)
        BY <1>1, <2>3
      <4> QED
        BY <1>1, <4>1, SubSeqOfSubSeq
    <3> QED
      BY <1>1, <2>1, <3>1 DEF Prefix
  <2> QED
    BY <2>2, <2>3
<1> QED
  BY <1>2, <1>5, <1>6

LEMMA StepWhere ==
    ASSUME TreeInv, NEW e \in Extractors, Step(e)
    PROVE  Where'
<1> USE DEF TreeInv, Where
<1>1. /\ pc \in [Extractors -> Places] /\ cur \in [Extractors -> Pages \cup {NoPage}]
      /\ depth \in [Extractors -> Nat] /\ pageq \in [Extractors -> Seq(Pages)]
      /\ \A x \in Extractors : pc[x] # "pop" => cur[x] \in Pages
  BY DEF IInv, Pagewise, LocalTypes, HasPage
<1>2. CASE Begins(e)
  <2>1. /\ Head(pageq[e]) = pageq[e][1] /\ 1 \in 1..Len(pageq[e])
        /\ \A i \in 1..Len(Tail(pageq[e])) :
              Tail(pageq[e])[i] = pageq[e][i + 1] /\ i + 1 \in 1..Len(pageq[e])
    <3>1. pageq[e] \in Seq(Pages) /\ pageq[e] # <<>>
      BY <1>1, <1>2 DEF Begins
    <3> QED
      BY <3>1
  <2>2. /\ Head(pageq[e]) \in Elements(Queued[e])
        /\ \A i \in 1..Len(Tail(pageq[e])) : Tail(pageq[e])[i] \in Elements(Queued[e])
    BY <2>1 DEF FromQueue
  <2>3. FromQueue'
    BY <1>1, <1>2, <2>2 DEF Begins, FromQueue
  <2>4. OnTheWay'
    BY <1>1, <1>2 DEF Begins, OnTheWay, ThePath
  <2> QED
    BY <2>3, <2>4
<1>3. CASE Decompresses(e)
  <2>1. Len(ThePath(e)) \in Nat \ {0}
    BY <1>1, <1>3, PathFacts DEF Decompresses, ThePath
  <2>2. depth[e] = 0
    BY <1>3 DEF Decompresses, OnTheWay
  <2> QED
    BY <1>1, <1>3, <2>1, <2>2 DEF Decompresses, FromQueue, OnTheWay, ThePath
<1>4. CASE Leaves(e)
  BY <1>1, <1>4 DEF Leaves, FromQueue, OnTheWay, ThePath
<1>5. CASE Ends
  BY <1>1, <1>5 DEF Ends, FromQueue, OnTheWay, ThePath
<1>6. CASE Walks(e)
  <2>1. UNCHANGED <<pageq, cur>>
    BY <1>6 DEF Walks, Access, Mkdir, MkdirFails, Open, OpenFails, Write
  <2>2. Len(ThePath(e)) \in Nat
    BY <1>1, <1>6, PathFacts DEF Walks, Access, Mkdir, MkdirFails, Open, OpenFails, Opening,
                             Write, At, ThePath
  <2>3. FromQueue'
    BY <2>1 DEF FromQueue
  <2>4. ASSUME Access(e) PROVE OnTheWay'
    BY <1>1, <2>1, <2>2, <2>4 DEF Access, At, Goto, OnTheWay, ThePath
  <2>5. ASSUME Mkdir(e) PROVE OnTheWay'
    BY <1>1, <2>1, <2>2, <2>5 DEF Mkdir, At, Goto, OnTheWay, ThePath
  <2>6. ASSUME MkdirFails(e) \/ Open(e) \/ OpenFails(e) \/ Write(e) PROVE OnTheWay'
    BY <1>1, <2>1, <2>6 DEF MkdirFails, Open, OpenFails, Opening, Write, At, Goto, OnTheWay,
                            ThePath, localVars
  <2> QED
    BY <1>6, <2>3, <2>4, <2>5, <2>6 DEF Walks
<1> QED
  BY <1>2, <1>3, <1>4, <1>5, <1>6, StepIs

\* The steps that change the tree, and where.
LEMMA MkdirIs ==
    ASSUME TreeInv, NEW e \in Extractors, Mkdir(e)
    PROVE  \E p \in Pages : \E n \in 1..Len(Path[p]) :
              /\ p = cur[e] /\ n = depth[e] + 1 /\ Here(e) = Prefix(Path[p], n)
              /\ IsBelow(Path[p], Prefix(Path[p], n))
              /\ disk[Prefix(Path[p], n)].kind = "none"
              /\ disk' = [disk EXCEPT ![Prefix(Path[p], n)] = Directory]
              /\ pc[e] = "mkdir" /\ pc' = [pc EXCEPT ![e] = "path"]
              /\ depth' = [depth EXCEPT ![e] = n]
              /\ UNCHANGED <<pageq, cur, saved, done>>
<1> DEFINE p == cur[e]  n == depth[e] + 1
<1>1. p \in Pages /\ depth[e] \in Nat /\ pc[e] = "mkdir"
  BY DEF Mkdir, At, TreeInv, IInv, Pagewise, LocalTypes, HasPage
<1>2. n < Len(Path[p])
  BY <1>1 DEF TreeInv, Where, OnTheWay, ThePath
<1>3. n \in 1..Len(Path[p]) /\ IsBelow(Path[p], Prefix(Path[p], n))
  <2>1. n \in 1..Len(Path[p])
    BY <1>1, <1>2, PathFacts
  <2>2. Len(Prefix(Path[p], n)) = n
    BY <1>1, <2>1, PrefixFacts
  <2> QED
    BY <1>2, <2>1, <2>2 DEF IsBelow
<1>4. /\ depth' = [depth EXCEPT ![e] = n] /\ Here(e) = Prefix(Path[p], n)
      /\ disk[Here(e)].kind = "none" /\ disk' = [disk EXCEPT ![Here(e)] = Directory]
      /\ pc' = [pc EXCEPT ![e] = "path"] /\ UNCHANGED <<pageq, cur, saved, done>>
  BY DEF Mkdir, CanMake, Here, ThePath, Goto
<1> QED
  BY <1>1, <1>3, <1>4

LEMMA OpenIs ==
    ASSUME TreeInv, NEW e \in Extractors, Open(e)
    PROVE  \E p \in Pages :
              /\ p = cur[e] /\ disk[Path[p]].kind # "dir"
              /\ disk' = [disk EXCEPT ![Path[p]] = File(<<>>)]
              /\ pc[e] = "path" /\ pc' = [pc EXCEPT ![e] = "write"]
              /\ UNCHANGED <<pageq, cur, depth, saved, done>>
<1>1. pc[e] = "path" /\ cur[e] \in Pages
  BY DEF Open, Opening, At, TreeInv, IInv, Pagewise, HasPage
<1>2. Path[cur[e]] # <<>>
  BY <1>1, PathType
<1> QED
  BY <1>1, <1>2 DEF Open, CanOpen, IsDir, ThePath, Goto, localVars

LEMMA WriteIs ==
    ASSUME TreeInv, NEW e \in Extractors, Write(e)
    PROVE  \E p \in Pages :
              /\ p = cur[e] /\ disk[Path[p]].kind = "file"
              /\ disk' = [disk EXCEPT ![Path[p]] = File(Overwrite(disk[Path[p]].data, Content(p)))]
              /\ saved' = IF Size[p] > 0 THEN saved \cup {p} ELSE saved
              /\ pc[e] = "write" /\ pc' = [pc EXCEPT ![e] = "lex"]
              /\ UNCHANGED <<pageq, cur, depth, done>>
<1> DEFINE p == cur[e]
<1>1. pc[e] = "write" /\ p \in Pages /\ got[e] = Size[p] /\ Size[p] \in Nat
  BY SizeType DEF Write, At, TreeInv, IInv, Pagewise, HasPage, Complete, Saving
<1>2. Prefix(Content(p), got[e]) = Content(p)
  <2>1. Content(p) \in Seq(Pages \X Nat) /\ Len(Content(p)) = Size[p]
    BY <1>1 DEF Content, Block
  <2> QED
    BY <1>1, <2>1, SubSeqFull DEF Prefix
<1>3. disk[Path[p]].kind = "file"
  BY <1>1 DEF TreeInv, Kinds, WritesToFiles, ThePath
<1>4. /\ disk' = [disk EXCEPT ![Path[p]] = File(Overwrite(disk[Path[p]].data, Content(p)))]
      /\ saved' = IF Size[p] > 0 THEN saved \cup {p} ELSE saved
      /\ pc' = [pc EXCEPT ![e] = "lex"]
      /\ UNCHANGED <<pageq, cur, depth, done>>
  BY <1>1, <1>2 DEF Write, Goto, localVars
<1> QED
  BY <1>1, <1>3, <1>4

\* What the other extractors see of a step.
LEMMA OthersStay ==
    ASSUME TreeInv, NEW e \in Extractors, Step(e), NEW x \in Extractors, x # e
    PROVE  pc'[x] = pc[x] /\ cur'[x] = cur[x] /\ depth'[x] = depth[x]
<1>1. /\ pc \in [Extractors -> Places] /\ cur \in [Extractors -> Pages \cup {NoPage}]
      /\ depth \in [Extractors -> Nat]
  BY DEF TreeInv, IInv, Pagewise, LocalTypes
<1>2. CASE Begins(e) \/ Decompresses(e) \/ Leaves(e) \/ Ends
  BY <1>1, <1>2 DEF Begins, Decompresses, Leaves, Ends
<1>3. CASE Walks(e)
  BY <1>1, <1>3 DEF Walks, Access, Mkdir, MkdirFails, Open, OpenFails, Write, Goto, localVars
<1> QED
  BY <1>2, <1>3, StepIs DEF TreeInv

\* Directories and files stay what they are; a page, once saved, stays so.
LEMMA KindsStay ==
    ASSUME TreeInv, NEW e \in Extractors, Step(e)
    PROVE  /\ \A path \in Paths :
                 disk[path].kind \in {"dir", "file"} => disk'[path].kind = disk[path].kind
           /\ saved \subseteq saved'
<1>1. disk \in [Paths -> Entries]
  BY DEF TreeInv, IInv, DiskType
<1>2. CASE Mkdir(e)
  BY <1>1, <1>2, MkdirIs
<1>3. CASE Open(e)
  <2>1. PICK p \in Pages :
           /\ disk[Path[p]].kind # "dir" /\ disk' = [disk EXCEPT ![Path[p]] = File(<<>>)]
           /\ UNCHANGED saved
    BY <1>3, OpenIs
  <2> QED
    BY <1>1, <2>1 DEF File, Entries
<1>4. CASE Write(e)
  <2>1. PICK p \in Pages :
           /\ disk[Path[p]].kind = "file"
           /\ \E data : disk' = [disk EXCEPT ![Path[p]] = File(data)]
           /\ saved' = IF Size[p] > 0 THEN saved \cup {p} ELSE saved
    BY <1>4, WriteIs
  <2> QED
    BY <1>1, <2>1 DEF File
<1>5. CASE UNCHANGED <<disk, saved>>
  BY <1>5
<1> QED
  BY <1>2, <1>3, <1>4, <1>5, StepIs
     DEF TreeInv, Begins, Decompresses, Leaves, Ends, Walks, Access, MkdirFails, OpenFails

LEMMA StepKinds ==
    ASSUME TreeInv, NEW e \in Extractors, Step(e)
    PROVE  Kinds'
<1>1. /\ disk \in [Paths -> Entries] /\ pc \in [Extractors -> Places]
      /\ cur \in [Extractors -> Pages \cup {NoPage}]
      /\ \A x \in Extractors : pc[x] # "pop" => cur[x] \in Pages
  BY DEF TreeInv, IInv, DiskType, Pagewise, LocalTypes, HasPage
<1>2. FilesAreEnds /\ DirsAreAbove /\ WritesToFiles
  BY DEF TreeInv, Kinds
<1>3. FilesAreEnds' /\ DirsAreAbove'
  <2>1. CASE Mkdir(e)
    BY <1>1, <1>2, <2>1, MkdirIs DEF FilesAreEnds, DirsAreAbove, Directory
  <2>2. CASE Open(e)
    BY <1>1, <1>2, <2>2, OpenIs DEF FilesAreEnds, DirsAreAbove, File
  <2>3. CASE Write(e)
    <3>1. PICK p \in Pages : \E data : disk' = [disk EXCEPT ![Path[p]] = File(data)]
      BY <2>3, WriteIs
    <3> QED
      BY <1>1, <1>2, <3>1 DEF FilesAreEnds, DirsAreAbove, File
  <2>4. CASE UNCHANGED disk
    BY <1>2, <2>4 DEF FilesAreEnds, DirsAreAbove
  <2> QED
    BY <2>1, <2>2, <2>3, <2>4, StepIs
       DEF TreeInv, Begins, Decompresses, Leaves, Ends, Walks, Access, MkdirFails, OpenFails
<1>4. WritesToFiles'
  <2> SUFFICES ASSUME NEW x \in Extractors, pc'[x] = "write"
               PROVE  disk'[Path[cur'[x]]].kind = "file"
    BY DEF WritesToFiles, ThePath
  <2>1. CASE pc[x] = "write" /\ cur'[x] = cur[x]
    <3>1. disk[Path[cur[x]]].kind = "file" /\ Path[cur[x]] \in Paths
      BY <1>1, <1>2, <2>1, PathFacts DEF WritesToFiles, ThePath
    <3> QED
      BY <2>1, <3>1, KindsStay
  <2>2. CASE x = e /\ Open(e)
    <3>1. PICK p \in Pages : p = cur[e] /\ disk' = [disk EXCEPT ![Path[p]] = File(<<>>)]
                             /\ UNCHANGED cur
      BY <2>2, OpenIs
    <3> QED
      BY <1>1, <2>2, <3>1, PathFacts DEF File
  <2>3. x = e /\ ~Open(e) => pc[x] = "write" /\ cur'[x] = cur[x]
    BY <1>1, StepIs DEF TreeInv, Begins, Decompresses, Leaves, Ends, Walks, Access, Mkdir,
       MkdirFails, OpenFails, Write, Goto
  <2> QED
    BY <2>1, <2>2, <2>3, OthersStay
<1> QED
  BY <1>3, <1>4 DEF Kinds

\* The pages of a set that is in one queue are all the same extractor's.
LEMMA OneExtractor ==
    ASSUME NEW mine, InOneQueue(mine), NEW e \in Extractors, NEW f \in Extractors,
           NEW p \in mine, NEW q \in mine,
           p \in Elements(Queued[e]), q \in Elements(Queued[f])
    PROVE  e = f
<1>1. PICK g \in Extractors : mine \subseteq Elements(Queued[g])
  BY DEF InOneQueue
<1>2. ASSUME NEW a \in Extractors, NEW b \in Extractors, NEW r \in Elements(Queued[a]),
             r \in Elements(Queued[b])
      PROVE  a = b
  BY <1>2, PagesAreObjects DEF Elements
<1> QED
  BY <1>1, <1>2

LEMMA StepWay ==
    ASSUME TreeInv, NEW e \in Extractors, Step(e)
    PROVE  Way'
<1>1. /\ pc \in [Extractors -> Places] /\ cur \in [Extractors -> Pages \cup {NoPage}]
      /\ depth \in [Extractors -> Nat] /\ disk \in [Paths -> Entries]
      /\ \A x \in Extractors : pc[x] # "pop" => cur[x] \in Pages
  BY DEF TreeInv, IInv, DiskType, Pagewise, LocalTypes, HasPage
<1>2. DirsMade /\ StillMissing /\ OnTheWay /\ FromQueue /\ FilesAreEnds
  BY DEF TreeInv, Way, Where, Kinds
<1>3. DirsMade'
  <2> SUFFICES ASSUME NEW x \in Extractors, pc'[x] \in {"path", "mkdir"}, PathIsFree(cur'[x]),
                      NEW n \in 1..depth'[x]
               PROVE  disk'[Prefix(Path[cur'[x]], n)].kind = "dir"
    BY DEF DirsMade, ThePath, PathIsFree
  <2>1. CASE pc[x] \in {"path", "mkdir"} /\ cur'[x] = cur[x] /\ n <= depth[x]
    <3>1. n \in 1..depth[x] /\ cur[x] \in Pages
      BY <1>1, <2>1
    <3>2. disk[Prefix(Path[cur[x]], n)].kind = "dir"
      BY <1>2, <2>1, <3>1 DEF DirsMade, ThePath
    <3>3. depth[x] + 1 <= Len(Path[cur[x]])
      BY <1>1, <1>2, <2>1, <3>1, PathFacts DEF OnTheWay, ThePath
    <3>4. Prefix(Path[cur[x]], n) \in Paths
      BY <1>1, <3>1, <3>3, PathFacts, PrefixFacts
    <3> QED
      BY <2>1, <3>2, <3>4, KindsStay
  <2>2. CASE x = e /\ Access(e)
    <3> DEFINE p == cur[e]
    <3>1. /\ pc[e] = "path" /\ p \in Pages /\ cur' = cur /\ disk' = disk
          /\ depth[e] + 1 < Len(Path[p])
          /\ depth' = IF disk[Here(e)].kind # "none" THEN [depth EXCEPT ![e] = @ + 1] ELSE depth
      BY <1>1, <2>2 DEF Access, At, ThePath
    <3>2. CASE n <= depth[e]
      BY <2>1, <2>2, <3>1, <3>2
    <3>3. CASE n > depth[e]
      <4>1. n = depth[e] + 1 /\ disk[Here(e)].kind # "none"
        BY <1>1, <2>2, <3>1, <3>3
      <4>2. Here(e) = Prefix(Path[p], n) /\ n \in 1..Len(Path[p]) /\ n < Len(Path[p])
        BY <3>1, <4>1, PathFacts DEF Here, ThePath
      <4>3. Here(e) \in Paths /\ IsBelow(Path[p], Here(e))
        BY <3>1, <4>2, PrefixFacts DEF IsBelow
      <4>4. disk[Here(e)].kind # "file"
        BY <1>2, <2>2, <3>1, <4>3 DEF FilesAreEnds, PathIsFree
      <4>5. disk[Here(e)].kind = "dir"
        BY <1>1, <4>1, <4>3, <4>4 DEF Entries
      <4> QED
        BY <2>2, <3>1, <4>2, <4>5
    <3> QED
      BY <1>1, <3>2, <3>3
  <2>3. CASE x = e /\ Mkdir(e)
    <3> DEFINE k == depth[e] + 1
    <3>1. PICK p \in Pages :
             /\ p = cur[e] /\ k \in 1..Len(Path[p])
             /\ disk' = [disk EXCEPT ![Prefix(Path[p], k)] = Directory]
             /\ pc[e] = "mkdir" /\ depth' = [depth EXCEPT ![e] = k] /\ UNCHANGED cur
      BY <2>3, MkdirIs
    <3>2. CASE n <= depth[e]
      BY <2>1, <2>3, <3>1, <3>2
    <3>3. CASE n > depth[e]
      <4>1. n = k
        BY <1>1, <2>3, <3>1, <3>3
      <4>2. Prefix(Path[p], k) \in Paths
        BY <3>1, PrefixFacts
      <4> QED
        BY <1>1, <2>3, <3>1, <4>1, <4>2 DEF Directory
    <3> QED
      BY <1>1, <3>2, <3>3
  <2>4. CASE x = e /\ Ends
    BY <1>1, <2>1, <2>4 DEF Ends
  <2>5. x = e /\ ~Access(e) /\ ~Mkdir(e) /\ ~Ends => depth'[x] = 0
    BY <1>1, <1>2, StepIs DEF TreeInv, Begins, Decompresses, Leaves, Walks, MkdirFails, Open,
       OpenFails, Write, Goto, OnTheWay
  <2> QED
    BY <1>1, <2>1, <2>2, <2>3, <2>4, <2>5, OthersStay
<1>4. StillMissing'
  <2> SUFFICES ASSUME NEW x \in Extractors, pc'[x] = "mkdir", InOneQueue(SameSite(cur'[x]))
               PROVE  disk'[Prefix(Path[cur'[x]], depth'[x] + 1)].kind = "none"
    BY DEF StillMissing, Here, ThePath, InOneQueue, SameSite
  <2>1. CASE x = e
    <3>1. CASE Access(e)
      BY <1>1, <2>1, <3>1 DEF Access, At, Goto, Here, ThePath
    <3>2. CASE Ends
      BY <1>2, <2>1, <3>2 DEF Ends, StillMissing, Here, ThePath
    <3> QED
      BY <1>1, <2>1, <3>1, <3>2, StepIs DEF TreeInv, Begins, Decompresses, Leaves, Walks, Mkdir,
         MkdirFails, Open, OpenFails, Write, Goto
  <2>2. CASE x # e
    <3> DEFINE q == cur[x]  k == depth[x] + 1
    <3>1. pc[x] = "mkdir" /\ cur'[x] = q /\ depth'[x] = depth[x] /\ q \in Pages
      BY <1>1, <2>2, OthersStay
    <3>2. disk[Prefix(Path[q], k)].kind = "none"
      BY <1>2, <3>1 DEF StillMissing, Here, ThePath
    <3>3. k \in 1..Len(Path[q])
      BY <1>1, <1>2, <3>1, PathFacts DEF OnTheWay, ThePath
    <3>4. Prefix(Path[q], k)[1] = Path[q][1] /\ Prefix(Path[q], k) \in Paths
      BY <3>1, <3>3, PrefixFacts
    <3>5. ASSUME cur[e] \in Pages PROVE Path[cur[e]][1] # Path[q][1]
      <4>1. SUFFICES ASSUME Path[cur[e]][1] = Path[q][1] PROVE FALSE
        OBVIOUS
      <4>2. cur[e] \in SameSite(q) /\ q \in SameSite(q)
        BY <3>1, <3>5, <4>1 DEF SameSite
      <4>3. cur[e] \in Elements(Queued[e]) /\ q \in Elements(Queued[x])
        BY <1>2, <3>1, <3>5, NoPageIsNoPage DEF FromQueue
      <4> QED
        BY <2>2, <3>1, <4>2, <4>3, OneExtractor
    <3>6. disk'[Prefix(Path[q], k)] = disk[Prefix(Path[q], k)]
      <4>1. CASE Mkdir(e)
        <5>1. PICK p \in Pages : \E n \in 1..Len(Path[p]) :
                 p = cur[e] /\ disk' = [disk EXCEPT ![Prefix(Path[p], n)] = Directory]
          BY <4>1, MkdirIs
        <5> QED
          BY <1>1, <3>4, <3>5, <5>1, PrefixFacts
      <4>2. CASE Open(e) \/ Write(e)
        <5>1. PICK p \in Pages :
                 p = cur[e] /\ \E data : disk' = [disk EXCEPT ![Path[p]] = File(data)]
          BY <4>2, OpenIs, WriteIs
        <5> QED
          BY <1>1, <3>4, <3>5, <5>1
      <4> QED
        BY <4>1, <4>2, StepIs DEF TreeInv, Begins, Decompresses, Leaves, Ends, Walks, Access,
           MkdirFails, OpenFails
    <3> QED
      BY <3>1, <3>2, <3>6
  <2> QED
    BY <2>1, <2>2
<1> QED
  BY <1>3, <1>4 DEF Way

LEMMA StepFiles ==
    ASSUME TreeInv, NEW e \in Extractors, Step(e)
    PROVE  Files'
<1>1. /\ pc \in [Extractors -> Places] /\ cur \in [Extractors -> Pages \cup {NoPage}]
      /\ disk \in [Paths -> Entries]
      /\ \A x \in Extractors : pc[x] # "pop" => cur[x] \in Pages
  BY DEF TreeInv, IInv, DiskType, Pagewise, LocalTypes, HasPage
<1>2. Emptied /\ FilesAreWhole /\ WritesToFiles /\ FromQueue
  BY DEF TreeInv, Files, Where, Kinds
<1>3. Emptied'
  <2> SUFFICES ASSUME NEW x \in Extractors, pc'[x] = "write", InOneQueue(SamePath(cur'[x]))
               PROVE  disk'[Path[cur'[x]]].data = <<>>
    BY DEF Emptied, ThePath, InOneQueue, SamePath
  <2>1. CASE x = e /\ Open(e)
    <3>1. PICK p \in Pages : p = cur[e] /\ disk' = [disk EXCEPT ![Path[p]] = File(<<>>)]
                             /\ UNCHANGED cur
      BY <2>1, OpenIs
    <3> QED
      BY <1>1, <2>1, <3>1, PathFacts DEF File
  <2>2. CASE x = e /\ ~Open(e)
    <3>1. Ends
      BY <1>1, <2>2, StepIs DEF TreeInv, Begins, Decompresses, Leaves, Walks, Access, Mkdir,
         MkdirFails, OpenFails, Write, Goto
    <3> QED
      BY <1>2, <3>1 DEF Ends, Emptied, ThePath
  <2>3. CASE x # e
    <3> DEFINE q == cur[x]
    <3>1. pc[x] = "write" /\ cur'[x] = q /\ q \in Pages
      BY <1>1, <2>3, OthersStay
    <3>2. disk[Path[q]].data = <<>> /\ disk[Path[q]].kind = "file"
      BY <1>2, <3>1 DEF Emptied, WritesToFiles, ThePath
    <3>3. ASSUME cur[e] \in Pages PROVE Path[cur[e]] # Path[q]
      <4>1. SUFFICES ASSUME Path[cur[e]] = Path[q] PROVE FALSE
        OBVIOUS
      <4>2. cur[e] \in SamePath(q) /\ q \in SamePath(q)
        BY <3>1, <3>3, <4>1 DEF SamePath
      <4>3. cur[e] \in Elements(Queued[e]) /\ q \in Elements(Queued[x])
        BY <1>2, <3>1, <3>3, NoPageIsNoPage DEF FromQueue
      <4> QED
        BY <2>3, <3>1, <4>2, <4>3, OneExtractor
    <3>4. Path[q] \in Paths
      BY <3>1, PathFacts
    <3>5. disk'[Path[q]] = disk[Path[q]]
      <4>1. CASE Mkdir(e)
        <5>1. PICK path : disk[path].kind = "none" /\ disk' = [disk EXCEPT ![path] = Directory]
          BY <4>1, MkdirIs
        <5> QED
          BY <1>1, <3>2, <3>4, <5>1
      <4>2. CASE Open(e) \/ Write(e)
        <5>1. PICK p \in Pages :
                 p = cur[e] /\ \E data : disk' = [disk EXCEPT ![Path[p]] = File(data)]
          BY <4>2, OpenIs, WriteIs
        <5> QED
          BY <1>1, <3>3, <3>4, <5>1
      <4> QED
        BY <4>1, <4>2, StepIs DEF TreeInv, Begins, Decompresses, Leaves, Ends, Walks, Access,
           MkdirFails, OpenFails
    <3> QED
      BY <3>1, <3>2, <3>5
  <2> QED
    BY <2>1, <2>2, <2>3
<1>4. FilesAreWhole'
  <2> SUFFICES ASSUME NEW p \in Pages, disk'[Path[p]].kind = "file", InOneQueue(SamePath(p)),
                      \A x \in Extractors : pc'[x] = "write" => Path[cur'[x]] # Path[p]
               PROVE  \E q \in SamePath(p) : disk'[Path[p]].data = Content(q)
    BY DEF FilesAreWhole, ThePath, InOneQueue, SamePath, Content, Block
  <2>1. Path[p] \in Paths
    BY PathFacts
  <2>2. CASE Write(e)
    <3>1. PICK q \in Pages :
             /\ q = cur[e] /\ pc[e] = "write" /\ UNCHANGED cur
             /\ pc' = [pc EXCEPT ![e] = "lex"]
             /\ disk' = [disk EXCEPT ![Path[q]] = File(Overwrite(disk[Path[q]].data, Content(q)))]
      BY <2>2, WriteIs
    <3>2. CASE Path[q] = Path[p]
      <4>1. SamePath(q) = SamePath(p) /\ q \in SamePath(p)
        BY <3>2 DEF SamePath
      <4>2. disk[Path[q]].data = <<>>
        BY <1>2, <3>1, <4>1 DEF Emptied, ThePath
      <4>3. Overwrite(<<>>, Content(q)) = Content(q)
        <5>1. Content(q) \in Seq(Pages \X Nat) /\ Len(Content(q)) \in Nat
          BY SizeType DEF Content, Block
        <5>2. SubSeq(<<>>, Len(Content(q)) + 1, Len(<<>>)) = <<>>
          BY <5>1, SubSeqEmpty
        <5> QED
          BY <5>1, <5>2, ConcatEmptySeq DEF Overwrite
      <4>4. disk'[Path[p]] = File(Content(q))
        BY <1>1, <2>1, <3>1, <3>2, <4>2, <4>3
      <4> QED
        BY <4>1, <4>4 DEF File
    <3>3. CASE Path[q] # Path[p]
      <4>1. disk'[Path[p]] = disk[Path[p]]
        BY <1>1, <2>1, <3>1, <3>3
      <4>2. \A x \in Extractors : pc[x] = "write" => Path[cur[x]] # Path[p]
        BY <1>1, <3>1, <3>3
      <4> QED
        BY <1>2, <4>1, <4>2 DEF FilesAreWhole, ThePath
    <3> QED
      BY <3>2, <3>3
  <2>3. CASE ~Write(e)
    <3>1. disk'[Path[p]] = disk[Path[p]]
      <4>1. CASE Mkdir(e)
        <5>1. PICK path : disk' = [disk EXCEPT ![path] = Directory]
          BY <4>1, MkdirIs
        <5> QED
          BY <1>1, <2>1, <5>1 DEF Directory
      <4>2. CASE Open(e)
        <5>1. PICK q \in Pages :
                 /\ q = cur[e] /\ disk' = [disk EXCEPT ![Path[q]] = File(<<>>)]
                 /\ pc' = [pc EXCEPT ![e] = "write"] /\ UNCHANGED cur
          BY <4>2, OpenIs
        <5>2. Path[q] # Path[p]
          BY <1>1, <5>1
        <5> QED
          BY <1>1, <2>1, <5>1, <5>2
      <4> QED
        BY <2>3, <4>1, <4>2, StepIs DEF TreeInv, Begins, Decompresses, Leaves, Ends, Walks,
           Access, MkdirFails, OpenFails
    <3>2. \A x \in Extractors : pc[x] = "write" => pc'[x] = "write" /\ cur'[x] = cur[x]
      <4>1. pc[e] = "write" => pc'[e] = "write" /\ cur'[e] = cur[e]
        BY <2>3, StepIs DEF TreeInv, Begins, Decompresses, Leaves, Ends, Walks,
           Access, Mkdir, MkdirFails, Open, OpenFails, Opening, At
      <4> QED
        BY <4>1, OthersStay
    <3> QED
      BY <1>2, <3>1, <3>2 DEF FilesAreWhole, ThePath
  <2> QED
    BY <2>2, <2>3
<1> QED
  BY <1>3, <1>4 DEF Files

LEMMA StepSaves ==
    ASSUME TreeInv, NEW e \in Extractors, Step(e)
    PROVE  Saves'
<1>1. /\ pc \in [Extractors -> Places] /\ cur \in [Extractors -> Pages \cup {NoPage}]
      /\ depth \in [Extractors -> Nat] /\ disk \in [Paths -> Entries]
      /\ \A x \in Extractors : pc[x] # "pop" => cur[x] \in Pages
  BY DEF TreeInv, IInv, DiskType, Pagewise, LocalTypes, HasPage
<1>2. /\ SavedWhenLexed /\ GoodPagesAreSaved /\ DirsMade /\ StillMissing /\ OnTheWay
      /\ DirsAreAbove
  BY DEF TreeInv, Saves, Way, Where, Kinds
<1>3. saved \subseteq saved'
  BY KindsStay
<1>4. SavedWhenLexed'
  <2> SUFFICES ASSUME NEW x \in Extractors, pc'[x] = "lex",
                      Good(cur'[x]), InOneQueue(SameSite(cur'[x]))
               PROVE  cur'[x] \in saved'
    BY DEF SavedWhenLexed, Good, Decodable, PathIsFree, InOneQueue, SameSite
  <2>1. CASE pc[x] = "lex" /\ cur'[x] = cur[x]
    BY <1>2, <1>3, <2>1 DEF SavedWhenLexed
  <2>2. CASE x = e /\ MkdirFails(e)
    <3> DEFINE p == cur[e]  n == depth[e] + 1
    <3>1. pc[e] = "mkdir" /\ p \in Pages /\ cur'[e] = p /\ ~CanMake(Here(e))
      BY <1>1, <2>2 DEF MkdirFails, At
    <3>2. n \in 1..Len(Path[p]) /\ Here(e) = Prefix(Path[p], n)
      BY <1>1, <1>2, <3>1, PathFacts DEF OnTheWay, ThePath, Here
    <3>3. disk[Here(e)].kind = "none"
      BY <1>2, <2>2, <3>1 DEF StillMissing
    <3>4. Parent(Here(e)) = Prefix(Path[p], depth[e])
      BY <1>1, <3>1, <3>2, PrefixFacts
    <3>5. IsDir(Prefix(Path[p], depth[e]))
      <4>1. CASE depth[e] = 0
        <5>1. Prefix(Path[p], 0) = <<>>
          BY <3>1, PathFacts, SubSeqEmpty DEF Prefix
        <5> QED
          BY <4>1, <5>1 DEF IsDir
      <4>2. CASE depth[e] # 0
        <5>1. depth[e] \in 1..depth[e]
          BY <1>1, <4>2
        <5> QED
          BY <1>2, <2>2, <3>1, <5>1 DEF DirsMade, ThePath, IsDir, Good
      <4> QED
        BY <4>1, <4>2
    <3> QED
      BY <3>1, <3>3, <3>4, <3>5 DEF CanMake
  <2>3. CASE x = e /\ OpenFails(e)
    <3> DEFINE p == cur[e]
    <3>1. /\ pc[e] = "path" /\ p \in Pages /\ cur'[e] = p /\ ~CanOpen(Path[p])
          /\ Len(Path[p]) > 1 /\ depth[e] + 1 = Len(Path[p])
      BY <1>1, <2>3 DEF OpenFails, Opening, At, ThePath
    <3>2. Parent(Path[p]) = Prefix(Path[p], depth[e]) /\ depth[e] \in 1..depth[e]
      <4>1. depth[e] \in Nat /\ Len(Path[p]) \in Nat
        BY <1>1, <3>1, PathFacts
      <4>2. Len(Path[p]) - 1 = depth[e] /\ depth[e] \in 1..depth[e]
        BY <3>1, <4>1
      <4> QED
        BY <4>2 DEF Parent
    <3>3. IsDir(Parent(Path[p]))
      BY <1>2, <2>3, <3>1, <3>2 DEF DirsMade, ThePath, IsDir, Good
    <3>4. ~IsDir(Path[p])
      <4>1. Path[p] # <<>> /\ Path[p] \in Paths
        BY <3>1, PathType, PathFacts
      <4>2. disk[Path[p]].kind # "dir"
        BY <1>2, <2>3, <3>1, <4>1 DEF DirsAreAbove, Good, PathIsFree
      <4> QED
        BY <4>1, <4>2 DEF IsDir
    <3> QED
      BY <3>1, <3>3, <3>4 DEF CanOpen
  <2>4. CASE x = e /\ Write(e)
    <3>1. PICK p \in Pages : p = cur[e] /\ UNCHANGED cur
                             /\ saved' = IF Size[p] > 0 THEN saved \cup {p} ELSE saved
      BY <2>4, WriteIs
    <3> QED
      BY <2>4, <3>1 DEF Good
  <2>5. x = e => \/ pc[x] = "lex" /\ cur'[x] = cur[x]
                 \/ MkdirFails(e) \/ OpenFails(e) \/ Write(e)
    BY <1>1, StepIs DEF TreeInv, Begins, Decompresses, Leaves, Ends, Walks, Access, Mkdir,
       Open, Goto
  <2> QED
    BY <2>1, <2>2, <2>3, <2>4, <2>5, OthersStay
<1>5. GoodPagesAreSaved'
  <2> SUFFICES ASSUME NEW p \in done', Good(p), InOneQueue(SameSite(p)) PROVE p \in saved'
    BY DEF GoodPagesAreSaved, Good, Decodable, PathIsFree, InOneQueue, SameSite
  <2>1. CASE p \in done
    BY <1>2, <1>3, <2>1 DEF GoodPagesAreSaved
  <2>2. CASE p \notin done
    <3>1. Leaves(e) /\ p = cur[e]
      BY <2>2, StepIs DEF TreeInv, Begins, Decompresses, Leaves, Ends, Walks, Access, Mkdir,
         MkdirFails, Open, OpenFails, Write, localVars
    <3>2. pc[e] = "lex"
      BY <3>1 DEF Leaves, Good
    <3> QED
      BY <1>2, <1>3, <3>1, <3>2 DEF SavedWhenLexed
  <2> QED
    BY <2>1, <2>2
<1> QED
  BY <1>4, <1>5 DEF Saves

LEMMA InitTree == Init => TreeInv
<1> SUFFICES ASSUME Init PROVE TreeInv
  OBVIOUS
<1>1. IInv
  <2>1. DiskType
    BY EmptySeq DEF Init, DiskType, Entries, Nothing
  <2> QED
    BY <2>1, InitPagewise DEF IInv
<1>2. Where
  BY DEF Init, Where, FromQueue, OnTheWay, Elements
<1>3. \A path \in Paths : disk[path].kind = "none"
  BY DEF Init, Nothing
<1>4. \A p \in Pages : Path[p] \in Paths
  BY PathFacts
<1>5. Kinds /\ Way /\ Files /\ Saves
  BY <1>3, <1>4 DEF Init, Kinds, FilesAreEnds, DirsAreAbove, WritesToFiles, Way, DirsMade,
     StillMissing, Files, Emptied, FilesAreWhole, Saves, SavedWhenLexed, GoodPagesAreSaved
<1> QED
  BY <1>1, <1>2, <1>5 DEF TreeInv

LEMMA StutterTree == TreeInv /\ UNCHANGED vars => TreeInv'
<1> SUFFICES ASSUME TreeInv, UNCHANGED vars PROVE TreeInv'
  OBVIOUS
<1>1. IInv'
  BY StutterIInv DEF TreeInv
<1>2. UNCHANGED <<pageq, pc, cur, depth, disk, saved, done>>
  BY DEF vars
<1>3. Where' /\ Kinds'
  BY <1>2 DEF TreeInv, Where, FromQueue, OnTheWay, Kinds, FilesAreEnds, DirsAreAbove,
     WritesToFiles, ThePath
<1>4. Way' /\ Files'
  BY <1>2 DEF TreeInv, Way, DirsMade, StillMissing, Files, Emptied, FilesAreWhole, ThePath, Here,
     InOneQueue, SamePath, SameSite, PathIsFree
<1>5. Saves'
  BY <1>2 DEF TreeInv, Saves, SavedWhenLexed, GoodPagesAreSaved, InOneQueue, SameSite, Good,
     Decodable, PathIsFree
<1> QED
  BY <1>1, <1>3, <1>4, <1>5 DEF TreeInv

LEMMA TreeInvariant == Spec => []TreeInv
<1>1. TreeInv /\ [Next]_vars => TreeInv'
  <2>1. ASSUME TreeInv, NEW e \in Extractors, Step(e) PROVE TreeInv'
    <3>1. IInv'
      BY <2>1, StepPagewise, StepDisk DEF TreeInv, IInv
    <3> QED
      BY <2>1, <3>1, StepWhere, StepKinds, StepWay, StepFiles, StepSaves DEF TreeInv
  <2> QED
    BY <2>1, StutterTree DEF Next
<1> QED
  BY <1>1, InitTree, PTL DEF Spec

-------------------------------------------------------------------------------
(* What comes to an end. *)

\* WorkLeft(e), by the names on the path of the page and the blocks in it.
Left(place, len, d, size, r, again) ==
    LET names == 2 * (len - d)
        attempt == IF again THEN 0 ELSE size + 1
    IN  CASE place = "pop" -> 0
          [] place = "decompress" -> names + 2 * size + 4
          [] place = "inflate" -> names + attempt + (size - r) + 2
          [] place = "path" -> names + 1
          [] place = "mkdir" -> names
          [] place = "write" -> 2
          [] place = "lex" -> 1

LEMMA WorkLeftIs ==
    ASSUME NEW e
    PROVE  /\ WorkLeft(e) = Left(pc[e], Len(ThePath(e)), depth[e], Size[cur[e]], reads[e], dummy[e])
           /\ WorkLeft(e)' = Left(pc'[e], Len(Path[cur'[e]]), depth'[e], Size[cur'[e]],
                                  reads'[e], dummy'[e])
BY DEF WorkLeft, Left, ThePath

\* What an extractor may do to itself, and that it has less left then.
Further(x, len, d, size, r, again, x2, len2, d2, size2, r2, again2) ==
    \/ x = "decompress" /\ d = 0 /\ r = 0 /\ ~again
          /\ x2 \in {"inflate", "path"} /\ len2 = len /\ size2 = size /\ d2 = d
          /\ r2 = r /\ again2 = again
    \/ x \in {"decompress", "inflate"} /\ d = 0 /\ r <= size /\ x2 = "pop"
    \/ x = "inflate" /\ r <= size /\ x2 = "inflate" /\ len2 = len /\ size2 = size /\ d2 = d
          /\ ((r2 = r + 1 /\ again2 = again) \/ (r2 = 0 /\ ~again /\ again2))
    \/ x = "inflate" /\ r <= size /\ x2 = "path" /\ len2 = len /\ d2 = d
    \/ x = "path" /\ len2 = len /\ ((d2 = d + 1 /\ x2 = "path") \/ (d2 = d /\ x2 = "mkdir"))
    \/ x = "path" /\ d + 1 = len /\ x2 \in {"write", "lex"}
    \/ x = "mkdir" /\ d + 1 < len /\ len2 = len /\ ((d2 = d + 1 /\ x2 = "path") \/ x2 = "lex")
    \/ x = "write" /\ x2 = "lex"
    \/ x = "lex" /\ x2 = "pop"

LEMMA LessIsLeft ==
    ASSUME NEW len \in Nat \ {0}, NEW size \in Nat, NEW d \in Nat, NEW d2 \in Nat,
           NEW r \in Nat, NEW r2 \in Nat, NEW again \in BOOLEAN, NEW again2 \in BOOLEAN,
           NEW x, NEW x2, NEW len2, NEW size2,
           Further(x, len, d, size, r, again, x2, len2, d2, size2, r2, again2)
    PROVE  Left(x2, len2, d2, size2, r2, again2) < Left(x, len, d, size, r, again)
BY DEF Left, Further

\* Where an extractor was, and what is known of it there.
LEMMA WorkTypes ==
    ASSUME TreeInv, NEW e \in Extractors
    PROVE  /\ depth[e] \in Nat /\ reads[e] \in Nat /\ dummy[e] \in BOOLEAN
           /\ pc[e] # "pop" =>
                 cur[e] \in Pages /\ Size[cur[e]] \in Nat /\ Len(ThePath(e)) \in Nat \ {0}
           /\ pc[e] = "decompress" => depth[e] = 0 /\ reads[e] = 0 /\ ~dummy[e]
           /\ pc[e] = "inflate" => depth[e] = 0 /\ reads[e] <= Size[cur[e]]
           /\ pc[e] = "path" => depth[e] + 1 <= Len(ThePath(e))
           /\ pc[e] = "mkdir" => depth[e] + 1 < Len(ThePath(e))
<1>1. pc[e] # "pop" => cur[e] \in Pages
  BY DEF TreeInv, IInv, Pagewise, HasPage
<1>2. pc[e] # "pop" => Size[cur[e]] \in Nat /\ Len(ThePath(e)) \in Nat \ {0}
  BY <1>1, SizeType, PathFacts DEF ThePath
<1> QED
  BY <1>1, <1>2 DEF TreeInv, IInv, Pagewise, LocalTypes, HasPage, Counted, Where, OnTheWay

Bounded == \A e \in Extractors : WorkLeft(e) \in Nat

LEMMA WorkIsBounded == TreeInv => Bounded
<1> SUFFICES ASSUME TreeInv, NEW e \in Extractors PROVE WorkLeft(e) \in Nat
  BY DEF Bounded
<1> DEFINE p == cur[e]  len == Len(ThePath(e))  size == Size[p]
<1>1. pc[e] \in Places
  BY DEF TreeInv, IInv, Pagewise, LocalTypes
<1>2. CASE pc[e] = "pop"
  BY <1>2 DEF WorkLeft
<1>3. CASE pc[e] # "pop"
  <2>1. /\ depth[e] \in Nat /\ reads[e] \in Nat /\ len \in Nat \ {0} /\ size \in Nat
        /\ pc[e] \in {"decompress", "inflate"} => depth[e] = 0
        /\ pc[e] = "inflate" => reads[e] <= size
        /\ pc[e] \in {"path", "mkdir"} => depth[e] + 1 <= len
    BY <1>3, WorkTypes
  <2>2. WorkLeft(e) = Left(pc[e], len, depth[e], size, reads[e], dummy[e])
    BY WorkLeftIs
  <2> HIDE DEF p, len, size
  <2> QED
    BY <1>1, <1>3, <2>1, <2>2 DEF Left, Places
<1> QED
  BY <1>2, <1>3

\* Each step of an extractor, also one that would change nothing, takes it further, but
\* for the call of inflate on data that has run out.
LEMMA StepGoesOn ==
    ASSUME TreeInv, Bounded, Bounded', NEW e \in Extractors, Step(e), up', ~Stalls(e)
    PROVE  GoesOn(e)
<1>1. /\ pageq \in [Extractors -> Seq(Pages)] /\ pc \in [Extractors -> Places]
      /\ cur \in [Extractors -> Pages \cup {NoPage}] /\ got \in [Extractors -> Nat]
      /\ reads \in [Extractors -> Nat] /\ dummy \in [Extractors -> BOOLEAN]
      /\ depth \in [Extractors -> Nat]
  BY DEF TreeInv, IInv, Pagewise, LocalTypes
<1> DEFINE p == cur[e]  x == pc[e]  d == depth[e]  r == reads[e]
           len == Len(ThePath(e))  size == Size[p]
<1>2. CASE Pop(e)
  <2>1. pageq[e] \in Seq(Pages) /\ pageq[e] # <<>> /\ pageq'[e] = Tail(pageq[e])
    BY <1>1, <1>2 DEF Pop
  <2>2. Len(pageq'[e]) < Len(pageq[e])
    BY <2>1, HeadTailProperties, LenProperties
  <2> QED
    BY <2>2 DEF GoesOn
<1>3. ASSUME pageq' = pageq, x # "pop",
             /\ depth'[e] \in Nat /\ reads'[e] \in Nat /\ dummy'[e] \in BOOLEAN
             /\ Further(x, len, d, size, r, dummy[e], pc'[e], Len(Path[cur'[e]]), depth'[e],
                        Size[cur'[e]], reads'[e], dummy'[e])
      PROVE  GoesOn(e)
  <2>1. /\ len \in Nat \ {0} /\ size \in Nat /\ d \in Nat /\ r \in Nat /\ dummy[e] \in BOOLEAN
    BY <1>3, WorkTypes
  <2> HIDE DEF p, x, d, r, len, size
  <2>2. Left(pc'[e], Len(Path[cur'[e]]), depth'[e], Size[cur'[e]], reads'[e], dummy'[e])
          < Left(x, len, d, size, r, dummy[e])
    BY <1>3, <2>1, LessIsLeft
  <2>3. WorkLeft(e)' < WorkLeft(e)
    BY <2>2, WorkLeftIs DEF p, x, d, r, len, size
  <2>4. WorkLeft(e) \in Nat /\ WorkLeft(e)' \in Nat
    BY DEF Bounded
  <2> QED
    BY <1>3, <2>3, <2>4 DEF GoesOn
<1>4. CASE PlainText(e) \/ StartInflate(e)
  <2>1. /\ x = "decompress" /\ pc'[e] \in {"inflate", "path"}
        /\ UNCHANGED <<pageq, cur, reads, dummy, depth>>
    BY <1>1, <1>4 DEF PlainText, StartInflate, At, Goto, localVars
  <2> QED
    BY <1>3, <2>1, WorkTypes DEF ThePath, Further
<1>5. CASE UnknownEncoding(e) \/ InflateFails(e)
  <2>1. /\ x \in {"decompress", "inflate"} /\ pc'[e] = "pop"
        /\ UNCHANGED <<pageq, reads, dummy, depth>>
    BY <1>1, <1>5 DEF UnknownEncoding, InflateFails, Failed, Inflating, At, NextPage, Goto,
                      localVars
  <2> QED
    BY <1>3, <2>1, WorkTypes DEF Further
<1>6. CASE InflateGoesOn(e)
  <2>1. x = "inflate" /\ UNCHANGED <<pageq, pc, cur, dummy, depth>>
    BY <1>6 DEF InflateGoesOn, Inflating, At
  <2>2. Result(e) = "Z_OK"
    BY <1>6, <2>1 DEF InflateGoesOn, Inflating, Stalls
  <2>3. reads' = [reads EXCEPT ![e] = @ + 1]
    BY <1>6, <2>2 DEF InflateGoesOn
  <2>4. reads'[e] = r + 1
    BY <1>1, <2>3
  <2>5. /\ depth'[e] \in Nat /\ reads'[e] \in Nat /\ dummy'[e] \in BOOLEAN
        /\ pc'[e] = "inflate" /\ Len(Path[cur'[e]]) = len /\ Size[cur'[e]] = size
        /\ r <= size
    BY <1>1, <2>1, <2>4, WorkTypes DEF ThePath
  <2>6. Further(x, len, d, size, r, dummy[e], pc'[e], Len(Path[cur'[e]]), depth'[e],
              Size[cur'[e]], reads'[e], dummy'[e])
    BY <1>1, <2>1, <2>4, <2>5 DEF Further
  <2> QED
    BY <1>3, <2>1, <2>5, <2>6
<1>7. CASE InflateDummy(e)
  <2>1. /\ x = "inflate" /\ ~dummy[e] /\ dummy'[e] = TRUE /\ reads'[e] = 0
        /\ UNCHANGED <<pageq, pc, cur, depth>>
    BY <1>1, <1>7 DEF InflateDummy, Inflating, At
  <2> QED
    BY <1>3, <2>1, WorkTypes DEF ThePath, Further
<1>8. CASE InflateEnds(e)
  <2>1. /\ x = "inflate" /\ pc'[e] = "path" /\ UNCHANGED <<pageq, cur, reads, dummy, depth>>
    BY <1>1, <1>8 DEF InflateEnds, Inflating, At, Goto
  <2> QED
    BY <1>3, <2>1, WorkTypes DEF ThePath, Further
<1>9. CASE NoName(e) \/ ExtractFromNothing(e)
  BY <1>9 DEF NoName, ExtractFromNothing
<1>10. CASE Access(e)
  <2>1. /\ x = "path" /\ UNCHANGED <<pageq, cur, reads, dummy>>
        /\ \/ depth'[e] = d + 1 /\ pc'[e] = "path"
           \/ depth'[e] = d /\ pc'[e] = "mkdir"
    BY <1>1, <1>10 DEF Access, At, Goto
  <2>2. /\ depth'[e] \in Nat /\ reads'[e] \in Nat /\ dummy'[e] \in BOOLEAN
        /\ Len(Path[cur'[e]]) = len
    BY <1>1, <2>1, WorkTypes DEF ThePath
  <2>3. Further(x, len, d, size, r, dummy[e], pc'[e], Len(Path[cur'[e]]), depth'[e],
              Size[cur'[e]], reads'[e], dummy'[e])
    BY <1>1, <2>1, <2>2 DEF Further
  <2> QED
    BY <1>3, <2>1, <2>2, <2>3
<1>11. CASE Mkdir(e)
  <2>1. /\ x = "mkdir" /\ pc'[e] = "path" /\ depth'[e] = d + 1
        /\ UNCHANGED <<pageq, cur, reads, dummy>>
    BY <1>1, <1>11 DEF Mkdir, At, Goto
  <2> QED
    BY <1>3, <2>1, WorkTypes DEF ThePath, Further
<1>12. CASE MkdirFails(e)
  <2>1. x = "mkdir" /\ pc'[e] = "lex" /\ UNCHANGED <<pageq, cur, reads, dummy, depth>>
    BY <1>1, <1>12 DEF MkdirFails, At, Goto, localVars
  <2> QED
    BY <1>3, <2>1, WorkTypes DEF ThePath, Further
<1>13. CASE Open(e) \/ OpenFails(e)
  <2>1. /\ x = "path" /\ d + 1 = len /\ pc'[e] \in {"write", "lex"}
        /\ UNCHANGED <<pageq, cur, reads, dummy, depth>>
    BY <1>1, <1>13 DEF Open, OpenFails, Opening, At, Goto, localVars
  <2> QED
    BY <1>3, <2>1, WorkTypes DEF ThePath, Further
<1>14. CASE Write(e)
  <2>1. x = "write" /\ pc'[e] = "lex" /\ UNCHANGED <<pageq, cur, reads, dummy, depth>>
    BY <1>1, <1>14 DEF Write, At, Goto, localVars
  <2> QED
    BY <1>3, <2>1, WorkTypes DEF ThePath, Further
<1>15. CASE ExtractLinks(e)
  <2>1. x = "lex" /\ pc'[e] = "pop" /\ UNCHANGED <<pageq, reads, dummy, depth>>
    BY <1>1, <1>15 DEF ExtractLinks, At, NextPage, Goto, localVars
  <2> QED
    BY <1>3, <2>1, WorkTypes DEF Further
<1> HIDE DEF p, x, d, r, len, size
<1> QED
  BY <1>2, <1>4, <1>5, <1>6, <1>7, <1>8, <1>9, <1>10, <1>11, <1>12, <1>13, <1>14, <1>15 DEF Step

\* The others stay where they are.
LEMMA OthersWait ==
    ASSUME TreeInv, NEW e \in Extractors, Step(e), NEW f \in Extractors \ {e}
    PROVE  Waits(f)
<1>1. /\ pageq \in [Extractors -> Seq(Pages)] /\ pc \in [Extractors -> Places]
      /\ cur \in [Extractors -> Pages \cup {NoPage}] /\ got \in [Extractors -> Nat]
      /\ reads \in [Extractors -> Nat] /\ dummy \in [Extractors -> BOOLEAN]
      /\ depth \in [Extractors -> Nat]
  BY DEF TreeInv, IInv, Pagewise, LocalTypes
<1> USE <1>1 DEF Waits, At, Goto, NextPage, localVars
<1>2. CASE Pop(e)
  BY <1>2 DEF Pop
<1>3. CASE PlainText(e) \/ UnknownEncoding(e) \/ StartInflate(e)
  BY <1>3 DEF PlainText, UnknownEncoding, StartInflate
<1>4. CASE InflateGoesOn(e) \/ InflateEnds(e)
  BY <1>4 DEF InflateGoesOn, InflateEnds
<1>5. CASE InflateDummy(e) \/ InflateFails(e)
  BY <1>5 DEF InflateDummy, InflateFails
<1>6. CASE NoName(e) \/ ExtractLinks(e) \/ ExtractFromNothing(e)
  BY <1>6 DEF NoName, ExtractLinks, ExtractFromNothing
<1>7. CASE Access(e) \/ Mkdir(e) \/ MkdirFails(e)
  BY <1>7 DEF Access, Mkdir, MkdirFails
<1>8. CASE Open(e) \/ OpenFails(e) \/ Write(e)
  BY <1>8 DEF Open, OpenFails, Write
<1> QED
  BY <1>2, <1>3, <1>4, <1>5, <1>6, <1>7, <1>8 DEF Step

\* On data that has run out only inflate is called, and it changes nothing.
LEMMA StalledStays ==
    ASSUME NEW e \in Extractors, Step(e), Stalls(e), TreeInv PROVE vars' = vars
<1>1. pc[e] = "inflate" /\ Result(e) = "Z_BUF_ERROR"
  BY DEF Stalls
<1>2. InflateGoesOn(e)
  BY <1>1 DEF Step, Pop, PlainText, UnknownEncoding, StartInflate, InflateEnds, InflateDummy,
     InflateFails, Failed, Inflating, NoName, Access, Mkdir, MkdirFails, Open, OpenFails,
     Opening, Write, ExtractLinks, ExtractFromNothing, At
<1>3. /\ got' = [got EXCEPT ![e] = @ + 0] /\ reads' = [reads EXCEPT ![e] = @ + 0]
      /\ UNCHANGED <<pageq, pc, cur, dummy, caches, depth, disk, saved, done, up>>
  BY <1>1, <1>2 DEF InflateGoesOn
<1>4. got \in [Extractors -> Nat] /\ reads \in [Extractors -> Nat]
  BY DEF TreeInv, IInv, Pagewise, LocalTypes
<1>5. got' = got /\ reads' = reads
  BY <1>3, <1>4
<1> QED
  BY <1>3, <1>5 DEF vars

\* main_loop: no step takes an extractor back, and each that changes anything takes one
\* further through its pages or ends the process; the only turn of a loop that changes
\* nothing is inflate on data that has run out (StepGoesOn), and from there the
\* extractor never gets further.
THEOREM ExtractorsOnlyGoForward == Spec => ExtractorsGoForward
<1> DEFINE Forward ==
        up' => \E e \in Extractors :
                  GoesOn(e) /\ ~Stalls(e) /\ \A f \in Extractors \ {e} : Waits(f)
<1>1. TreeInv /\ Bounded /\ Bounded' /\ [Next]_vars => [Forward]_vars
  <2> SUFFICES ASSUME TreeInv, Bounded, Bounded', Next, vars' # vars, up' PROVE Forward
    OBVIOUS
  <2>1. PICK e \in Extractors : Step(e)
    BY DEF Next
  <2>2. ~Stalls(e)
    BY <2>1, StalledStays
  <2> QED
    BY <2>1, <2>2, StepGoesOn, OthersWait
<1> HIDE DEF Forward
<1>2. Spec => [][Forward]_vars
  BY <1>1, TreeInvariant, WorkIsBounded, PTL DEF Spec
<1> DEFINE Stuck == \A e \in Extractors : Stalls(e) => Waits(e)
<1>3. TreeInv /\ [Next]_vars => [Stuck]_vars
  <2> SUFFICES ASSUME TreeInv, Next, vars' # vars, NEW e \in Extractors, Stalls(e)
               PROVE Waits(e)
    OBVIOUS
  <2>1. PICK f \in Extractors : Step(f)
    BY DEF Next
  <2>2. f # e
    BY <2>1, StalledStays
  <2> QED
    BY <2>1, <2>2, OthersWait
<1> HIDE DEF Stuck
<1>4. Spec => [][Stuck]_vars
  BY <1>3, TreeInvariant, PTL DEF Spec
<1> QED
  BY <1>2, <1>4 DEF ExtractorsGoForward, Forward, Stuck

-------------------------------------------------------------------------------
(* The extractors are a stage. *)

\* Each extractor works through its queue in turn: so many pages of it are taken, and
\* those before the one in hand are done, and no others.
Taken(e) == Len(Queued[e]) - Len(pageq[e])
Finished(e) == IF cur[e] = NoPage THEN Taken(e) ELSE Taken(e) - 1
Turn(e) ==
    /\ Finished(e) >= 0
    /\ pc[e] = "pop" <=> cur[e] = NoPage
    /\ cur[e] # NoPage => cur[e] = Queued[e][Taken(e)]
    /\ \A i \in 1..Len(pageq[e]) : pageq[e][i] = Queued[e][Taken(e) + i]
    /\ \A i \in 1..Len(Queued[e]) : Queued[e][i] \in done <=> i <= Finished(e)
InTurn == \A e \in Extractors : Turn(e)

LEMMA InitTurn == Init => InTurn
<1> SUFFICES ASSUME Init, NEW e \in Extractors PROVE Turn(e)
  BY DEF InTurn
<1>1. Len(Queued[e]) \in Nat
  BY QueuedType
<1>2. pageq[e] = Queued[e] /\ cur[e] = NoPage /\ pc[e] = "pop" /\ done = {}
  BY DEF Init
<1>3. Taken(e) = 0
  BY <1>1, <1>2 DEF Taken
<1>4. Finished(e) = 0
  BY <1>2, <1>3 DEF Finished
<1> QED
  BY <1>1, <1>2, <1>3, <1>4 DEF Turn

LEMMA Difference ==
    ASSUME NEW m \in Nat, NEW n \in Nat, NEW k, k = m - n
    PROVE  /\ k \in Int /\ k <= m /\ (n >= 1 => k + 1 <= m)
           /\ k >= 0 => k \in 0..m
           /\ k - 1 >= 0 => k \in 1..m
           /\ \A j \in 1..n : k + j > k /\ k + j <= m
           /\ \A i \in 1..m : i > k => i - k \in 1..n
OBVIOUS

\* The queue of an extractor, how far it is taken, and that a page is in one place of it.
LEMMA TurnTypes ==
    ASSUME IInv, InTurn, NEW e \in Extractors
    PROVE  /\ Queued[e] \in Seq(Pages) /\ Len(Queued[e]) \in Nat
           /\ pageq[e] \in Seq(Pages) /\ Len(pageq[e]) \in Nat
           /\ Taken(e) \in 0..Len(Queued[e]) /\ Finished(e) \in {Taken(e), Taken(e) - 1}
           /\ cur[e] # NoPage => Taken(e) \in 1..Len(Queued[e])
           /\ \A i \in 1..Len(Queued[e]) : Queued[e][i] \in Pages
<1>1. /\ Queued[e] \in Seq(Pages) /\ Len(Queued[e]) \in Nat
      /\ pageq[e] \in Seq(Pages) /\ Len(pageq[e]) \in Nat
  BY QueuedType DEF IInv, Pagewise, LocalTypes
<1>2. Finished(e) >= 0
  BY DEF InTurn, Turn
<1>3. /\ Taken(e) \in 0..Len(Queued[e]) /\ Finished(e) \in {Taken(e), Taken(e) - 1}
      /\ cur[e] # NoPage => Taken(e) \in 1..Len(Queued[e])
  <2>1. /\ Taken(e) \in Int /\ (Taken(e) >= 0 => Taken(e) \in 0..Len(Queued[e]))
        /\ Taken(e) - 1 >= 0 => Taken(e) \in 1..Len(Queued[e])
    BY <1>1, Difference DEF Taken
  <2>2. Finished(e) = (IF cur[e] = NoPage THEN Taken(e) ELSE Taken(e) - 1)
    BY DEF Finished
  <2>3. Taken(e) - 1 >= 0 => Taken(e) >= 0
    BY <2>1
  <2> QED
    BY <1>2, <2>1, <2>2, <2>3
<1> QED
  BY <1>1, <1>3, ElementOfSeq

LEMMA TurnStays ==
    ASSUME InTurn, NEW x \in Extractors,
           pageq'[x] = pageq[x], cur'[x] = cur[x], pc'[x] = "pop" <=> pc[x] = "pop",
           \A i \in 1..Len(Queued[x]) : Queued[x][i] \in done' <=> Queued[x][i] \in done
    PROVE  Turn(x)'
BY DEF InTurn, Turn, Finished, Taken

LEMMA StepTurn ==
    ASSUME IInv, InTurn, NEW e \in Extractors, Step(e)
    PROVE  InTurn'
<1> SUFFICES ASSUME NEW x \in Extractors PROVE Turn(x)'
  BY DEF InTurn
<1>1. /\ pc \in [Extractors -> Places] /\ cur \in [Extractors -> Pages \cup {NoPage}]
      /\ pageq \in [Extractors -> Seq(Pages)]
  BY DEF IInv, Pagewise, LocalTypes
<1>2. Turn(e)
  BY DEF InTurn
<1>3. CASE Begins(e)
  <2>1. CASE x # e
    BY <1>1, <1>3, <2>1, TurnStays DEF Begins
  <2>2. CASE x = e
    <3>1. /\ pageq[e] \in Seq(Pages) /\ pageq[e] # <<>> /\ pageq'[e] = Tail(pageq[e])
          /\ cur'[e] = Head(pageq[e]) /\ cur[e] = NoPage /\ done' = done
          /\ pc'[e] = "decompress"
      BY <1>1, <1>2, <1>3 DEF Begins, Turn
    <3>2. /\ Len(pageq[e]) >= 1 /\ Len(pageq'[e]) = Len(pageq[e]) - 1
          /\ cur'[e] = pageq[e][1] /\ cur'[e] \in Pages
          /\ \A i \in 1..Len(pageq'[e]) : pageq'[e][i] = pageq[e][i + 1]
      BY <3>1
    <3>3. Len(Queued[e]) \in Nat /\ Len(pageq[e]) \in Nat /\ Taken(e) \in Nat
      BY TurnTypes
    <3>4. cur'[e] # NoPage
      BY <3>2, NoPageIsNoPage
    <3>5. Taken(e)' = Taken(e) + 1 /\ Finished(e)' = Taken(e) /\ Finished(e) = Taken(e)
      <4>1. Taken(e)' = Taken(e) + 1
        BY <3>2, <3>3 DEF Taken
      <4>2. Finished(e)' = Taken(e)' - 1 /\ Finished(e) = Taken(e)
        BY <3>1, <3>4 DEF Finished
      <4> QED
        BY <3>3, <4>1, <4>2
    <3>6. pageq[e][1] = Queued[e][Taken(e) + 1]
      BY <1>2, <3>2, <3>3 DEF Turn
    <3>7. ASSUME NEW i \in 1..Len(pageq'[e]) PROVE pageq'[e][i] = Queued[e][Taken(e)' + i]
      <4>1. pageq'[e][i] = pageq[e][i + 1] /\ i + 1 \in 1..Len(pageq[e])
        BY <3>2, <3>3
      <4>2. pageq[e][i + 1] = Queued[e][Taken(e) + (i + 1)]
        BY <1>2, <4>1 DEF Turn
      <4>3. Taken(e) + (i + 1) = Taken(e)' + i
        BY <3>3, <3>5
      <4> QED
        BY <4>1, <4>2, <4>3
    <3>8. \A i \in 1..Len(Queued[e]) : Queued[e][i] \in done' <=> i <= Finished(e)'
      BY <1>2, <3>1, <3>5 DEF Turn
    <3> QED
      BY <2>2, <3>1, <3>2, <3>3, <3>4, <3>5, <3>6, <3>7, <3>8 DEF Turn
  <2> QED
    BY <2>1, <2>2
<1>4. CASE Leaves(e)
  <2>1. /\ cur[e] # NoPage /\ cur[e] = Queued[e][Taken(e)] /\ Taken(e) \in 1..Len(Queued[e])
        /\ pageq' = pageq /\ done' = done \cup {cur[e]}
        /\ pc'[e] = "pop" /\ cur'[e] = NoPage
    BY <1>1, <1>2, <1>4, TurnTypes DEF Leaves, Turn
  <2>2. CASE x # e
    <3>1. \A i \in 1..Len(Queued[x]) : Queued[x][i] # cur[e]
      BY <2>1, <2>2, PagesAreObjects
    <3> QED
      BY <1>1, <1>4, <2>1, <2>2, <3>1, TurnStays DEF Leaves
  <2>3. CASE x = e
    <3>1. Taken(e)' = Taken(e) /\ Finished(e)' = Taken(e) /\ Finished(e) = Taken(e) - 1
      BY <2>1 DEF Taken, Finished
    <3>2. \A i \in 1..Len(Queued[e]) : Queued[e][i] = cur[e] <=> i = Taken(e)
      BY <2>1, PagesAreObjects
    <3>3. \A i \in 1..Len(Queued[e]) : Queued[e][i] \in done' <=> i <= Finished(e)'
      BY <1>2, <2>1, <3>1, <3>2 DEF Turn
    <3> QED
      BY <1>2, <2>1, <2>3, <3>1, <3>3 DEF Turn
  <2> QED
    BY <2>2, <2>3
<1>5. CASE Decompresses(e)
  <2>1. pageq' = pageq /\ cur' = cur /\ done' = done /\ pc'[e] # "pop" /\ pc[e] # "pop"
    BY <1>1, <1>5 DEF Decompresses
  <2>2. x # e => pc'[x] = pc[x]
    BY <1>1, <1>5 DEF Decompresses
  <2> QED
    BY <2>1, <2>2, TurnStays
<1>6. CASE Ends
  BY <1>6, TurnStays DEF Ends
<1>7. CASE Walks(e)
  <2>1. /\ pageq' = pageq /\ cur' = cur /\ done' = done
        /\ pc'[e] # "pop" /\ pc[e] # "pop" /\ (x # e => pc'[x] = pc[x])
    BY <1>1, <1>7 DEF Walks, Access, Mkdir, MkdirFails, Open, OpenFails, Opening, Write,
                      At, Goto
  <2> QED
    BY <2>1, TurnStays
<1> QED
  BY <1>3, <1>4, <1>5, <1>6, <1>7, StepIs

\* A page of a queue that is not done is in one place, and one that is done in none.
LEMMA OneSpot ==
    ASSUME IInv, InTurn, NEW p \in PagesQueued
    PROVE  PlaceOf(p) = WherePut(p)
<1>1. PICK e \in Extractors : \E i \in 1..Len(Queued[e]) : Queued[e][i] = p
  BY DEF PagesQueued, Elements
<1>2. PICK i \in 1..Len(Queued[e]) : Queued[e][i] = p
  BY <1>1
<1>3. p \in done <=> i <= Finished(e)
  BY <1>2 DEF InTurn, Turn
<1>4. ASSUME NEW f \in Extractors
      PROVE  /\ DOMAIN Has(f) = 1..(Len(pageq[f]) + 1) /\ Has(f)[1] = cur[f]
             /\ \A n \in 1..Len(pageq[f]) : Has(f)[n + 1] = pageq[f][n]
  <2>1. pageq[f] \in Seq(Pages \cup {NoPage}) /\ <<cur[f]>> \in Seq(Pages \cup {NoPage})
    BY DEF IInv, Pagewise, LocalTypes
  <2> QED
    BY <2>1 DEF Has
<1>5. ASSUME NEW f \in Extractors, NEW n \in DOMAIN Has(f), Has(f)[n] = p
      PROVE  f = e /\ i > Finished(e) /\ n = i - Taken(e) + 1
  <2>1. /\ Taken(f) \in 0..Len(Queued[f]) /\ Len(Queued[f]) \in Nat /\ Len(pageq[f]) \in Nat
        /\ Taken(f) = Len(Queued[f]) - Len(pageq[f]) /\ p \in Pages
    BY <1>2, TurnTypes DEF Taken
  <2>2. CASE n = 1
    <3>1. cur[f] = p /\ cur[f] # NoPage
      BY <1>4, <1>5, <2>1, <2>2, NoPageIsNoPage
    <3>2. Queued[f][Taken(f)] = p /\ Taken(f) \in 1..Len(Queued[f])
      BY <3>1, TurnTypes DEF InTurn, Turn
    <3>3. f = e /\ Taken(f) = i
      BY <1>2, <3>2, PagesAreObjects
    <3> QED
      BY <2>1, <2>2, <3>1, <3>3 DEF Finished
  <2>3. CASE n # 1
    <3>1. n - 1 \in 1..Len(pageq[f]) /\ n = (n - 1) + 1
      BY <1>4, <2>1, <2>3
    <3>2. pageq[f][n - 1] = p
      BY <1>4, <1>5, <3>1
    <3>3. Queued[f][Taken(f) + (n - 1)] = p
      BY <3>1, <3>2 DEF InTurn, Turn
    <3>4. PICK k : k = Taken(f) + (n - 1)
      OBVIOUS
    <3>5. k \in 1..Len(Queued[f]) /\ k > Taken(f) /\ n = k - Taken(f) + 1
      <4>1. k > Taken(f) /\ k <= Len(Queued[f])
        BY <2>1, <3>1, <3>4, Difference
      <4>2. Taken(f) \in Int /\ n \in Int /\ Len(Queued[f]) \in Nat
        BY <1>4, <2>1
      <4>3. k \in Int /\ n = k - Taken(f) + 1
        BY <3>4, <4>2
      <4>4. Taken(f) >= 0
        BY <2>1
      <4> QED
        BY <4>1, <4>2, <4>3, <4>4
    <3>6. f = e /\ k = i
      BY <1>2, <3>3, <3>4, <3>5, PagesAreObjects
    <3>7. Finished(e) \in {Taken(e), Taken(e) - 1} /\ Taken(e) \in Nat
      BY TurnTypes
    <3> QED
      BY <3>5, <3>6, <3>7
  <2> QED
    BY <2>2, <2>3
<1>6. CASE p \in done
  <2>1. Spots(p) = {}
    BY <1>3, <1>5, <1>6, TurnTypes DEF Spots
  <2> QED
    BY <1>6, <2>1, FS_EmptySet DEF PlaceOf
<1>7. CASE p \notin done
  <2> DEFINE n == i - Taken(e) + 1
  <2>1. i > Finished(e) /\ Taken(e) \in Nat /\ Finished(e) \in Nat /\ Len(pageq[e]) \in Nat
    BY <1>3, <1>7, TurnTypes DEF InTurn, Turn
  <2>2. n \in DOMAIN Has(e) /\ Has(e)[n] = p
    <3>1. CASE i = Taken(e)
      <4>1. cur[e] # NoPage
        BY <2>1, <3>1 DEF Finished
      <4>2. cur[e] = p
        BY <1>2, <3>1, <4>1 DEF InTurn, Turn
      <4> QED
        BY <1>4, <2>1, <3>1, <4>2
    <3>2. CASE i # Taken(e)
      <4>1. i - Taken(e) \in 1..Len(pageq[e])
        <5>1. Finished(e) \in {Taken(e), Taken(e) - 1} /\ Len(Queued[e]) \in Nat
          BY TurnTypes
        <5>2. i > Taken(e)
          BY <2>1, <3>2, <5>1
        <5> QED
          BY <2>1, <5>1, <5>2, Difference DEF Taken
      <4>2. pageq[e][i - Taken(e)] = Queued[e][Taken(e) + (i - Taken(e))]
        BY <4>1 DEF InTurn, Turn
      <4>3. pageq[e][i - Taken(e)] = p
        BY <1>2, <2>1, <4>2
      <4> QED
        BY <1>4, <2>1, <4>1, <4>3
    <3> QED
      BY <3>1, <3>2
  <2> HIDE DEF n
  <2>3. Spots(p) = {<<e, n>>}
    BY <1>5, <2>2 DEF Spots, n
  <2> QED
    BY <1>7, <2>3, FS_Singleton DEF PlaceOf
<1> QED
  BY <1>6, <1>7

PlacesNow == [p \in PagesQueued |-> PlaceOf(p)]
PlacesPut == [p \in PagesQueued |-> WherePut(p)]
Mapped == PlacesNow = PlacesPut

LEMMA PlacesAreKnown == IInv /\ InTurn => Mapped
BY OneSpot DEF Mapped, PlacesNow, PlacesPut

\* The page in hand is one of a queue, in no other hands and not done.
LEMMA InHand ==
    ASSUME IInv, InTurn, NEW e \in Extractors, cur[e] # NoPage
    PROVE  /\ cur[e] \in PagesQueued /\ cur[e] \notin done
           /\ \A x \in Extractors : cur[x] = cur[e] => x = e
<1>1. /\ cur[e] = Queued[e][Taken(e)] /\ Taken(e) \in 1..Len(Queued[e])
      /\ Finished(e) = Taken(e) - 1
  BY TurnTypes DEF InTurn, Turn, Finished
<1>2. cur[e] \in PagesQueued
  BY <1>1 DEF PagesQueued, Elements
<1>3. cur[e] \notin done
  BY <1>1 DEF InTurn, Turn
<1>4. ASSUME NEW x \in Extractors, cur[x] = cur[e] PROVE x = e
  <2>1. cur[x] = Queued[x][Taken(x)] /\ Taken(x) \in 1..Len(Queued[x])
    BY <1>4, TurnTypes DEF InTurn, Turn
  <2> QED
    BY <1>1, <1>4, <2>1, PagesAreObjects
<1> QED
  BY <1>2, <1>3, <1>4

\* What a step does to the places: an extractor takes a page, ends with it, or nothing.
LEMMA StepPut ==
    ASSUME IInv, InTurn, InTurn', NEW e \in Extractors, Step(e)
    PROVE  \/ UNCHANGED PlacesPut
           \/ \E p \in PagesQueued :
                 \/ AsStage!Takes(p, PlacesPut, PlacesPut')
                 \/ AsStage!Passes(p, PlacesPut, PlacesPut')
                 \/ AsStage!Loses({p}, PlacesPut, PlacesPut')
<1>1. /\ pc \in [Extractors -> Places] /\ cur \in [Extractors -> Pages \cup {NoPage}]
      /\ pageq \in [Extractors -> Seq(Pages)]
  BY DEF IInv, Pagewise, LocalTypes
<1>2. ASSUME UNCHANGED <<cur, saved, done>> PROVE UNCHANGED PlacesPut
  BY <1>2 DEF PlacesPut, WherePut
<1>3. CASE Begins(e)
  <2>1. PICK p : p = Head(pageq[e])
    OBVIOUS
  <2>2. /\ p = pageq[e][1] /\ 1 \in 1..Len(pageq[e]) /\ p \in Pages
        /\ cur' = [cur EXCEPT ![e] = p] /\ UNCHANGED <<saved, done>>
        /\ pc[e] = "pop" /\ cur[e] = NoPage
    BY <1>1, <1>3, <2>1 DEF Begins, InTurn, Turn
  <2>3. /\ p = Queued[e][Taken(e) + 1] /\ Finished(e) = Taken(e)
        /\ Taken(e) + 1 \in 1..Len(Queued[e])
    <3>1. Len(Queued[e]) \in Nat /\ Len(pageq[e]) \in Nat
      BY TurnTypes
    <3>2. Taken(e) + 1 \in 1..Len(Queued[e])
      <4>1. Len(pageq[e]) >= 1
        BY <2>2, <3>1
      <4>2. Taken(e) + 1 <= Len(Queued[e])
        BY <3>1, <4>1, Difference DEF Taken
      <4>3. Taken(e) \in Nat
        BY TurnTypes
      <4> QED
        BY <3>1, <4>2, <4>3
    <3>3. pageq[e][1] = Queued[e][Taken(e) + 1]
      BY <2>2 DEF InTurn, Turn
    <3> QED
      BY <2>2, <3>2, <3>3 DEF Finished
  <2>4. p \in PagesQueued
    BY <2>3 DEF PagesQueued, Elements
  <2>5. p \notin done
    BY <2>3, TurnTypes DEF InTurn, Turn
  <2>6. ASSUME NEW x \in Extractors PROVE cur[x] # p
    <3>1. CASE cur[x] = NoPage
      BY <2>2, <3>1, NoPageIsNoPage
    <3>2. CASE cur[x] # NoPage
      <4>1. cur[x] = Queued[x][Taken(x)] /\ Taken(x) \in 1..Len(Queued[x])
        BY <3>2, TurnTypes DEF InTurn, Turn
      <4>2. x # e
        BY <2>2, <3>2
      <4> QED
        BY <2>3, <4>1, <4>2, PagesAreObjects
    <3> QED
      BY <3>1, <3>2
  <2>7. WherePut(p) = "coming" /\ WherePut(p)' = "held"
    BY <1>1, <2>2, <2>5, <2>6 DEF WherePut
  <2>8. ASSUME NEW q \in PagesQueued, q # p PROVE WherePut(q)' = WherePut(q)
    <3>1. q # NoPage
      BY <2>8, NoPageIsNoPage, TurnTypes DEF PagesQueued, Elements
    <3>2. (\E x \in Extractors : cur'[x] = q) <=> (\E x \in Extractors : cur[x] = q)
      BY <1>1, <2>2, <2>8, <3>1
    <3> QED
      BY <2>2, <3>2 DEF WherePut
  <2>9. PlacesPut' = [PlacesPut EXCEPT ![p] = "held"] /\ PlacesPut[p] = "coming"
    BY <2>4, <2>7, <2>8 DEF PlacesPut
  <2> QED
    BY <2>4, <2>9 DEF AsStage!Takes
<1>4. CASE Leaves(e)
  <2>1. PICK p : p = cur[e]
    OBVIOUS
  <2>2. /\ p # NoPage /\ cur' = [cur EXCEPT ![e] = NoPage] /\ done' = done \cup {p}
        /\ UNCHANGED saved
    BY <1>1, <1>4, <2>1 DEF Leaves, InTurn, Turn
  <2>3. p \in PagesQueued /\ p \notin done
    BY <2>1, <2>2, InHand
  <2>4. WherePut(p) = "held" /\ WherePut(p)' = (IF p \in saved THEN "passed" ELSE "lost")
    BY <2>1, <2>2, <2>3 DEF WherePut
  <2>5. ASSUME NEW q \in PagesQueued, q # p PROVE WherePut(q)' = WherePut(q)
    <3>1. q # NoPage
      BY <2>5, NoPageIsNoPage, TurnTypes DEF PagesQueued, Elements
    <3>2. (\E x \in Extractors : cur'[x] = q) <=> (\E x \in Extractors : cur[x] = q)
      BY <1>1, <2>1, <2>2, <2>5, <3>1
    <3> QED
      BY <2>2, <2>5, <3>2 DEF WherePut
  <2>6. PlacesPut[p] = "held"
    BY <2>3, <2>4 DEF PlacesPut
  <2>7. CASE p \in saved
    <3>1. PlacesPut' = [PlacesPut EXCEPT ![p] = "passed"]
      BY <2>3, <2>4, <2>5, <2>7 DEF PlacesPut
    <3> QED
      BY <2>3, <2>6, <3>1 DEF AsStage!Passes
  <2>8. CASE p \notin saved
    <3>1. PlacesPut' = [q \in PagesQueued |-> IF q \in {p} THEN "lost" ELSE PlacesPut[q]]
      BY <2>3, <2>4, <2>5, <2>8 DEF PlacesPut
    <3> QED
      BY <2>3, <2>6, <3>1 DEF AsStage!Loses
  <2> QED
    BY <2>7, <2>8
<1>5. CASE Decompresses(e) \/ Ends
  BY <1>2, <1>5 DEF Decompresses, Ends
<1>6. CASE Walks(e)
  <2>1. UNCHANGED <<cur, done>>
    BY <1>6 DEF Walks, Access, Mkdir, MkdirFails, Open, OpenFails, Write
  <2>2. CASE UNCHANGED saved
    BY <1>2, <2>1, <2>2
  <2>3. CASE ~UNCHANGED saved
    <3>1. saved' = saved \cup {cur[e]} /\ pc[e] = "write"
      BY <1>6, <2>3 DEF Walks, Access, Mkdir, MkdirFails, Open, OpenFails, Write, At
    <3>2. cur[e] \notin done
      BY <3>1, InHand DEF InTurn, Turn
    <3> QED
      BY <2>1, <3>1, <3>2 DEF PlacesPut, WherePut
  <2> QED
    BY <2>2, <2>3
<1> QED
  BY <1>3, <1>4, <1>5, <1>6, StepIs

\* main_loop takes each page of its queue once and is finished with it once, saved or
\* not, whatever the other extractors do; a page that is done is never saved later.
THEOREM ExtractorsAreAStage == Spec => ImplementsStage
<1>1. Init /\ Mapped => AsStage!Init
  <2> SUFFICES ASSUME Init, Mapped PROVE AsStage!Init
    OBVIOUS
  <2>1. \A p \in PagesQueued : WherePut(p) \in {"coming", "held"}
    BY DEF Init, WherePut
  <2>2. PlacesNow \in [PagesQueued -> {"coming", "held"}]
    BY <2>1 DEF Mapped, PlacesNow, PlacesPut
  <2> QED
    BY <2>2 DEF AsStage!Init, PlacesNow
<1>2. IInv /\ InTurn /\ [Next]_vars => InTurn'
  <2>1. IInv /\ InTurn /\ Next => InTurn'
    BY StepTurn DEF Next
  <2>2. InTurn /\ UNCHANGED vars => InTurn'
    BY TurnStays DEF vars, InTurn
  <2> QED
    BY <2>1, <2>2
<1>3. IInv /\ InTurn /\ InTurn' /\ Mapped /\ Mapped' /\ [Next]_vars => [AsStage!Next]_PlacesNow
  <2> SUFFICES ASSUME IInv, InTurn, InTurn', Mapped, Mapped', [Next]_vars
               PROVE  [AsStage!Next]_PlacesNow
    OBVIOUS
  <2>1. PlacesNow = PlacesPut /\ PlacesNow' = PlacesPut'
    BY DEF Mapped
  <2>2. CASE UNCHANGED PlacesPut
    BY <2>1, <2>2
  <2>3. ASSUME NEW p \in PagesQueued,
               \/ AsStage!Takes(p, PlacesNow, PlacesNow')
               \/ AsStage!Passes(p, PlacesNow, PlacesNow')
               \/ AsStage!Loses({p}, PlacesNow, PlacesNow')
        PROVE  AsStage!Next
    BY <2>3 DEF AsStage!Next, PlacesNow
  <2>4. UNCHANGED vars => UNCHANGED PlacesPut
    BY DEF vars, PlacesPut, WherePut
  <2> QED
    BY <2>1, <2>2, <2>3, <2>4, StepPut DEF Next
<1> QED
  BY <1>1, <1>2, <1>3, InitTurn, PlacesAreKnown, ExtractorInvariant, PTL
     DEF Spec, ImplementsStage, AsStage!Spec, PlacesNow

-------------------------------------------------------------------------------
(* The theorems. *)

\* TypeOK: main_loop keeps every variable and the directory tree in its type.
THEOREM TypeCorrect == Spec => []TypeOK
<1>1. IInv => TypeOK
  BY TypeIs DEF IInv, Pagewise
<1> QED
  BY <1>1, ExtractorInvariant, PTL

\* decompress_page puts the buffer of the memory pool back once on each way out.
THEOREM BuffersAreReturned == Spec => []CacheIsReturned
<1>1. IInv => CacheIsReturned
  BY DEF IInv, Pagewise
<1> QED
  BY <1>1, ExtractorInvariant, PTL

\* What reaches save_page could be decoded and is complete: neither inflate nor the
\* second attempt with the dummy header leaves blocks out or counts them twice.
THEOREM OnlyCompletePages == Spec => []Complete
<1>1. IInv => Complete
  BY DEF IInv, Pagewise
<1> QED
  BY <1>1, ExtractorInvariant, PTL

\* save_page: a file that nobody is writing, and that only one extractor writes, holds
\* one page, all of it and nothing of the page that was there before.
THEOREM FilesStayWhole == Spec => []FilesAreWhole
<1>1. TreeInv => FilesAreWhole
  BY DEF TreeInv, Files
<1> QED
  BY <1>1, TreeInvariant, PTL

\* save_page: on a site that only one extractor works on, main_loop leaves no page unsaved
\* that can be decoded, has content and a path that is a file for all pages: neither
\* access() and mkdir() nor the opening of the file can go wrong for it.
THEOREM GoodPagesGetSaved == Spec => []GoodPagesAreSaved
<1>1. TreeInv => GoodPagesAreSaved
  BY DEF TreeInv, Saves
<1> QED
  BY <1>1, TreeInvariant, PTL

-------------------------------------------------------------------------------
(* LinkLexer, which extract_links runs on a page. *)

\* The start conditions.
Starts == {"INITIAL", "COMMENT", "SCRIPT", "VALUE", "IGNORE_VALUE", "ENTITY"}
          \cup Tags \cup Quoted
InTag == {"VALUE", "IGNORE_VALUE", "ENTITY"} \cup Quoted
InValue == {"ENTITY"} \cup Quoted

LexerTypes ==
    /\ cond \in Starts /\ stack \in Seq(Starts)
    /\ put \in Nat

\* Below the conditions of what is open there are n of ignored values, in pairs.
Pairs(n) ==
    /\ n % 2 = 0
    /\ \A i \in 1..n : stack[i] \in IF i % 2 = 1 THEN {"INITIAL"} ELSE Tags

\* What is open: a comment, or a tag, a value in it, a quote in that, an entity in that.
Opened(n) ==
    /\ cond \in {"INITIAL", "COMMENT"} => Len(stack) = n
    /\ cond \notin {"INITIAL", "COMMENT"} => stack[n + 1] = "INITIAL"
    /\ cond \in Tags \cup {"SCRIPT"} => Len(stack) = n + 1
    /\ cond \in InTag => stack[n + 2] \in Tags
    /\ cond \in {"VALUE", "IGNORE_VALUE"} => Len(stack) = n + 2
    /\ cond \in InValue => stack[n + 3] = "VALUE"
    /\ cond \in Quoted => Len(stack) = n + 3
    /\ cond = "ENTITY" => /\ Len(stack) = n + 3 + put /\ stack[n + 4] \in Quoted
                          /\ \A i \in (n + 5)..Len(stack) : stack[i] = "ENTITY"

StackIs == \E n \in 0..Len(stack) : Pairs(n) /\ Opened(n)
PutBack == put > 0 <=> cond = "ENTITY"
Outside == ~lexing => cond = "INITIAL"

\* The stack of UriLexer while it looks for an authority and what follows it; it is
\* empty otherwise.
UriStarts == {"idle", "SCHEME", "REL_PATH", "AUTHORITY", "USERINFO", "HOST", "PORT", "REG_NAME",
              "ABS_PATH", "OPAQUE_PART", "QUERY", "FRAGMENT", "ACCEPT"}
UriStackIs ==
    /\ ucond \in UriStarts /\ ustack \in Seq(UriStarts)
    /\ ucond = "AUTHORITY" => Len(ustack) = 1 /\ ustack[1] \in {"SCHEME", "REL_PATH"}
    /\ ucond = "ABS_PATH" =>
          \/ Len(ustack) = 1 /\ ustack[1] = "REG_NAME"
          \/ Len(ustack) = 2 /\ ustack[2] = "AUTHORITY" /\ ustack[1] \in {"SCHEME", "REL_PATH"}
    /\ ucond \notin {"AUTHORITY", "ABS_PATH"} => Len(ustack) = 0

StackInv == LexerTypes /\ StackIs /\ PutBack /\ Outside
LexerInv == StackInv /\ UriStackIs

LEMMA InitLexer == LexerInit => LexerInv
<1> SUFFICES ASSUME LexerInit PROVE LexerInv
  OBVIOUS
<1>1. cond = "INITIAL" /\ stack = <<>> /\ put = 0 /\ lexing = FALSE /\ ucond = "idle" /\ ustack = <<>>
  BY DEF LexerInit, UriInit
<1>2. StackIs
  BY <1>1 DEF StackIs, Pairs, Opened, Tags, Quoted, InTag, InValue
<1> QED
  BY <1>1, <1>2 DEF LexerInv, StackInv, LexerTypes, PutBack, Outside, UriStackIs, Starts, UriStarts

LEMMA FrontIs ==
    ASSUME NEW s \in Seq(UriStarts), Len(s) > 0
    PROVE  /\ Front(s) \in Seq(UriStarts) /\ Len(Front(s)) = Len(s) - 1
           /\ \A i \in 1..Len(s) - 1 : Front(s)[i] = s[i]
<1>1. \A i \in 1..Len(s) - 1 : s[i] \in UriStarts
  BY ElementOfSeq
<1> DEFINE t == Front(s)
<1>2. Len(s) \in Nat /\ Len(s) - 1 \in Nat
  BY LenProperties
<1>3. /\ t \in Seq(UriStarts)
      /\ Len(t) = (IF 1 <= Len(s) - 1 THEN Len(s) - 1 - 1 + 1 ELSE 0)
      /\ \A i \in 1..Len(s) - 1 - 1 + 1 : t[i] = s[1 + i - 1]
  BY <1>1, <1>2, SubSeqProperties DEF Front
<1> HIDE DEF t
<1>4. Len(t) = Len(s) - 1
  <2>1. CASE 1 <= Len(s) - 1
    <3>1. Len(t) = Len(s) - 1 - 1 + 1
      BY <1>3, <2>1
    <3> QED
      BY <1>2, <3>1
  <2>2. CASE ~(1 <= Len(s) - 1)
    <3>1. Len(t) = 0
      BY <1>3, <2>2
    <3>2. Len(s) - 1 = 0
      <4> DEFINE k == Len(s) - 1
      <4>1. k \in Nat /\ ~(1 <= k)
        BY <1>2, <2>2
      <4> HIDE DEF k
      <4>2. k = 0
        BY <4>1
      <4> QED
        BY <4>2 DEF k
    <3> QED
      BY <3>1, <3>2
  <2> QED
    BY <2>1, <2>2
<1>5. \A i \in 1..Len(s) - 1 : t[i] = s[i]
  <2> TAKE i \in 1..Len(s) - 1
  <2>1. i \in 1..Len(s) - 1 - 1 + 1 /\ 1 + i - 1 = i
    BY <1>2
  <2> QED
    BY <1>3, <2>1
<1> QED
  BY <1>3, <1>4, <1>5 DEF t

LEMMA PushIs ==
    ASSUME UriStackIs, NEW c \in UriStarts, Push(c)
    PROVE  /\ ucond' = c /\ ustack' \in Seq(UriStarts) /\ Len(ustack') = Len(ustack) + 1
           /\ ustack'[Len(ustack) + 1] = ucond
           /\ \A i \in 1..Len(ustack) : ustack'[i] = ustack[i]
BY AppendProperties DEF UriStackIs, Push

LEMMA PushesAuthority ==
    ASSUME UriStackIs, ucond \in {"SCHEME", "REL_PATH"}, Push("AUTHORITY")
    PROVE  UriStackIs'
<1>1. "AUTHORITY" \in UriStarts /\ Len(ustack) = 0
  BY DEF UriStackIs, UriStarts
<1>2. /\ ucond' = "AUTHORITY" /\ ustack' \in Seq(UriStarts) /\ Len(ustack') = 0 + 1
      /\ ustack'[0 + 1] = ucond
  BY <1>1, PushIs
<1> QED
  BY <1>1, <1>2 DEF UriStackIs

\* Each rule of UriLexer leaves on the stack what the next condition pops.
LEMMA UriStep ==
    ASSUME UriStackIs, Lex PROVE UriStackIs'
<1> USE DEF UriStackIs, UriStarts
<1>1. CASE Scheme
  <2>1. ucond = "SCHEME" /\ (Push("AUTHORITY") \/ Begin("REL_PATH"))
    BY <1>1 DEF Scheme
  <2>2. ASSUME Push("AUTHORITY") PROVE UriStackIs'
    BY <2>1, <2>2, PushesAuthority
  <2> QED
    BY <2>1, <2>2 DEF Begin
<1>2. CASE RelPath
  <2>1. ucond = "REL_PATH" /\ (Begin("QUERY") \/ Push("AUTHORITY"))
    BY <1>2 DEF RelPath
  <2>2. ASSUME Push("AUTHORITY") PROVE UriStackIs'
    BY <2>1, <2>2, PushesAuthority
  <2> QED
    BY <2>1, <2>2 DEF Begin
<1>3. CASE Authority
  <2>1. /\ ucond = "AUTHORITY"
        /\ \/ ucond' = "USERINFO" /\ ustack' = Front(ustack)
           \/ Push("ABS_PATH")
    BY <1>3 DEF Authority
  <2>2. CASE ucond' = "USERINFO" /\ ustack' = Front(ustack)
    BY <2>1, <2>2, FrontIs
  <2>3. CASE Push("ABS_PATH")
    <3>1. "ABS_PATH" \in UriStarts /\ Len(ustack) = 1
      BY <2>1
    <3>2. /\ ucond' = "ABS_PATH" /\ ustack' \in Seq(UriStarts) /\ Len(ustack') = 1 + 1
          /\ ustack'[1 + 1] = ucond
          /\ \A i \in 1..1 : ustack'[i] = ustack[i]
      BY <2>3, <3>1, PushIs
    <3>3. ustack'[1] \in {"SCHEME", "REL_PATH"}
      BY <2>1, <3>2
    <3> QED
      BY <2>1, <3>2, <3>3
  <2> QED
    BY <2>1, <2>2, <2>3
<1>4. CASE UserInfo \/ Host \/ Port
  BY <1>4 DEF UserInfo, Host, Port, Part, Begin
<1>5. CASE RegName
  <2>1. ucond = "REG_NAME" /\ Push("ABS_PATH")
    BY <1>5 DEF RegName
  <2> QED
    BY <2>1, PushIs
<1>6. CASE AbsPath
  <2> DEFINE bare == ustack[Len(ustack)] = "AUTHORITY"
             left == IF bare THEN Front(ustack) ELSE ustack
  <2>1. ustack' = Front(left)
    BY <1>6 DEF AbsPath, Last
  <2>2. ucond' \in {"QUERY", "OPAQUE_PART", "FRAGMENT"}
    <3>1. \/ ucond' = "QUERY"
          \/ ucond' = CASE ~bare -> "QUERY"
                       [] bare /\ Last(left) = "SCHEME" -> "OPAQUE_PART"
                       [] bare /\ Last(left) # "SCHEME" -> "FRAGMENT"
      BY <1>6 DEF AbsPath, Last
    <3> HIDE DEF bare, left
    <3> QED
      BY <3>1
  <2>3. Len(left) = 1 /\ left \in Seq(UriStarts)
    BY <1>6, FrontIs DEF AbsPath
  <2> HIDE DEF left
  <2> QED
    BY <2>1, <2>2, <2>3, FrontIs
<1>7. CASE OpaquePart
  BY <1>7 DEF OpaquePart, Begin
<1>8. CASE Query \/ Fragment
  BY <1>8 DEF Query, Fragment, Part, Begin
<1> QED
  BY <1>1, <1>2, <1>3, <1>4, <1>5, <1>6, <1>7, <1>8 DEF Lex

\* What is on top of the stack, and what Enter and Pop do to it.
LEMMA EnterIs ==
    ASSUME LexerTypes, NEW c \in Starts, Enter(c)
    PROVE  /\ stack' \in Seq(Starts) /\ Len(stack') = Len(stack) + 1
           /\ \A i \in 1..Len(stack) : stack'[i] = stack[i]
           /\ stack'[Len(stack) + 1] = cond /\ cond' = c
BY DEF LexerTypes, Enter

LEMMA PopIs ==
    ASSUME LexerTypes, NEW n \in 1..Len(stack), Leave(n)
    PROVE  /\ stack' \in Seq(Starts) /\ Len(stack') = Len(stack) - n
           /\ \A i \in 1..Len(stack') : stack'[i] = stack[i]
           /\ cond' = stack[Len(stack) + 1 - n] /\ cond' \in Starts
<1>1. stack \in Seq(Starts) /\ Len(stack) \in Nat
  BY DEF LexerTypes
<1>2. \A i \in 1..Len(stack) - n : stack[i] \in Starts
  BY <1>1, ElementOfSeq
<1>3. stack' = SubSeq(stack, 1, Len(stack) - n) /\ cond' = stack[Len(stack) + 1 - n]
  BY DEF Leave
<1>4. /\ stack' \in Seq(Starts) /\ Len(stack') = Len(stack) - n
      /\ \A i \in 1..Len(stack') : stack'[i] = stack[i]
  <2>1. /\ stack' \in Seq(Starts)
        /\ Len(stack') = (IF 1 <= Len(stack) - n THEN Len(stack) - n - 1 + 1 ELSE 0)
        /\ \A i \in 1..Len(stack) - n - 1 + 1 : stack'[i] = stack[1 + i - 1]
    BY <1>1, <1>2, <1>3, SubSeqProperties
  <2> QED
    BY <1>1, <2>1
<1> QED
  BY <1>1, <1>3, <1>4, ElementOfSeq

\* The pairs of ignored values stay while nothing pops them.
LEMMA PairsStay ==
    ASSUME NEW n \in Nat, Pairs(n), \A i \in 1..n : stack'[i] = stack[i]
    PROVE  Pairs(n)'
BY DEF Pairs

LEMMA StaysIn ==
    ASSUME StackInv, cond' = cond, stack' = stack, put' = put, Outside'
    PROVE  StackInv'
<1>1. LexerTypes' /\ PutBack'
  BY DEF StackInv, LexerTypes, PutBack
<1>2. PICK n \in 0..Len(stack) : Pairs(n) /\ Opened(n)
  BY DEF StackInv, StackIs
<1>3. Pairs(n)' /\ Opened(n)'
  BY <1>2 DEF Pairs, Opened
<1> QED
  BY <1>1, <1>2, <1>3 DEF StackInv, StackIs

\* A condition is entered above what is open.
LEMMA GoesIn ==
    ASSUME StackInv, NEW c \in Starts, Enter(c), put = 0, put' = 0, lexing', lexing,
           \/ cond = "INITIAL" /\ c \in Tags \cup {"SCRIPT"}
           \/ cond \in Tags /\ c \in {"VALUE", "IGNORE_VALUE"}
           \/ cond = "VALUE" /\ c \in Quoted
    PROVE  StackInv'
<1>1. LexerTypes /\ stack \in Seq(Starts) /\ Len(stack) \in Nat
  BY DEF StackInv, LexerTypes
<1>2. /\ stack' \in Seq(Starts) /\ Len(stack') = Len(stack) + 1
      /\ \A i \in 1..Len(stack) : stack'[i] = stack[i]
      /\ stack'[Len(stack) + 1] = cond /\ cond' = c
  BY <1>1, EnterIs
<1>3. PICK n \in 0..Len(stack) : Pairs(n) /\ Opened(n)
  BY DEF StackInv, StackIs
<1>4. Pairs(n)'
  BY <1>1, <1>2, <1>3, PairsStay
<1>5. Opened(n)'
  <2> USE DEF Opened, InTag, InValue, Tags, Quoted
  <2>1. CASE cond = "INITIAL" /\ c \in Tags \cup {"SCRIPT"}
    BY <1>1, <1>2, <1>3, <2>1
  <2>2. CASE cond \in Tags /\ c \in {"VALUE", "IGNORE_VALUE"}
    BY <1>1, <1>2, <1>3, <2>2
  <2>3. CASE cond = "VALUE" /\ c \in Quoted
    BY <1>1, <1>2, <1>3, <2>3
  <2> QED
    BY <2>1, <2>2, <2>3
<1>6. LexerTypes' /\ PutBack' /\ Outside'
  BY <1>2 DEF LexerTypes, PutBack, Outside, Tags, Quoted
<1>7. n \in 0..Len(stack')
  BY <1>1, <1>2
<1> QED
  BY <1>4, <1>5, <1>6, <1>7 DEF StackInv, StackIs


\* One, two or three conditions are left, and what is below them goes on.
LEMMA GoesBack ==
    ASSUME StackInv, NEW k \in 1..3, Leave(k), put = 0, put' = 0, lexing', lexing,
           cond \in Tags \cup {"SCRIPT"} => k = 1,
           cond \in {"VALUE", "IGNORE_VALUE"} => k = 1,
           cond \notin {"INITIAL", "COMMENT"}
    PROVE  StackInv'
<1>1. LexerTypes /\ stack \in Seq(Starts) /\ Len(stack) \in Nat
  BY DEF StackInv, LexerTypes
<1>2. PICK n \in 0..Len(stack) : Pairs(n) /\ Opened(n)
  BY DEF StackInv, StackIs
<1>3. cond \in Starts /\ cond # "ENTITY"
  BY DEF StackInv, LexerTypes, PutBack
<1>4. k \in 1..Len(stack) - n
  BY <1>1, <1>2, <1>3 DEF Opened, InTag, InValue, Tags, Quoted, Starts
<1>5. /\ stack' \in Seq(Starts) /\ Len(stack') = Len(stack) - k
      /\ \A i \in 1..Len(stack') : stack'[i] = stack[i]
      /\ cond' = stack[Len(stack) + 1 - k] /\ cond' \in Starts
  BY <1>1, <1>2, <1>4, PopIs
<1>6. n \in 0..Len(stack') /\ Pairs(n)'
  <2>1. n \in Nat /\ n <= Len(stack') /\ Len(stack') \in Nat
    BY <1>1, <1>4, <1>5
  <2>2. \A i \in 1..n : stack'[i] = stack[i]
    BY <1>5, <2>1
  <2> QED
    BY <1>2, <2>1, <2>2, PairsStay
<1>7. Opened(n)' /\ cond' # "ENTITY"
  <2> USE DEF Opened, InTag, InValue, Tags, Quoted
  <2>1. CASE cond \in Tags \cup {"SCRIPT"}
    BY <1>1, <1>2, <1>4, <1>5, <2>1
  <2>2. CASE cond \in {"VALUE", "IGNORE_VALUE"}
    BY <1>1, <1>2, <1>4, <1>5, <2>2
  <2>3. CASE cond \in Quoted
    <3>1. Len(stack) = n + 3 /\ k \in {1, 2, 3}
      BY <1>2, <2>3
    <3>2. CASE k = 1
      BY <1>1, <1>2, <1>5, <2>3, <3>1, <3>2
    <3>3. CASE k = 2
      BY <1>1, <1>2, <1>5, <2>3, <3>1, <3>3
    <3>4. CASE k = 3
      BY <1>1, <1>2, <1>5, <2>3, <3>1, <3>4
    <3> QED
      BY <3>1, <3>2, <3>3, <3>4
  <2> QED
    BY <1>3, <2>1, <2>2, <2>3 DEF Starts
<1>8. LexerTypes' /\ PutBack' /\ Outside'
  BY <1>5, <1>7 DEF LexerTypes, PutBack, Outside
<1> QED
  BY <1>6, <1>7, <1>8 DEF StackInv, StackIs

\* The characters of an entity, and the conditions that wait for them.
LEMMA EntityStep ==
    ASSUME StackInv, NEW m \in 1..2, Entity(m) PROVE StackInv'
<1>1. LexerTypes /\ stack \in Seq(Starts) /\ Len(stack) \in Nat /\ cond \in Starts
  BY DEF StackInv, LexerTypes
<1>2. PICK n \in 0..Len(stack) : Pairs(n) /\ Opened(n)
  BY DEF StackInv, StackIs
<1>3. /\ lexing /\ lexing' = lexing /\ cond \in Quoted /\ put' = m /\ cond' = "ENTITY"
      /\ stack' = stack \o <<cond>> \o [i \in 1..(m - 1) |-> "ENTITY"]
  BY DEF Entity, Reads, Scanning
<1>4. Len(stack) = n + 3
  BY <1>2, <1>3 DEF Opened, Quoted
<1> DEFINE more == [i \in 1..(m - 1) |-> "ENTITY"]
           s == stack \o <<cond>>
<1>5. "ENTITY" \in Starts /\ more \in Seq(Starts) /\ Len(more) = m - 1
      /\ \A i \in 1..m - 1 : more[i] = "ENTITY"
  BY DEF Starts
<1>6. /\ s \in Seq(Starts) /\ Len(s) = n + 4 /\ s[n + 4] = cond
      /\ \A i \in 1..n + 3 : s[i] = stack[i]
  BY <1>1, <1>4
<1> HIDE DEF more, s
<1>7. /\ stack' \in Seq(Starts) /\ Len(stack') = n + 3 + m
      /\ \A i \in 1..n + 4 : stack'[i] = s[i]
      /\ \A i \in (n + 5)..(n + 3 + m) : stack'[i] = more[i - (n + 4)]
  <2>1. stack' = s \o more
    BY <1>3 DEF more, s
  <2> QED
    BY <1>2, <1>5, <1>6, <2>1, ConcatProperties
<1>8. Pairs(n)'
  BY <1>2, <1>6, <1>7, PairsStay
<1>9. Opened(n)'
  <2>1. /\ stack'[n + 1] = stack[n + 1] /\ stack'[n + 2] = stack[n + 2]
        /\ stack'[n + 3] = stack[n + 3] /\ stack'[n + 4] = cond
    <3>1. n \in Nat /\ {n + 1, n + 2, n + 3} \subseteq 1..n + 3 /\ n + 4 \in 1..n + 4
      BY <1>1
    <3>2. {n + 1, n + 2, n + 3} \subseteq 1..n + 4
      BY <3>1
    <3>3. \A i \in {n + 1, n + 2, n + 3} : stack'[i] = s[i] /\ s[i] = stack[i]
      BY <1>6, <1>7, <3>1, <3>2
    <3> QED
      BY <1>6, <1>7, <3>1, <3>3
  <2>2. \A i \in (n + 5)..(n + 3 + m) : stack'[i] = "ENTITY"
    BY <1>2, <1>5, <1>7
  <2> QED
    BY <1>2, <1>3, <1>7, <2>1, <2>2 DEF Opened, InTag, InValue, Tags, Quoted
<1>10. LexerTypes' /\ PutBack' /\ Outside'
  BY <1>3, <1>5, <1>7 DEF LexerTypes, PutBack, Outside
<1>11. n \in 0..Len(stack')
  BY <1>2, <1>7
<1> QED
  BY <1>8, <1>9, <1>10, <1>11 DEF StackInv, StackIs

LEMMA EntityCharacterStep ==
    ASSUME StackInv, EntityCharacter PROVE StackInv'
<1>1. LexerTypes /\ stack \in Seq(Starts) /\ Len(stack) \in Nat /\ put \in Nat
  BY DEF StackInv, LexerTypes
<1>2. PICK n \in 0..Len(stack) : Pairs(n) /\ Opened(n)
  BY DEF StackInv, StackIs
<1>3. /\ lexing /\ lexing' = lexing /\ put > 0 /\ put' = put - 1 /\ cond = "ENTITY"
      /\ Leave(1)
  BY DEF EntityCharacter, inputVars
<1>4. /\ Len(stack) = n + 3 + put /\ stack[n + 4] \in Quoted
      /\ stack[n + 1] = "INITIAL" /\ stack[n + 2] \in Tags /\ stack[n + 3] = "VALUE"
      /\ \A i \in (n + 5)..Len(stack) : stack[i] = "ENTITY"
  BY <1>2, <1>3 DEF Opened, InTag, InValue, Tags
<1>5. /\ stack' \in Seq(Starts) /\ Len(stack') = n + 3 + put'
      /\ \A i \in 1..Len(stack') : stack'[i] = stack[i]
      /\ cond' = stack[n + 3 + put] /\ cond' \in Starts
  <2>1. 1 \in 1..Len(stack)
    BY <1>1, <1>2, <1>3, <1>4
  <2>2. /\ stack' \in Seq(Starts) /\ Len(stack') = Len(stack) - 1
        /\ \A i \in 1..Len(stack') : stack'[i] = stack[i]
        /\ cond' = stack[Len(stack) + 1 - 1] /\ cond' \in Starts
    BY <1>1, <1>3, <2>1, PopIs
  <2> QED
    BY <1>1, <1>2, <1>3, <1>4, <2>2
<1>6. n \in 0..Len(stack') /\ Pairs(n)'
  BY <1>1, <1>2, <1>3, <1>5, PairsStay
<1>7. put' \in Nat /\ IF put' = 0 THEN cond' \in Quoted ELSE cond' = "ENTITY"
  BY <1>1, <1>2, <1>3, <1>4, <1>5
<1>8. Opened(n)'
  BY <1>1, <1>2, <1>3, <1>4, <1>5, <1>7 DEF Opened, InTag, InValue, Tags, Quoted
<1>9. LexerTypes' /\ PutBack' /\ Outside'
  <2>1. CASE put' = 0
    <3>1. LexerTypes' /\ Outside'
      BY <1>3, <1>5, <1>7 DEF LexerTypes, Outside
    <3>2. cond' # "ENTITY"
      BY <1>7, <2>1 DEF Quoted
    <3> QED
      BY <2>1, <3>1, <3>2 DEF PutBack
  <2>2. CASE put' > 0
    BY <1>3, <1>5, <1>7, <2>2 DEF LexerTypes, PutBack, Outside
  <2> QED
    BY <1>7, <2>1, <2>2
<1> QED
  BY <1>6, <1>8, <1>9 DEF StackInv, StackIs

LEMMA LexerStep == ASSUME LexerInv, LexerNext PROVE LexerInv'
<1>1. StackInv /\ UriStackIs /\ LexerTypes /\ PutBack /\ Outside /\ cond \in Starts
  BY DEF LexerInv, StackInv, LexerTypes
<1>2. CASE StartPage
  <2>1. cond' = cond /\ stack' = stack /\ put' = put /\ lexing' /\ UNCHANGED <<ucond, ustack>>
    BY <1>1, <1>2 DEF StartPage, Outside, uriVars
  <2>2. Outside'
    BY <2>1 DEF Outside
  <2> QED
    BY <1>1, <2>1, <2>2, StaysIn DEF LexerInv, UriStackIs
<1>3. ASSUME UNCHANGED <<cond, stack, put, lexing, ucond, ustack>> PROVE LexerInv'
  <2>1. Outside'
    BY <1>1, <1>3 DEF Outside
  <2> QED
    BY <1>1, <1>3, <2>1, StaysIn DEF LexerInv, UriStackIs
<1>4. CASE EndOfPage \/ Passed \/ \E l \in Links : Text(l)
  BY <1>3, <1>4 DEF EndOfPage, Passed, Text, Reads, pageVars, uriVars
<1>5. ASSUME UNCHANGED <<ucond, ustack>> PROVE UriStackIs'
  BY <1>1, <1>5 DEF UriStackIs
<1>6. CASE OpenComment \/ CloseComment
  <2>1. /\ cond \in {"INITIAL", "COMMENT"} /\ cond' \in {"INITIAL", "COMMENT"} /\ put' = put
        /\ stack' = stack /\ lexing' /\ UNCHANGED <<ucond, ustack>> /\ put = 0
    BY <1>6 DEF OpenComment, CloseComment, Reads, Scanning, Become, uriVars
  <2>2. PICK n \in 0..Len(stack) : Pairs(n) /\ Opened(n)
    BY <1>1 DEF StackInv, StackIs
  <2>3. Pairs(n)' /\ Opened(n)'
    BY <2>1, <2>2 DEF Pairs, Opened, InTag, InValue, Tags, Quoted
  <2>4. LexerTypes' /\ PutBack'
    BY <1>1, <2>1 DEF LexerTypes, PutBack, Starts
  <2>5. Outside'
    BY <2>1 DEF Outside
  <2> QED
    BY <1>5, <2>1, <2>2, <2>3, <2>4, <2>5 DEF LexerInv, StackInv, StackIs
<1>7. CASE \E tag \in Tags \cup {"SCRIPT"} : OpenTag(tag)
  <2>1. PICK tag \in Tags \cup {"SCRIPT"} : OpenTag(tag)
    BY <1>7
  <2>2. /\ lexing /\ lexing' /\ put = 0 /\ put' = 0 /\ cond = "INITIAL" /\ Enter(tag)
        /\ tag \in Starts /\ UNCHANGED <<ucond, ustack>>
    BY <2>1 DEF OpenTag, Reads, Scanning, uriVars, Starts
  <2> QED
    BY <1>1, <1>5, <2>2, GoesIn DEF LexerInv
<1>8. CASE \E a \in {"href", "src", "http-equiv", "content", "class"} : Attribute(a)
  <2>1. /\ lexing /\ lexing' /\ put = 0 /\ put' = 0 /\ cond \in Tags
        /\ Enter("VALUE") \/ Enter("IGNORE_VALUE")
        /\ UNCHANGED <<ucond, ustack>>
    BY <1>8 DEF Attribute, Reads, Scanning, uriVars
  <2>2. "VALUE" \in Starts /\ "IGNORE_VALUE" \in Starts
    BY DEF Starts
  <2> QED
    BY <1>1, <1>5, <2>1, <2>2, GoesIn DEF LexerInv
<1>9. CASE OpenQuote \/ OpenUnquoted
  <2>1. /\ lexing /\ lexing' /\ put = 0 /\ put' = 0 /\ cond = "VALUE"
        /\ Enter("DQUOTED") \/ Enter("SQUOTED") \/ Enter("UQUOTED")
        /\ UNCHANGED <<ucond, ustack>>
    BY <1>9 DEF OpenQuote, OpenUnquoted, Reads, Scanning,
                inputVars, uriVars
  <2>2. \A c \in {"DQUOTED", "SQUOTED", "UQUOTED"} : c \in Starts /\ c \in Quoted
    BY DEF Starts, Quoted
  <2> QED
    BY <1>1, <1>5, <2>1, <2>2, GoesIn DEF LexerInv
<1>10. CASE CloseTag
  <2>1. /\ lexing /\ lexing' /\ put = 0 /\ put' = 0 /\ cond \in Tags \cup {"SCRIPT"}
        /\ Leave(1) /\ UNCHANGED <<ucond, ustack>>
    BY <1>10 DEF CloseTag, Reads, Scanning, uriVars
  <2>2. cond \notin {"INITIAL", "COMMENT"}
    BY <2>1 DEF Tags
  <2> QED
    BY <1>1, <1>5, <2>1, <2>2, GoesBack DEF LexerInv
<1>11. CASE \E behind \in {">", " "} : IgnoreValue(behind)
  <2>1. /\ lexing /\ lexing' /\ put = 0 /\ put' = 0 /\ cond = "IGNORE_VALUE"
        /\ Become("INITIAL") \/ Leave(1)
        /\ UNCHANGED <<ucond, ustack>>
    <3> PICK behind \in {">", " "} : IgnoreValue(behind)
      BY <1>11
    <3>1. CASE behind = ">"
      BY <3>1 DEF IgnoreValue, Reads, Scanning, uriVars
    <3>2. CASE behind # ">"
      BY <3>2 DEF IgnoreValue, Reads, Scanning, uriVars
    <3> QED
      BY <3>1, <3>2
  <2>2. CASE Become("INITIAL")
    <3>1. cond' = "INITIAL" /\ stack' = stack
      BY <2>2 DEF Become
    <3>2. PICK n \in 0..Len(stack) : Pairs(n) /\ Opened(n)
      BY <1>1 DEF StackInv, StackIs
    <3>3. n + 2 = Len(stack) /\ stack[n + 1] = "INITIAL" /\ stack[n + 2] \in Tags
      BY <2>1, <3>2 DEF Opened, InTag, Tags, Quoted
    <3>4. Pairs(n + 2)'
      BY <3>1, <3>2, <3>3 DEF Pairs
    <3>5. Opened(n + 2)'
      BY <3>1, <3>3 DEF Opened, InTag, InValue, Tags, Quoted
    <3>6. LexerTypes' /\ PutBack'
      BY <1>1, <2>1, <3>1 DEF LexerTypes, PutBack, Starts
    <3>7. Outside'
      BY <2>1 DEF Outside
    <3>8. n + 2 \in 0..Len(stack')
      BY <3>1, <3>2, <3>3
    <3> QED
      BY <1>5, <2>1, <3>4, <3>5, <3>6, <3>7, <3>8 DEF LexerInv, StackInv, StackIs
  <2>3. CASE Leave(1)
    <3>1. cond \notin Tags \cup {"SCRIPT", "INITIAL", "COMMENT"}
      BY <2>1 DEF Tags
    <3> QED
      BY <1>1, <1>5, <2>1, <2>3, <3>1, GoesBack DEF LexerInv
  <2> QED
    BY <2>1, <2>2, <2>3
<1>12. CASE \E n \in 1..2 : Entity(n)
  <2>1. UNCHANGED <<ucond, ustack>>
    BY <1>12 DEF Entity, uriVars
  <2> QED
    BY <1>1, <1>5, <1>12, <2>1, EntityStep DEF LexerInv
<1>13. CASE \E behind \in {">", " "} : CloseValue(behind)
  <2>1. /\ lexing /\ lexing' /\ put = 0 /\ put' = 0 /\ cond \in Quoted
        /\ Leave(2) \/ Leave(3)
        /\ ucond = "idle" /\ ucond' \in {"idle", "SCHEME"} /\ ustack' = ustack
    <3> PICK behind \in {">", " "} : CloseValue(behind)
      BY <1>13
    <3>1. lexing /\ lexing' /\ put = 0 /\ put' = 0 /\ cond \in Quoted /\ ucond = "idle"
      BY DEF CloseValue, Reads, Scanning
    <3>2. ucond' \in {"idle", "SCHEME"} /\ ustack' = ustack
      BY <3>1 DEF CloseValue, StartUri, uriVars
    <3>3. Leave(2) \/ Leave(3)
      <4>1. CASE behind = ">"
        BY <4>1 DEF CloseValue
      <4>2. CASE behind # ">"
        BY <4>2 DEF CloseValue
      <4> QED
        BY <4>1, <4>2
    <3> QED
      BY <3>1, <3>2, <3>3
  <2>2. cond \notin Tags \cup {"SCRIPT", "VALUE", "IGNORE_VALUE", "INITIAL", "COMMENT"}
    BY <2>1 DEF Tags, Quoted
  <2>3. UriStackIs'
    BY <1>1, <2>1 DEF UriStackIs, UriStarts
  <2> QED
    BY <1>1, <2>1, <2>2, <2>3, GoesBack DEF LexerInv
<1>14. CASE EntityCharacter
  <2>1. UNCHANGED <<ucond, ustack>>
    BY <1>14 DEF EntityCharacter, uriVars
  <2> QED
    BY <1>1, <1>5, <1>14, <2>1, EntityCharacterStep DEF LexerInv
<1>15. CASE AtEnd
  <2>1. /\ lexing /\ put = 0 /\ put' = 0 /\ UNCHANGED <<ucond, ustack>>
        /\ \/ cond = "INITIAL" /\ cond' = "INITIAL" /\ stack' = stack
           \/ /\ cond = "COMMENT" /\ cond' = "INITIAL" /\ stack' = stack /\ lexing'
           \/ cond \notin {"INITIAL", "COMMENT"} /\ Leave(1) /\ lexing'
    BY <1>15 DEF AtEnd, Scanning, Become, uriVars
  <2>2. CASE cond \in {"INITIAL", "COMMENT"}
    <3>1. cond' = "INITIAL" /\ stack' = stack
      BY <2>1, <2>2
    <3>2. PICK n \in 0..Len(stack) : Pairs(n) /\ Opened(n)
      BY <1>1 DEF StackInv, StackIs
    <3>3. Pairs(n)' /\ Opened(n)'
      BY <2>2, <3>1, <3>2 DEF Pairs, Opened, InTag, InValue, Tags, Quoted
    <3>4. LexerTypes' /\ PutBack' /\ Outside'
      BY <1>1, <2>1, <3>1 DEF LexerTypes, PutBack, Outside, Starts
    <3> QED
      BY <1>5, <2>1, <3>1, <3>2, <3>3, <3>4 DEF LexerInv, StackInv, StackIs
  <2>3. CASE cond \notin {"INITIAL", "COMMENT"}
    BY <1>1, <1>5, <2>1, <2>3, GoesBack DEF LexerInv
  <2> QED
    BY <2>2, <2>3
<1>16. CASE LexLink
  <2>1. Lex /\ UNCHANGED <<cond, stack, put, lexing>>
    BY <1>16 DEF LexLink, pageVars, inputVars
  <2>2. Outside'
    BY <1>1, <2>1 DEF Outside
  <2> QED
    BY <1>1, <2>1, <2>2, StaysIn, UriStep DEF LexerInv
<1>17. CASE SaveLink
  <2>1. ucond = "ACCEPT" /\ ucond' = "idle" /\ UNCHANGED <<cond, stack, put, lexing, ustack>>
    BY <1>17 DEF SaveLink, pageVars, inputVars
  <2>2. Outside'
    BY <1>1, <2>1 DEF Outside
  <2>3. UriStackIs'
    BY <1>1, <2>1 DEF UriStackIs, UriStarts
  <2> QED
    BY <1>1, <2>1, <2>2, <2>3, StaysIn DEF LexerInv
<1> QED
  BY <1>2, <1>4, <1>6, <1>7, <1>8, <1>9, <1>10, <1>11, <1>12, <1>13, <1>14, <1>15, <1>16, <1>17
  DEF LexerNext, Input, Work

\* The invariant says where the conditions lead.
LEMMA PartIs ==
    ASSUME NEW S, NEW s \in Seq(S), NEW a \in 1..Len(s) + 1, NEW b \in (a - 1)..Len(s)
    PROVE  /\ SubSeq(s, a, b) \in Seq(S) /\ Len(SubSeq(s, a, b)) = b - (a - 1)
           /\ \A i \in 1..b - (a - 1) : SubSeq(s, a, b)[i] = s[(a - 1) + i]
<1>1. Len(s) \in Nat /\ \A i \in a..b : s[i] \in S
  BY LenProperties, ElementOfSeq
<1>2. /\ SubSeq(s, a, b) \in Seq(S)
      /\ Len(SubSeq(s, a, b)) = (IF a <= b THEN b - a + 1 ELSE 0)
      /\ \A i \in 1..b - a + 1 : SubSeq(s, a, b)[i] = s[a + i - 1]
  BY <1>1, SubSeqProperties
<1> DEFINE t == SubSeq(s, a, b)
<1> HIDE DEF t
<1>3. Len(t) = b - (a - 1)
  BY <1>1, <1>2 DEF t
<1>4. \A i \in 1..b - (a - 1) : t[i] = s[(a - 1) + i]
  BY <1>1, <1>2 DEF t
<1> QED
  BY <1>2, <1>3, <1>4 DEF t

LEMMA InvLeadsBack == LexerInv => ConditionsLeadBack
<1> SUFFICES ASSUME LexerInv PROVE ConditionsLeadBack
  OBVIOUS
<1>1. stack \in Seq(Starts) /\ Len(stack) \in Nat /\ cond \in Starts /\ put \in Nat
  BY DEF LexerInv, StackInv, LexerTypes
<1>2. PICK n \in 0..Len(stack) : Pairs(n) /\ Opened(n)
  BY DEF LexerInv, StackInv, StackIs
<1>3. \A i \in 1..Len(stack) : stack[i] \in Starts
  BY <1>1, ElementOfSeq
<1> DEFINE low == SubSeq(stack, 1, n)
           high == SubSeq(stack, n + 1, Len(stack))
<1>4. low \in Seq(Starts) /\ Len(low) = n /\ \A i \in 1..n : low[i] = stack[i]
  BY <1>1, <1>2, <1>3, PartIs, 1 \in 1..Len(stack) + 1
<1>5. high \in Seq(Starts) /\ Len(high) = Len(stack) - n
      /\ \A i \in 1..Len(stack) - n : high[i] = stack[n + i]
  BY <1>1, <1>2, <1>3, PartIs
<1> HIDE DEF low, high
<1>6. Leftover(low)
  BY <1>2, <1>4 DEF Leftover, Pairs
<1>7. Below(cond, high)
  <2> USE DEF Below, Opened, InTag, InValue, Tags, Quoted
  <2>1. CASE cond \in {"INITIAL", "COMMENT"}
    <3>1. Len(high) = 0
      BY <1>1, <1>2, <1>5, <2>1
    <3>2. high = <<>>
      BY <1>5, <3>1, EmptySeq
    <3> QED
      BY <2>1, <3>2
  <2>2. CASE cond \in Tags \cup {"SCRIPT"}
    <3>1. Len(high) = 1 /\ high[1] = "INITIAL"
      BY <1>1, <1>2, <1>5, <2>2
    <3>2. high = <<"INITIAL">>
      BY <1>5, <3>1
    <3> QED
      BY <2>2, <3>2
  <2>3. CASE cond \in {"VALUE", "IGNORE_VALUE"}
    <3>1. Len(stack) = n + 2 /\ stack[n + 1] = "INITIAL" /\ stack[n + 2] \in Tags
      BY <1>2, <2>3
    <3>2. Len(high) = 2 /\ 1 \in 1..Len(stack) - n /\ 2 \in 1..Len(stack) - n
      BY <1>1, <1>2, <1>5, <3>1
    <3>3. high[1] = "INITIAL" /\ high[2] \in Tags
      BY <1>5, <3>1, <3>2
    <3> QED
      BY <2>3, <3>2, <3>3
  <2>4. CASE cond \in Quoted
    <3>1. /\ Len(stack) = n + 3 /\ stack[n + 1] = "INITIAL" /\ stack[n + 2] \in Tags
          /\ stack[n + 3] = "VALUE"
      BY <1>2, <2>4
    <3>2. Len(high) = 3 /\ {1, 2, 3} \subseteq 1..Len(stack) - n
      BY <1>1, <1>2, <1>5, <3>1
    <3>3. high[1] = "INITIAL" /\ high[2] \in Tags /\ high[3] = "VALUE"
      BY <1>5, <3>1, <3>2
    <3> QED
      BY <2>4, <3>2, <3>3
  <2>5. CASE cond = "ENTITY"
    <3>1. /\ Len(stack) = n + 3 + put /\ stack[n + 1] = "INITIAL" /\ stack[n + 2] \in Tags
          /\ stack[n + 3] = "VALUE" /\ stack[n + 4] \in Quoted
          /\ \A i \in (n + 5)..Len(stack) : stack[i] = "ENTITY"
      BY <1>2, <2>5
    <3>2. put >= 1
      BY <1>1, <2>5 DEF LexerInv, StackInv, PutBack
    <3>3. Len(high) = 3 + put /\ {1, 2, 3, 4} \subseteq 1..Len(stack) - n
      BY <1>1, <1>2, <1>5, <3>1, <3>2
    <3>4. /\ high[1] = "INITIAL" /\ high[2] \in Tags /\ high[3] = "VALUE"
          /\ high[4] \in Quoted
      BY <1>5, <3>1, <3>3
    <3>5. \A i \in 5..Len(high) : high[i] = "ENTITY"
      <4> TAKE i \in 5..Len(high)
      <4>1. i \in 1..Len(stack) - n /\ n + i \in (n + 5)..Len(stack)
        BY <1>1, <1>2, <1>5
      <4> QED
        BY <1>5, <3>1, <4>1
    <3> QED
      BY <2>5, <3>3, <3>4, <3>5
  <2> QED
    BY <1>1, <2>1, <2>2, <2>3, <2>4, <2>5 DEF Starts
<1>8. put > 0 <=> cond = "ENTITY"
  BY DEF LexerInv, StackInv, PutBack
<1>9. ucond \in {"idle", "SCHEME", "QUERY", "FRAGMENT", "ACCEPT"} => ustack = <<>>
  BY EmptySeq DEF LexerInv, UriStackIs
<1>10. n % 2 = 0
  BY <1>2 DEF Pairs
<1> QED
  BY <1>2, <1>6, <1>7, <1>8, <1>9, <1>10 DEF ConditionsLeadBack, low, high

LEMMA LexerNextKeeps == LexerInv /\ [LexerNext]_(lexerVars) => LexerInv'
<1> SUFFICES ASSUME LexerInv, [LexerNext]_(lexerVars) PROVE LexerInv'
  OBVIOUS
<1>1. CASE LexerNext
  BY <1>1, LexerStep
<1>2. CASE UNCHANGED lexerVars
  <2>1. UNCHANGED <<cond, stack, put, lexing, ucond, ustack>>
    BY <1>2 DEF lexerVars, pageVars, inputVars, uriVars
  <2>2. Outside'
    BY <2>1 DEF LexerInv, StackInv, Outside
  <2> QED
    BY <2>1, <2>2, StaysIn DEF LexerInv, UriStackIs
<1> QED
  BY <1>1, <1>2

\* Every condition of the scanners leads back to INITIAL.
THEOREM ConditionsLeadBackThm == LexerSpec => []ConditionsLeadBack
BY LexerNextKeeps, InitLexer, InvLeadsBack, PTL DEF LexerSpec

\* A condition that is not one of the page's own is above another.
LEMMA SomethingBelow ==
    ASSUME StackInv, cond \notin {"INITIAL", "COMMENT"}
    PROVE  stack \in Seq(Starts) /\ Len(stack) \in Nat /\ 1 \in 1..Len(stack)
<1>1. cond \in Starts /\ put \in Nat /\ stack \in Seq(Starts) /\ Len(stack) \in Nat
  BY DEF StackInv, LexerTypes
<1>2. PICK n \in 0..Len(stack) : Opened(n)
  BY DEF StackInv, StackIs
<1> QED
  BY <1>1, <1>2 DEF Opened, InTag, InValue, Tags, Quoted, Starts

\* A rule of UriLexer has fewer to follow.
LEMMA UriGoesOn ==
    ASSUME UriStackIs, LexLink \/ SaveLink
    PROVE  /\ UriRulesLeft(ucond') \in Nat /\ UriRulesLeft(ucond') < UriRulesLeft(ucond)
           /\ UNCHANGED <<cond, stack, lexing>>
<1>1. UNCHANGED <<cond, stack, lexing>>
  BY DEF LexLink, SaveLink, pageVars, inputVars
<1>2. \/ ucond = "SCHEME" /\ ucond' \in {"AUTHORITY", "REL_PATH"}
      \/ ucond = "REL_PATH" /\ ucond' \in {"QUERY", "AUTHORITY"}
      \/ ucond = "AUTHORITY" /\ ucond' \in {"USERINFO", "ABS_PATH"}
      \/ ucond = "USERINFO" /\ ucond' = "HOST"
      \/ ucond = "HOST" /\ ucond' \in {"PORT", "REG_NAME"}
      \/ ucond = "PORT" /\ ucond' = "REG_NAME"
      \/ ucond = "REG_NAME" /\ ucond' = "ABS_PATH"
      \/ ucond = "ABS_PATH" /\ ucond' \in {"QUERY", "OPAQUE_PART", "FRAGMENT"}
      \/ ucond \in {"OPAQUE_PART", "QUERY"} /\ ucond' = "FRAGMENT"
      \/ ucond = "FRAGMENT" /\ ucond' = "ACCEPT"
      \/ ucond = "ACCEPT" /\ ucond' = "idle"
  <2>1. CASE Scheme \/ RelPath \/ Authority
    BY <2>1 DEF Scheme, RelPath, Authority, Push, Begin
  <2>2. CASE UserInfo \/ Host \/ Port
    BY <2>2 DEF UserInfo, Host, Port, Part, Begin
  <2>3. CASE RegName \/ OpaquePart \/ Query \/ Fragment
    BY <2>3 DEF RegName, OpaquePart, Query, Fragment, Part, Push, Begin
  <2>4. CASE AbsPath
    BY <2>4 DEF AbsPath
  <2>5. CASE SaveLink
    BY <2>5 DEF SaveLink
  <2> QED
    BY <2>1, <2>2, <2>3, <2>4, <2>5 DEF LexLink, Lex
<1> QED
  BY <1>1, <1>2 DEF UriRulesLeft

\* <<EOF>>: from the end of a page on each step takes the scanner one further out of
\* what was left open, whatever that is.
THEOREM EndsOnlyComeCloser == LexerSpec => EndComesCloser
<1> DEFINE Closer == lexing /\ eof => LeftAtEnd' \in 0..(LeftAtEnd - 1)
<1>1. LexerInv /\ [LexerNext]_(lexerVars) => [Closer]_(lexerVars)
  <2> SUFFICES ASSUME LexerInv, LexerNext, lexing, eof
               PROVE  LeftAtEnd' \in 0..(LeftAtEnd - 1)
    OBVIOUS
  <2>1. /\ Len(stack) \in Nat /\ UriStackIs /\ StackInv
        /\ UriRulesLeft(ucond) \in Nat
    BY DEF LexerInv, StackInv, LexerTypes, UriStackIs, UriStarts, UriRulesLeft
  <2>2. /\ LeftAtEnd = UriRulesLeft(ucond) + 2 * Len(stack)
                         + (IF cond = "COMMENT" THEN 1 ELSE 0) + 1
        /\ LeftAtEnd' = UriRulesLeft(ucond') + 2 * Len(stack')
                          + (IF cond' = "COMMENT" THEN 1 ELSE 0) + (IF lexing' THEN 1 ELSE 0)
    BY DEF LeftAtEnd
  <2>3. CASE EntityCharacter \/ (AtEnd /\ cond \notin {"INITIAL", "COMMENT"})
    <3>1. cond \notin {"INITIAL", "COMMENT"} /\ Leave(1) /\ lexing' /\ ucond' = ucond
      BY <2>3 DEF EntityCharacter, AtEnd, inputVars, uriVars
    <3>2. 1 \in 1..Len(stack)
      BY <2>1, <3>1, SomethingBelow
    <3>3. Len(stack') = Len(stack) - 1
      BY <2>1, <3>1, <3>2, PopIs DEF StackInv
    <3> QED
      BY <2>1, <2>2, <3>1, <3>3
  <2>4. CASE AtEnd /\ cond \in {"INITIAL", "COMMENT"}
    <3>1. /\ stack' = stack /\ ucond' = ucond /\ cond' = "INITIAL"
          /\ (cond = "INITIAL" /\ ~lexing') \/ (cond = "COMMENT" /\ lexing')
      BY <2>4 DEF AtEnd, Become, uriVars
    <3> QED
      BY <2>1, <2>2, <3>1
  <2>5. CASE LexLink \/ SaveLink
    <3>1. /\ UriRulesLeft(ucond') \in Nat /\ UriRulesLeft(ucond') < UriRulesLeft(ucond)
          /\ cond' = cond /\ stack' = stack /\ lexing'
      BY <2>1, <2>5, UriGoesOn
    <3> QED
      BY <2>1, <2>2, <3>1
  <2>6. ~Input
    BY DEF Input, StartPage, EndOfPage, OpenComment, CloseComment, CloseTag, OpenQuote,
       OpenUnquoted, Passed, OpenTag, Attribute, Text, Entity, IgnoreValue, CloseValue, Reads
  <2> QED
    BY <2>3, <2>4, <2>5, <2>6 DEF LexerNext, Work
<1> HIDE DEF Closer
<1>2. LexerSpec => [][Closer]_(lexerVars)
  BY <1>1, LexerNextKeeps, InitLexer, PTL DEF LexerSpec
<1> QED
  BY <1>2 DEF EndComesCloser, Closer

-------------------------------------------------------------------------------
(* UriLexer and save_link: what is known of a link and of what was taken of it, *)
(* condition by condition.                                                      *)

\* What is not matched yet is what the link has from the r-th place of the order on.
Ordered(l) == \A i, j \in 1..Len(l) : i < j => Order(l[i]) < Order(l[j])
Remaining(r) ==
    /\ rest \in Seq(UriParts) /\ Ordered(rest)
    /\ \A p \in UriParts : Contains(rest, p) <=> Contains(link, p) /\ r <= Order(p)

\* The parts of _uri.
UriTexts == UriParts \cup {None, "server", "reg_name"}
UriType == uri \in [scheme : UriTexts, authority : UriTexts, userinfo : UriTexts,
                    host : UriTexts, port : UriTexts, path : Seq(UriParts),
                    query : UriTexts, fragment : UriTexts]
SchemeIs == uri.scheme = Of(link, Schemes)
NoServer == /\ uri.authority = None /\ uri.userinfo = None
            /\ uri.host = None /\ uri.port = None
NoPath == uri.path = <<>> /\ uri.query = None /\ uri.fragment = None
ServerIs(u, h, p) ==
    /\ Contains(link, "//") /\ uri.authority = "server"
    /\ uri.userinfo = u /\ uri.host = h /\ uri.port = p
User == Of(link, {"user@"})
Name == Of(link, {"name"})
PortOf == Of(link, {":80"})
AuthorityIs ==
    \/ ~Contains(link, "//") /\ NoServer
    \/ ServerIs(User, Name, PortOf)
    \/ Contains(link, "//") /\ Contains(link, "_x") /\ uri.authority = "reg_name"
PathIs ==
    /\ uri.path = IfHas(link, "/dir")
    /\ Contains(link, "//") \/ (~Contains(link, "name") /\ ~Contains(link, "_x"))
FrontIsRight == SchemeIs /\ AuthorityIs /\ PathIs

\* A path for which nothing is saved, of a link of which nothing is to be.
Unfollowed == NotFollowed(link) /\ uri.path # <<>> /\ Head(uri.path) # "/dir"
\* A query alone, of which nothing is taken.
QueryAlone == NotFollowed(link) /\ uri.scheme = None /\ NoServer /\ NoPath

\* Whether there was a scheme is the first that the stack remembers.
WayIs ==
    IF ustack[1] = "SCHEME" THEN uri.scheme # None /\ rest # <<>> /\ Head(rest) # "#f"
                            ELSE uri.scheme = None /\ ~Sees({"name", "_x"})

UriIs ==
    /\ ucond = "SCHEME" => rest = link /\ Remaining(1) /\ uri.scheme = None /\ NoServer /\ NoPath
    /\ ucond = "REL_PATH" =>
          Remaining(2) /\ SchemeIs /\ uri.scheme = None /\ NoServer /\ NoPath
    /\ ucond = "AUTHORITY" => Remaining(2) /\ SchemeIs /\ NoServer /\ NoPath /\ WayIs
    /\ ucond = "USERINFO" => Remaining(3) /\ SchemeIs /\ ServerIs(None, None, None) /\ NoPath
    /\ ucond = "HOST" => Remaining(4) /\ SchemeIs /\ ServerIs(User, None, None) /\ NoPath
    /\ ucond = "PORT" => Remaining(5) /\ SchemeIs /\ ServerIs(User, Name, None) /\ NoPath
    /\ ucond = "REG_NAME" =>
          Remaining(6) /\ SchemeIs /\ ServerIs(User, Name, PortOf) /\ NoPath
    /\ ucond = "ABS_PATH" =>
          /\ SchemeIs /\ NoPath
          /\ \/ Len(ustack) = 1 /\ Remaining(7) /\ AuthorityIs /\ Contains(link, "//")
             \/ Len(ustack) = 2 /\ Remaining(3) /\ NoServer /\ ~Contains(link, "//") /\ WayIs
    /\ ucond = "OPAQUE_PART" => /\ NotFollowed(link) /\ uri.path = <<>>
                                /\ rest \in Seq(UriParts) /\ rest # <<>>
                                /\ Head(rest) \notin {"/dir", "//", "#f"}
    /\ ucond = "QUERY" =>
          Unfollowed \/ (Remaining(8) /\ FrontIsRight /\ uri.query = None /\ uri.fragment = None)
    /\ ucond = "FRAGMENT" =>
          \/ Unfollowed \/ (QueryAlone /\ Sees({"?q"}))
          \/ /\ Remaining(9) /\ FrontIsRight
             /\ uri.query = Of(link, {"?q"}) /\ uri.fragment = None
    /\ ucond = "ACCEPT" =>
          \/ Unfollowed \/ QueryAlone
          \/ FrontIsRight /\ uri.query = Of(link, {"?q"}) /\ uri.fragment = Of(link, {"#f"})

UriInv == IsReference(link) /\ UriType /\ UriIs /\ UriStackIs

\* The text that may become a link is a reference as well.
LinkInv ==
    /\ IsReference(buf) /\ UriInv
    /\ \E S : uris \in Seq(S)
    /\ LinksAreRight

-------------------------------------------------------------------------------
(* The order of the parts. *)

LEMMA OrderIs == \A p \in UriParts : Order(p) \in 1..9
BY DEF UriParts, Order, Schemes

\* One order, one part, but for the schemes.
LEMMA OrdersDiffer ==
    \A p, q \in UriParts : Order(p) = Order(q) /\ p \notin Schemes => p = q
BY DEF UriParts, Order, Schemes

LEMMA OnlySchemesAreFirst == \A p \in UriParts : Order(p) = 1 <=> p \in Schemes
BY DEF UriParts, Order, Schemes

\* The head of what remains is the first of its parts.
LEMMA HeadIs ==
    ASSUME NEW s \in Seq(UriParts), s # <<>>
    PROVE  Head(s) = s[1] /\ s[1] \in UriParts /\ 1 \in 1..Len(s) /\ Contains(s, Head(s))
<1>1. Len(s) \in Nat /\ Len(s) # 0
  BY EmptySeq, LenProperties
<1>2. 1 \in 1..Len(s)
  BY <1>1
<1>3. s[1] \in UriParts /\ Head(s) = s[1]
  BY <1>2, ElementOfSeq, HeadTailProperties
<1> QED
  BY <1>2, <1>3, LenProperties DEF Contains

LEMMA HeadIsFirst ==
    ASSUME NEW s \in Seq(UriParts), Ordered(s), NEW p \in UriParts, Contains(s, p)
    PROVE  /\ s # <<>> /\ Head(s) \in UriParts /\ Contains(s, Head(s))
           /\ Head(s) = p \/ Order(Head(s)) < Order(p)
<1>1. PICK i \in 1..Len(s) : s[i] = p
  BY LenProperties DEF Contains
<1>2. s # <<>>
  <2> SUFFICES ASSUME s = <<>> PROVE FALSE
    OBVIOUS
  <2>1. Len(s) = 0
    OBVIOUS
  <2> QED
    BY <1>1, <2>1
<1>3. Head(s) = s[1] /\ s[1] \in UriParts /\ 1 \in 1..Len(s) /\ Contains(s, Head(s))
  BY <1>2, HeadIs
<1>4. CASE i = 1
  BY <1>1, <1>2, <1>3, <1>4
<1>5. CASE i # 1
  <2>1. 1 < i
    BY <1>5
  <2> QED
    BY <1>1, <1>2, <1>3, <2>1 DEF Ordered
<1> QED
  BY <1>4, <1>5

\* Without its head it has what comes behind.
LEMMA TailIs ==
    ASSUME NEW s \in Seq(UriParts), s # <<>>, Ordered(s),
           NEW t, t \in {SubSeq(s, 2, Len(s)), Tail(s)}
    PROVE  /\ t \in Seq(UriParts) /\ Ordered(t)
           /\ \A p \in UriParts : Contains(t, p) <=> Contains(s, p) /\ Order(Head(s)) < Order(p)
<1>1. Head(s) = s[1] /\ s[1] \in UriParts /\ 1 \in 1..Len(s)
  BY HeadIs
<1>2. PICK N \in Nat : N = Len(s) /\ N >= 1
  BY <1>1, LenProperties
<1>3. t \in Seq(UriParts) /\ Len(t) = N - 1 /\ \A i \in 1..(N - 1) : t[i] = s[1 + i]
  <2>1. CASE t = SubSeq(s, 2, Len(s))
    <3>1. 2 \in 1..Len(s) + 1 /\ Len(s) \in (2 - 1)..Len(s)
      BY <1>2
    <3>2. /\ SubSeq(s, 2, Len(s)) \in Seq(UriParts)
          /\ Len(SubSeq(s, 2, Len(s))) = Len(s) - (2 - 1)
          /\ \A i \in 1..Len(s) - (2 - 1) : SubSeq(s, 2, Len(s))[i] = s[(2 - 1) + i]
      BY <3>1, PartIs
    <3>3. 2 - 1 = 1
      OBVIOUS
    <3> QED
      BY <1>2, <2>1, <3>2, <3>3
  <2>2. CASE t = Tail(s)
    BY <1>2, <2>2, HeadTailProperties
  <2> QED
    BY <2>1, <2>2
<1>4. Ordered(t)
  <2> SUFFICES ASSUME NEW i \in 1..Len(t), NEW j \in 1..Len(t), i < j
               PROVE  Order(t[i]) < Order(t[j])
    BY DEF Ordered
  <2>1. 1 + i \in 1..Len(s) /\ 1 + j \in 1..Len(s) /\ 1 + i < 1 + j
    BY <1>2, <1>3
  <2>2. t[i] = s[1 + i] /\ t[j] = s[1 + j]
    BY <1>3
  <2> QED
    BY <2>1, <2>2 DEF Ordered
<1>5. ASSUME NEW p \in UriParts, Contains(t, p) PROVE Contains(s, p) /\ Order(Head(s)) < Order(p)
  <2>1. PICK i \in 1..Len(t) : t[i] = p
    BY <1>3, <1>5, LenProperties DEF Contains
  <2>2. 1 + i \in 1..Len(s) /\ 1 < 1 + i /\ s[1 + i] = p
    BY <1>2, <1>3, <2>1
  <2> QED
    BY <1>1, <2>2, LenProperties DEF Contains, Ordered
<1>6. ASSUME NEW p \in UriParts, Contains(s, p), Order(Head(s)) < Order(p) PROVE Contains(t, p)
  <2>1. PICK i \in 1..Len(s) : s[i] = p
    BY <1>6, LenProperties DEF Contains
  <2>2. i # 1
    BY <1>1, <1>6, <2>1, OrderIs
  <2>3. i - 1 \in 1..Len(t) /\ t[i - 1] = s[1 + (i - 1)] /\ 1 + (i - 1) = i
    BY <1>2, <1>3, <2>2
  <2> QED
    BY <1>3, <2>1, <2>3, LenProperties DEF Contains
<1> QED
  BY <1>3, <1>4, <1>5, <1>6

LEMMA NoneIsNoPart == \A p \in UriParts : p # None
BY DEF UriParts, Schemes, None

LEMMA OfIs ==
    ASSUME NEW l, IsReference(l), NEW parts \in SUBSET UriParts,
           \A p, q \in parts : Order(p) = Order(q)
    PROVE  /\ \A p \in parts : Contains(l, p) => Of(l, parts) = p
           /\ (\A p \in parts : ~Contains(l, p)) => Of(l, parts) = None
<1>1. l \in Seq(UriParts) /\ DOMAIN l = 1..Len(l) /\ \A i \in 1..Len(l) : l[i] \in UriParts
  BY LenProperties, ElementOfSeq DEF IsReference
<1>2. \A i, j \in 1..Len(l) : i < j => Order(l[i]) < Order(l[j])
  BY <1>1 DEF IsReference
<1>3. ASSUME NEW p \in parts, Contains(l, p) PROVE Of(l, parts) = p
  <2>1. PICK i \in 1..Len(l) : l[i] = p
    BY <1>3 DEF Contains
  <2> DEFINE k == CHOOSE j \in DOMAIN l : l[j] \in parts
  <2>2. k \in 1..Len(l) /\ l[k] \in parts
    BY <1>1, <2>1
  <2>3. Of(l, parts) = l[k]
    BY <1>1, <2>1 DEF Of
  <2> HIDE DEF k
  <2>4. Order(l[k]) = Order(l[i]) /\ Order(l[i]) \in 1..9
    BY <2>1, <2>2, OrderIs
  <2>5. ~(k < i) /\ ~(i < k)
    BY <1>2, <2>1, <2>2, <2>4
  <2>6. k = i
    BY <2>1, <2>2, <2>5, <1>1, LenProperties
  <2> QED
    BY <2>1, <2>3, <2>6
<1>4. ASSUME \A p \in parts : ~Contains(l, p) PROVE Of(l, parts) = None
  <2>1. ~ \E i \in DOMAIN l : l[i] \in parts
    BY <1>1, <1>4 DEF Contains
  <2> QED
    BY <2>1 DEF Of
<1> QED
  BY <1>3, <1>4

\* A part other than a scheme is there, or is not.
LEMMA OfPart ==
    ASSUME NEW l, IsReference(l), NEW p \in UriParts \ Schemes
    PROVE  Of(l, {p}) = (IF Contains(l, p) THEN p ELSE None)
<1>1. {p} \in SUBSET UriParts /\ \A q, x \in {p} : Order(q) = Order(x)
  OBVIOUS
<1> QED
  BY <1>1, OfIs

LEMMA OfScheme ==
    ASSUME NEW l, IsReference(l)
    PROVE  /\ \A p \in Schemes : Contains(l, p) => Of(l, Schemes) = p
           /\ (\A p \in Schemes : ~Contains(l, p)) => Of(l, Schemes) = None
           /\ Of(l, Schemes) \in {None, "http:", "ftp:"}
<1>1. Schemes \in SUBSET UriParts /\ \A q, x \in Schemes : Order(q) = Order(x)
  BY OnlySchemesAreFirst DEF UriParts
<1>2. /\ \A p \in Schemes : Contains(l, p) => Of(l, Schemes) = p
      /\ (\A p \in Schemes : ~Contains(l, p)) => Of(l, Schemes) = None
  BY <1>1, OfIs
<1>3. CASE \E p \in Schemes : Contains(l, p)
  <2>1. PICK p \in Schemes : Contains(l, p)
    BY <1>3
  <2>2. Of(l, Schemes) = p
    BY <1>2, <2>1
  <2> QED
    BY <1>2, <2>2 DEF Schemes
<1> QED
  BY <1>2, <1>3

\* What a condition sees is there, and what it does not see is not.
LEMMA SeesIs ==
    ASSUME NEW r \in 1..9, Remaining(r), NEW parts \in SUBSET UriParts,
           \A p \in parts : Order(p) = r
    PROVE  /\ \A p \in parts : Contains(link, p) => Sees(parts) /\ Head(rest) = p
           /\ Sees(parts) => Head(rest) \in parts /\ Contains(link, Head(rest))
<1>1. /\ rest \in Seq(UriParts) /\ Ordered(rest)
      /\ \A p \in UriParts : Contains(rest, p) <=> Contains(link, p) /\ r <= Order(p)
  BY DEF Remaining
<1>2. ASSUME NEW p \in parts, Contains(link, p) PROVE Sees(parts) /\ Head(rest) = p
  <2>1. p \in UriParts /\ Order(p) = r /\ Contains(rest, p)
    BY <1>1, <1>2
  <2>2. /\ rest # <<>> /\ Head(rest) \in UriParts /\ Contains(rest, Head(rest))
        /\ Head(rest) = p \/ Order(Head(rest)) < Order(p)
    BY <1>1, <2>1, HeadIsFirst
  <2>3. r <= Order(Head(rest)) /\ Order(Head(rest)) \in 1..9
    BY <1>1, <2>2, OrderIs
  <2> QED
    BY <1>2, <2>1, <2>2, <2>3 DEF Sees
<1>3. ASSUME Sees(parts) PROVE Head(rest) \in parts /\ Contains(link, Head(rest))
  <2>1. rest # <<>> /\ Head(rest) \in parts
    BY <1>3 DEF Sees
  <2> QED
    BY <1>1, <2>1, HeadIs
<1> QED
  BY <1>2, <1>3

LEMMA SeesOne ==
    ASSUME NEW r \in 1..9, Remaining(r), NEW p \in UriParts, Order(p) = r
    PROVE  /\ Contains(link, p) => Sees({p}) /\ Head(rest) = p
           /\ Sees({p}) => Head(rest) = p /\ Contains(link, p)
<1>1. {p} \in SUBSET UriParts /\ \A q \in {p} : Order(q) = r
  OBVIOUS
<1>2. /\ \A q \in {p} : Contains(link, q) => Sees({p}) /\ Head(rest) = q
      /\ Sees({p}) => Head(rest) \in {p} /\ Contains(link, Head(rest))
  BY <1>1, SeesIs
<1> QED
  BY <1>2

\* A condition that sees its part takes it, and the next one has what comes behind.
LEMMA TakenIs ==
    ASSUME NEW r \in 1..9, Remaining(r), rest # <<>>, NEW k \in 1..9, Order(Head(rest)) = k,
           rest' \in {SubSeq(rest, 2, Len(rest)), Tail(rest)}, link' = link
    PROVE  Remaining(k + 1)'
<1>1. /\ rest \in Seq(UriParts) /\ Ordered(rest)
      /\ \A p \in UriParts : Contains(rest, p) <=> Contains(link, p) /\ r <= Order(p)
  BY DEF Remaining
<1>2. /\ rest' \in Seq(UriParts) /\ Ordered(rest')
      /\ \A p \in UriParts : Contains(rest', p) <=> Contains(rest, p) /\ k < Order(p)
  BY <1>1, TailIs
<1>3. Head(rest) \in UriParts /\ Contains(rest, Head(rest))
  BY <1>1, HeadIs
<1>4. r <= k
  BY <1>1, <1>3
<1>5. ASSUME NEW p \in UriParts
      PROVE  Contains(rest', p) <=> Contains(link', p) /\ k + 1 <= Order(p)
  BY <1>1, <1>2, <1>4, OrderIs
<1> QED
  BY <1>2, <1>5 DEF Remaining, Ordered

\* Where the link has no part of an order, the condition for it may be skipped.
LEMMA SkippedIs ==
    ASSUME NEW r \in 1..9, Remaining(r), NEW k \in r..10,
           \A p \in UriParts : Contains(link, p) /\ r <= Order(p) => k <= Order(p),
           rest' = rest, link' = link
    PROVE  Remaining(k)'
<1>1. /\ rest \in Seq(UriParts) /\ Ordered(rest)
      /\ \A p \in UriParts : Contains(rest, p) <=> Contains(link, p) /\ r <= Order(p)
  BY DEF Remaining
<1>2. \A p \in UriParts : Contains(rest, p) <=> Contains(link, p) /\ k <= Order(p)
  BY <1>1, OrderIs
<1> QED
  BY <1>1, <1>2 DEF Remaining, Ordered

\* Of the orders before its head nothing remains.
LEMMA GapIs ==
    ASSUME NEW r \in 1..9, Remaining(r)
    PROVE  /\ rest = <<>> => \A p \in UriParts : Contains(link, p) => Order(p) < r
           /\ rest # <<>> =>
                 /\ Head(rest) \in UriParts /\ Contains(link, Head(rest)) /\ r <= Order(Head(rest))
                 /\ \A p \in UriParts : Contains(link, p) /\ r <= Order(p) =>
                        p = Head(rest) \/ Order(Head(rest)) < Order(p)
<1>1. /\ rest \in Seq(UriParts) /\ Ordered(rest)
      /\ \A p \in UriParts : Contains(rest, p) <=> Contains(link, p) /\ r <= Order(p)
  BY DEF Remaining
<1>2. ASSUME rest = <<>>, NEW p \in UriParts, Contains(link, p) PROVE Order(p) < r
  <2>1. ~Contains(rest, p)
    <3>1. Len(rest) = 0
      BY <1>2
    <3> QED
      BY <3>1 DEF Contains
  <2> QED
    BY <1>1, <1>2, <2>1, OrderIs
<1>3. ASSUME rest # <<>>
      PROVE  /\ Head(rest) \in UriParts /\ Contains(link, Head(rest)) /\ r <= Order(Head(rest))
             /\ \A p \in UriParts : Contains(link, p) /\ r <= Order(p) =>
                    p = Head(rest) \/ Order(Head(rest)) < Order(p)
  <2>1. Head(rest) \in UriParts /\ Contains(rest, Head(rest))
    BY <1>1, <1>3, HeadIs
  <2>2. \A p \in UriParts : Contains(rest, p) =>
            p = Head(rest) \/ Order(Head(rest)) < Order(p)
    BY <1>1, HeadIsFirst
  <2> QED
    BY <1>1, <2>1, <2>2
<1> QED
  BY <1>2, <1>3

-------------------------------------------------------------------------------
(* What a rule does to _uri. *)

Fields == {"scheme", "authority", "userinfo", "host", "port", "query", "fragment"}

LEMMA FieldIs ==
    ASSUME UriType, NEW f \in Fields, NEW v \in UriTexts, uri' = [uri EXCEPT ![f] = v]
    PROVE  /\ UriType' /\ uri'[f] = v /\ uri'.path = uri.path
           /\ \A g \in Fields : g # f => uri'[g] = uri[g]
BY DEF UriType, Fields

LEMMA PathChanges ==
    ASSUME UriType, NEW v \in Seq(UriParts), uri' = [uri EXCEPT !["path"] = v]
    PROVE  /\ UriType' /\ uri'.path = v
           /\ \A g \in Fields : uri'[g] = uri[g]
BY DEF UriType, Fields

\* A condition for one part: it is found if the link has it.
LEMMA PartTakes ==
    ASSUME NEW r \in 1..9, Remaining(r), IsReference(link), UriType,
           NEW p \in UriParts \ Schemes, Order(p) = r, NEW f \in Fields, uri[f] = None,
           NEW c, NEW found, NEW missing, Part(c, {p}, f, found, missing)
    PROVE  /\ Remaining(r + 1)' /\ UriType' /\ link' = link
           /\ uri'[f] = Of(link, {p}) /\ uri'.path = uri.path
           /\ \A g \in Fields : g # f => uri'[g] = uri[g]
           /\ ucond' = IF Contains(link, p) THEN found ELSE missing
<1>1. link' = link /\ Of(link, {p}) = (IF Contains(link, p) THEN p ELSE None)
  BY OfPart DEF Part
<1>2. /\ Contains(link, p) => Sees({p}) /\ Head(rest) = p
      /\ Sees({p}) => Head(rest) = p /\ Contains(link, p)
  BY SeesOne
<1>3. CASE Sees({p})
  <2>1. /\ Contains(link, p) /\ Head(rest) = p /\ rest # <<>>
        /\ Matched(f, Head(rest), 1) /\ Begin(found)
    BY <1>2, <1>3 DEF Part, Sees
  <2>2. rest' = SubSeq(rest, 2, Len(rest)) /\ uri' = [uri EXCEPT ![f] = p]
    <3>1. rest' = SubSeq(rest, 1 + 1, Len(rest)) /\ uri' = [uri EXCEPT ![f] = Head(rest)]
      BY <2>1 DEF Matched
    <3>2. 1 + 1 = 2
      OBVIOUS
    <3> QED
      BY <2>1, <3>1, <3>2
  <2>3. Remaining(r + 1)'
    BY <1>1, <2>1, <2>2, TakenIs
  <2>4. /\ UriType' /\ uri'[f] = p /\ uri'.path = uri.path
        /\ \A g \in Fields : g # f => uri'[g] = uri[g]
    BY <2>2, FieldIs DEF UriTexts
  <2> QED
    BY <1>1, <2>1, <2>3, <2>4 DEF Begin
<1>4. CASE ~Sees({p})
  <2>1. ~Contains(link, p) /\ rest' = rest /\ uri' = uri /\ ucond' = missing
    BY <1>2, <1>4 DEF Part, Unmatched, Begin
  <2>2. ASSUME NEW q \in UriParts, Contains(link, q), r <= Order(q) PROVE r + 1 <= Order(q)
    <3>1. Order(q) # r
      BY <2>1, <2>2, OrdersDiffer
    <3> QED
      BY <2>2, <3>1, OrderIs
  <2>3. Remaining(r + 1)'
    <3>1. r + 1 \in r..10
      OBVIOUS
    <3> QED
      BY <1>1, <2>1, <2>2, <3>1, SkippedIs
  <2>4. UriType'
    BY <2>1 DEF UriType
  <2> QED
    BY <1>1, <2>1, <2>3, <2>4
<1> QED
  BY <1>3, <1>4

\* What a path is.
LEMMA PathOfIs ==
    ASSUME IsReference(link)
    PROVE  /\ HasAuthority(link) <=> Contains(link, "//")
           /\ Contains(link, "//") => PathOf(link) = IfHas(link, "/dir")
           /\ ~Contains(link, "name") /\ ~Contains(link, "_x") =>
                  PathOf(link) = IfHas(link, "/dir")
           /\ ~Contains(link, "//") /\ (Contains(link, "name") \/ Contains(link, "_x")) =>
                  PathOf(link) # <<>> /\ Head(PathOf(link)) # "/dir"
           /\ IfHas(link, "/dir") = IF Contains(link, "/dir") THEN <<"/dir">> ELSE <<>>
<1>1. /\ {"//", "name", "_x", "/dir"} \subseteq UriParts \ Schemes
      /\ \A p \in {"//", "name", "_x", "/dir"} : p # None
  BY DEF UriParts, Schemes, None
<1>2. HasAuthority(link) <=> Contains(link, "//")
  BY <1>1, OfPart DEF HasAuthority
<1>3. \A p \in {"name", "_x", "/dir"} :
          IfHas(link, p) = IF Contains(link, p) THEN <<p>> ELSE <<>>
  BY <1>1, OfPart DEF IfHas
<1>4. IfHas(link, "/dir") \in Seq(UriParts)
  <2>1. <<"/dir">> \in Seq(UriParts) /\ <<>> \in Seq(UriParts)
    BY <1>1
  <2> QED
    BY <1>3, <2>1
<1>5. <<>> \o IfHas(link, "/dir") = IfHas(link, "/dir") /\ <<>> \o <<>> = <<>>
  BY <1>4
<1>6. Contains(link, "//") => PathOf(link) = IfHas(link, "/dir")
  BY <1>2, <1>5 DEF PathOf
<1>7. ~Contains(link, "name") /\ ~Contains(link, "_x") => PathOf(link) = IfHas(link, "/dir")
  BY <1>2, <1>3, <1>5 DEF PathOf
<1>8. ASSUME ~Contains(link, "//"), Contains(link, "name") \/ Contains(link, "_x")
      PROVE  PathOf(link) # <<>> /\ Head(PathOf(link)) # "/dir"
  <2>1. ~Contains(link, "name") \/ ~Contains(link, "_x")
    BY <1>8 DEF IsReference
  <2>2. PICK p \in {"name", "_x"} : IfHas(link, "name") \o IfHas(link, "_x") = <<p>>
    <3>1. <<"name">> \o <<>> = <<"name">> /\ <<>> \o <<"_x">> = <<"_x">>
      OBVIOUS
    <3> QED
      BY <1>3, <1>8, <2>1, <3>1
  <2>3. PathOf(link) = <<p>> \o IfHas(link, "/dir")
    BY <1>2, <1>8, <2>2 DEF PathOf
  <2> DEFINE t == IfHas(link, "/dir")
             u == <<p>> \o t
  <2>4. <<p>> \in Seq(UriParts) /\ Len(<<p>>) = 1 /\ <<p>>[1] = p
    <3>1. p \in UriParts
      BY <1>1
    <3> QED
      BY <3>1
  <2>5. u \in Seq(UriParts) /\ Len(u) = 1 + Len(t) /\ u[1] = p /\ Len(t) \in Nat
    <3> HIDE DEF t
    <3>1. t \in Seq(UriParts) /\ Len(t) \in Nat
      BY <1>4, LenProperties DEF t
    <3>2. 1 \in 1..Len(<<p>>) + Len(t) /\ 1 <= Len(<<p>>)
      BY <2>4, <3>1
    <3> QED
      BY <2>4, <3>1, <3>2, ConcatProperties
  <2> HIDE DEF t, u
  <2>6. u # <<>> /\ Head(u) = p
    <3>1. Len(u) # 0
      BY <2>5
    <3>2. u # <<>>
      BY <2>5, <3>1, EmptySeq
    <3> QED
      BY <2>5, <3>2, HeadTailProperties
  <2>7. p # "/dir"
    OBVIOUS
  <2> QED
    BY <2>3, <2>6, <2>7 DEF u, t
<1> QED
  BY <1>2, <1>3, <1>6, <1>7, <1>8

-------------------------------------------------------------------------------
(* Each rule of UriLexer. *)

UriKept == UriType' /\ UriIs' /\ link' = link

LEMMA PlaceIs ==
    /\ Order("//") = 2 /\ Order("user@") = 3 /\ Order("name") = 4 /\ Order(":80") = 5
    /\ Order("_x") = 6 /\ Order("/dir") = 7 /\ Order("?q") = 8 /\ Order("#f") = 9
    /\ {"//", "user@", "name", ":80", "_x", "/dir", "?q", "#f"} \subseteq UriParts \ Schemes
    /\ UriParts = Schemes \cup {"//", "user@", "name", ":80", "_x", "/dir", "?q", "#f"}
BY DEF Order, UriParts, Schemes

LEMMA PushedIs ==
    ASSUME UriStackIs, NEW c \in UriStarts, Push(c)
    PROVE  /\ ucond' = c /\ Len(ustack') = Len(ustack) + 1
           /\ Len(ustack) = 0 => ustack'[1] = ucond
           /\ Len(ustack) = 1 => ustack'[1] = ustack[1] /\ ustack'[2] = ucond
<1>1. /\ ucond' = c /\ Len(ustack') = Len(ustack) + 1 /\ ustack'[Len(ustack) + 1] = ucond
      /\ \A i \in 1..Len(ustack) : ustack'[i] = ustack[i]
  BY PushIs
<1>2. Len(ustack) = 0 => ustack'[1] = ucond
  <2> SUFFICES ASSUME Len(ustack) = 0 PROVE ustack'[1] = ucond
    OBVIOUS
  <2>1. ustack'[0 + 1] = ucond /\ 0 + 1 = 1
    BY <1>1
  <2> QED
    BY <2>1
<1>3. Len(ustack) = 1 => ustack'[1] = ustack[1] /\ ustack'[2] = ucond
  <2> SUFFICES ASSUME Len(ustack) = 1 PROVE ustack'[1] = ustack[1] /\ ustack'[2] = ucond
    OBVIOUS
  <2>1. ustack'[1 + 1] = ucond /\ 1 + 1 = 2 /\ 1 \in 1..1
    BY <1>1
  <2> QED
    BY <1>1, <2>1
<1> QED
  BY <1>1, <1>2, <1>3

LEMMA FirstIs ==
    ASSUME UriType, Matched("scheme", Head(rest), 1)
    PROVE  rest' = SubSeq(rest, 2, Len(rest)) /\ uri' = [uri EXCEPT !["scheme"] = Head(rest)]
BY DEF Matched

LEMMA SchemeKeeps == ASSUME UriInv, Scheme PROVE UriKept
<1>1. /\ ucond = "SCHEME" /\ rest = link /\ Remaining(1) /\ uri.scheme = None
      /\ NoServer /\ NoPath /\ link' = link /\ Len(ustack) = 0 /\ UriStackIs
      /\ IsReference(link) /\ UriType
  BY DEF UriInv, UriIs, Scheme, UriStackIs
<1>2. Schemes \in SUBSET UriParts /\ \A p \in Schemes : Order(p) = 1
  BY OnlySchemesAreFirst, PlaceIs
<1>3. /\ \A p \in Schemes : Contains(link, p) => Sees(Schemes) /\ Head(rest) = p
      /\ Sees(Schemes) => Head(rest) \in Schemes /\ Contains(link, Head(rest))
  <2>1. 1 \in 1..9 /\ Remaining(1)
    BY <1>1
  <2> QED
    BY <1>2, <2>1, SeesIs, Zenon
<1>4. CASE Sees(Schemes) /\ Len(rest) > 1 /\ rest[2] # "#f"
  <2>1. /\ rest # <<>> /\ Head(rest) \in Schemes /\ Of(link, Schemes) = Head(rest)
        /\ Order(Head(rest)) = 1 /\ Head(rest) \in UriTexts
    BY <1>1, <1>2, <1>3, <1>4, OfScheme DEF Sees, UriTexts
  <2>2. Matched("scheme", Head(rest), 1) /\ Push("AUTHORITY")
    BY <1>4 DEF Scheme
  <2>3. rest' = SubSeq(rest, 2, Len(rest)) /\ uri' = [uri EXCEPT !["scheme"] = Head(rest)]
    BY <1>1, <2>2, FirstIs
  <2>4. /\ UriType' /\ uri'["scheme"] = Head(rest) /\ uri'.path = uri.path
        /\ \A g \in Fields : g # "scheme" => uri'[g] = uri[g]
    <3>1. "scheme" \in Fields
      BY DEF Fields
    <3> QED
      BY <1>1, <2>1, <2>3, <3>1, FieldIs
  <2>5. SchemeIs' /\ NoServer' /\ NoPath' /\ uri'.scheme # None
    <3>1. Head(rest) # None
      BY <2>1 DEF Schemes, None
    <3> QED
      BY <1>1, <2>1, <2>4, <3>1 DEF SchemeIs, NoServer, NoPath, Fields
  <2>6. Remaining(2)'
    <3>1. Remaining(1 + 1)' /\ 1 + 1 = 2
      BY <1>1, <2>1, <2>3, TakenIs
    <3> QED
      BY <3>1
  <2>7. ucond' = "AUTHORITY" /\ ustack'[1] = "SCHEME"
    <3>1. "AUTHORITY" \in UriStarts
      BY DEF UriStarts
    <3> QED
      BY <1>1, <2>2, <3>1, PushedIs
  <2>8. rest' # <<>> /\ Head(rest') # "#f"
    <3>1. rest \in Seq(UriParts) /\ 2 \in 1..Len(rest) + 1 /\ Len(rest) \in (2 - 1)..Len(rest)
      BY <1>1, <1>4, LenProperties DEF Remaining
    <3>2. /\ rest' \in Seq(UriParts) /\ Len(rest') = Len(rest) - (2 - 1)
          /\ \A i \in 1..Len(rest) - (2 - 1) : rest'[i] = rest[(2 - 1) + i]
      BY <2>3, <3>1, PartIs
    <3>3. 1 \in 1..Len(rest) - (2 - 1) /\ (2 - 1) + 1 = 2 /\ Len(rest') # 0
      BY <1>4, <3>1, <3>2, LenProperties
    <3>4. rest'[1] = rest[2] /\ rest' # <<>>
      BY <3>2, <3>3
    <3> QED
      BY <1>4, <3>2, <3>4, HeadIs
  <2>9. WayIs'
    BY <2>5, <2>7, <2>8 DEF WayIs
  <2> QED
    BY <1>1, <2>4, <2>5, <2>6, <2>7, <2>9 DEF UriKept, UriIs
<1>5. CASE ~(Sees(Schemes) /\ Len(rest) > 1 /\ rest[2] # "#f")
  <2>1. rest' = rest /\ uri' = uri /\ ucond' = "REL_PATH"
    BY <1>5 DEF Scheme, Unmatched, Begin
  <2>2. ~Sees(Schemes)
    <3> SUFFICES ASSUME Sees(Schemes) PROVE FALSE
      OBVIOUS
    <3>1. rest \in Seq(UriParts) /\ rest # <<>> /\ Head(rest) \in Schemes
      BY <1>1 DEF Sees, Remaining
    <3>2. link[1] \in Schemes /\ 1 \in 1..Len(link)
      BY <1>1, <3>1, HeadIs
    <3>3. 1 < Len(link) /\ link[1 + 1] # "#f" /\ 1 + 1 = 2
      BY <1>1, <3>1, <3>2, LenProperties DEF IsReference
    <3> QED
      BY <1>1, <1>5, <3>3
  <2>3. \A p \in Schemes : ~Contains(link, p)
    BY <1>3, <2>2
  <2>4. Of(link, Schemes) = None
    BY <1>1, <2>3, OfScheme
  <2>5. Remaining(2)'
    <3>1. ASSUME NEW p \in UriParts, Contains(link, p) PROVE 2 <= Order(p)
      <4>1. Order(p) # 1
        BY <2>3, <3>1, OnlySchemesAreFirst
      <4> QED
        BY <4>1, OrderIs
    <3>2. 2 \in 1..10
      OBVIOUS
    <3> QED
      BY <1>1, <2>1, <3>1, <3>2, SkippedIs
  <2>6. UriType' /\ SchemeIs' /\ uri'.scheme = None /\ NoServer' /\ NoPath'
    BY <1>1, <2>1, <2>4 DEF UriType, SchemeIs, NoServer, NoPath
  <2> QED
    BY <1>1, <2>1, <2>5, <2>6 DEF UriKept, UriIs
<1> QED
  BY <1>4, <1>5

LEMMA RelPathKeeps == ASSUME UriInv, RelPath PROVE UriKept
<1>1. /\ ucond = "REL_PATH" /\ Remaining(2) /\ SchemeIs /\ uri.scheme = None
      /\ NoServer /\ NoPath /\ link' = link /\ Len(ustack) = 0 /\ UriStackIs
      /\ IsReference(link) /\ UriType
  BY DEF UriInv, UriIs, RelPath, UriStackIs
<1>2. CASE Sees({"name", "_x"})
  <2>1. rest \in Seq(UriParts) /\ rest # <<>> /\ Head(rest) \in {"name", "_x"}
    BY <1>1, <1>2 DEF Sees, Remaining
  <2>2. PICK n \in {1, 2} : /\ n = 2 => Len(rest) > 1
                            /\ Matched("path", SubSeq(rest, 1, n), n) /\ Begin("QUERY")
    BY <1>2 DEF RelPath
  <2> DEFINE t == SubSeq(rest, 1, n)
  <2>3. t \in Seq(UriParts) /\ t # <<>> /\ Head(t) = Head(rest)
    <3>1. Head(rest) = rest[1] /\ 1 \in 1..Len(rest) /\ Len(rest) \in Nat
      BY <2>1, HeadIs, LenProperties
    <3>2. 1 \in 1..Len(rest) + 1 /\ n \in (1 - 1)..Len(rest)
      BY <2>2, <3>1
    <3>3. t \in Seq(UriParts) /\ Len(t) = n - (1 - 1)
          /\ \A i \in 1..n - (1 - 1) : t[i] = rest[(1 - 1) + i]
      BY <2>1, <3>2, PartIs
    <3> HIDE DEF t
    <3>4. Len(t) # 0 /\ 1 \in 1..n - (1 - 1) /\ (1 - 1) + 1 = 1
      BY <3>3
    <3>5. t # <<>> /\ t[1] = rest[1]
      BY <3>3, <3>4
    <3> QED
      BY <3>1, <3>3, <3>5, HeadIs
  <2>4. UriType' /\ uri'.path = t
    <3>1. uri' = [uri EXCEPT !["path"] = t]
      BY <2>2 DEF Matched
    <3> HIDE DEF t
    <3> QED
      BY <1>1, <2>3, <3>1, PathChanges
  <2> HIDE DEF t
  <2>5. ~Contains(link, "//") /\ (Contains(link, "name") \/ Contains(link, "_x"))
    <3>1. /\ Contains(link, Head(rest))
          /\ \A p \in UriParts : Contains(link, p) /\ 2 <= Order(p) =>
                 p = Head(rest) \/ Order(Head(rest)) < Order(p)
      BY <1>1, <2>1, GapIs
    <3> QED
      BY <2>1, <3>1, PlaceIs
  <2>6. NotFollowed(link)
    BY <1>1, <2>5, PathOfIs DEF NotFollowed
  <2>7. Unfollowed'
    BY <1>1, <2>1, <2>3, <2>4, <2>6 DEF Unfollowed
  <2> QED
    BY <1>1, <2>2, <2>4, <2>7 DEF UriKept, UriIs, Begin
<1>3. CASE ~Sees({"name", "_x"})
  <2>1. rest' = rest /\ uri' = uri /\ Push("AUTHORITY")
    BY <1>3 DEF RelPath, Unmatched
  <2>2. ucond' = "AUTHORITY" /\ ustack'[1] = "REL_PATH"
    <3>1. "AUTHORITY" \in UriStarts
      BY DEF UriStarts
    <3> QED
      BY <1>1, <2>1, <3>1, PushedIs
  <2>3. UriType' /\ SchemeIs' /\ NoServer' /\ NoPath' /\ Remaining(2)' /\ WayIs'
    BY <1>1, <1>3, <2>1, <2>2 DEF UriType, SchemeIs, NoServer, NoPath, Remaining, WayIs, Sees
  <2> QED
    BY <1>1, <2>2, <2>3 DEF UriKept, UriIs
<1> QED
  BY <1>2, <1>3

LEMMA AuthorityKeeps == ASSUME UriInv, Authority PROVE UriKept
<1>1. /\ ucond = "AUTHORITY" /\ Remaining(2) /\ SchemeIs /\ NoServer /\ NoPath /\ WayIs
      /\ link' = link /\ Len(ustack) = 1 /\ UriStackIs /\ IsReference(link) /\ UriType
  BY DEF UriInv, UriIs, Authority, UriStackIs
<1>2. /\ Contains(link, "//") => Sees({"//"})
      /\ Sees({"//"}) => Contains(link, "//") /\ Head(rest) = "//"
  <2>1. "//" \in UriParts /\ Order("//") = 2 /\ 2 \in 1..9
    BY PlaceIs
  <2> QED
    BY <1>1, <2>1, SeesOne
<1>3. CASE Sees({"//"})
  <2>1. rest # <<>> /\ Head(rest) = "//" /\ Contains(link, "//") /\ Order(Head(rest)) = 2
    BY <1>2, <1>3, PlaceIs DEF Sees
  <2>2. /\ ucond' = "USERINFO" /\ uri' = [uri EXCEPT !["authority"] = "server"]
        /\ rest' = SubSeq(rest, 2, Len(rest))
    BY <1>3 DEF Authority, Matched
  <2>3. /\ UriType' /\ uri'["authority"] = "server" /\ uri'.path = uri.path
        /\ \A g \in Fields : g # "authority" => uri'[g] = uri[g]
    <3>1. "authority" \in Fields /\ "server" \in UriTexts
      BY DEF Fields, UriTexts
    <3> QED
      BY <1>1, <2>2, <3>1, FieldIs
  <2>4. SchemeIs' /\ ServerIs(None, None, None)' /\ NoPath'
    BY <1>1, <2>1, <2>3 DEF SchemeIs, NoServer, ServerIs, NoPath, Fields, None
  <2>5. Remaining(3)'
    <3>1. Remaining(2 + 1)' /\ 2 + 1 = 3
      BY <1>1, <2>1, <2>2, TakenIs
    <3> QED
      BY <3>1
  <2> QED
    BY <1>1, <2>2, <2>3, <2>4, <2>5 DEF UriKept, UriIs
<1>4. CASE ~Sees({"//"})
  <2>1. rest' = rest /\ uri' = uri /\ Push("ABS_PATH")
    BY <1>4 DEF Authority, Unmatched
  <2>2. ucond' = "ABS_PATH" /\ Len(ustack') = 2 /\ ustack'[1] = ustack[1]
    <3>1. "ABS_PATH" \in UriStarts
      BY DEF UriStarts
    <3>2. ucond' = "ABS_PATH" /\ Len(ustack') = 1 + 1 /\ ustack'[1] = ustack[1]
      BY <1>1, <2>1, <3>1, PushedIs
    <3> QED
      BY <3>2
  <2>3. ~Contains(link, "//")
    BY <1>2, <1>4
  <2>4. Remaining(3)'
    <3>1. ASSUME NEW p \in UriParts, Contains(link, p), 2 <= Order(p) PROVE 3 <= Order(p)
      <4>1. Order(p) # 2
        BY <2>3, <3>1, OrdersDiffer, PlaceIs, OnlySchemesAreFirst
      <4> QED
        BY <3>1, <4>1, OrderIs
    <3>2. 3 \in 2..10
      OBVIOUS
    <3> QED
      BY <1>1, <2>1, <3>1, <3>2, SkippedIs
  <2>5. /\ UriType' /\ SchemeIs' /\ NoServer' /\ NoPath' /\ WayIs'
        /\ ~Contains(link, "//")'
    BY <1>1, <2>1, <2>2, <2>3 DEF UriType, SchemeIs, NoServer, NoPath, WayIs, Sees
  <2> QED
    BY <1>1, <2>2, <2>4, <2>5 DEF UriKept, UriIs
<1> QED
  BY <1>3, <1>4

LEMMA UserInfoKeeps == ASSUME UriInv, UserInfo PROVE UriKept
<1>1. /\ ucond = "USERINFO" /\ Remaining(3) /\ SchemeIs /\ ServerIs(None, None, None) /\ NoPath
      /\ IsReference(link) /\ UriType
  BY DEF UriInv, UriIs, UserInfo, Part
<1>2. /\ Remaining(3 + 1)' /\ UriType' /\ link' = link
      /\ uri'["userinfo"] = Of(link, {"user@"}) /\ uri'.path = uri.path
      /\ \A g \in Fields : g # "userinfo" => uri'[g] = uri[g]
      /\ ucond' = IF Contains(link, "user@") THEN "HOST" ELSE "HOST"
  <2>1. "userinfo" \in Fields /\ uri["userinfo"] = None /\ 3 \in 1..9
    BY <1>1 DEF Fields, ServerIs
  <2>2. "user@" \in UriParts \ Schemes /\ Order("user@") = 3
    BY PlaceIs
  <2>3. Part("USERINFO", {"user@"}, "userinfo", "HOST", "HOST")
    BY DEF UserInfo
  <2> QED
    BY <1>1, <2>1, <2>2, <2>3, PartTakes
<1>3. SchemeIs' /\ ServerIs(User, None, None)' /\ NoPath' /\ ucond' = "HOST" /\ 3 + 1 = 4
  BY <1>1, <1>2 DEF SchemeIs, ServerIs, User, NoPath, Fields
<1> QED
  BY <1>2, <1>3 DEF UriKept, UriIs

LEMMA HostKeeps == ASSUME UriInv, Host PROVE UriKept
<1>1. /\ ucond = "HOST" /\ Remaining(4) /\ SchemeIs /\ ServerIs(User, None, None) /\ NoPath
      /\ IsReference(link) /\ UriType
  BY DEF UriInv, UriIs, Host, Part
<1>2. /\ Remaining(4 + 1)' /\ UriType' /\ link' = link
      /\ uri'["host"] = Of(link, {"name"}) /\ uri'.path = uri.path
      /\ \A g \in Fields : g # "host" => uri'[g] = uri[g]
      /\ ucond' = IF Contains(link, "name") THEN "PORT" ELSE "REG_NAME"
  <2>1. "host" \in Fields /\ uri["host"] = None /\ 4 \in 1..9
    BY <1>1 DEF Fields, ServerIs
  <2>2. "name" \in UriParts \ Schemes /\ Order("name") = 4
    BY PlaceIs
  <2>3. Part("HOST", {"name"}, "host", "PORT", "REG_NAME")
    BY DEF Host
  <2> QED
    BY <1>1, <2>1, <2>2, <2>3, PartTakes
<1>3. SchemeIs' /\ ServerIs(User, Name, None)' /\ NoPath' /\ 4 + 1 = 5
  BY <1>1, <1>2 DEF SchemeIs, ServerIs, User, Name, NoPath, Fields
<1>4. CASE Contains(link, "name")
  BY <1>2, <1>3, <1>4 DEF UriKept, UriIs
<1>5. CASE ~Contains(link, "name")
  <2>1. ~Contains(link, ":80") /\ Of(link, {":80"}) = None
    BY <1>1, <1>5, OfPart, PlaceIs DEF IsReference
  <2>2. Remaining(6)'
    <3>1. /\ rest' \in Seq(UriParts) /\ Ordered(rest')
          /\ \A p \in UriParts : Contains(rest', p) <=> Contains(link', p) /\ 5 <= Order(p)
      BY <1>2, <1>3 DEF Remaining, Ordered
    <3>2. \A p \in UriParts : Contains(link', p) /\ 5 <= Order(p) => 6 <= Order(p)
      <4> SUFFICES ASSUME NEW p \in UriParts, Contains(link, p), 5 <= Order(p)
                   PROVE  6 <= Order(p)
        BY <1>2
      <4>1. Order(p) # 5
        BY <2>1, OrdersDiffer, PlaceIs, OnlySchemesAreFirst
      <4> QED
        BY <4>1, OrderIs
    <3>3. \A p \in UriParts : Contains(rest', p) <=> Contains(link', p) /\ 6 <= Order(p)
      BY <3>1, <3>2, OrderIs
    <3> QED
      BY <3>1, <3>3 DEF Remaining, Ordered
  <2>3. ServerIs(User, Name, PortOf)'
    BY <1>2, <1>3, <2>1 DEF ServerIs, PortOf
  <2> QED
    BY <1>2, <1>3, <1>5, <2>2, <2>3 DEF UriKept, UriIs
<1> QED
  BY <1>4, <1>5

LEMMA PortKeeps == ASSUME UriInv, Port PROVE UriKept
<1>1. /\ ucond = "PORT" /\ Remaining(5) /\ SchemeIs /\ ServerIs(User, Name, None) /\ NoPath
      /\ IsReference(link) /\ UriType
  BY DEF UriInv, UriIs, Port, Part
<1>2. /\ Remaining(5 + 1)' /\ UriType' /\ link' = link
      /\ uri'["port"] = Of(link, {":80"}) /\ uri'.path = uri.path
      /\ \A g \in Fields : g # "port" => uri'[g] = uri[g]
      /\ ucond' = IF Contains(link, ":80") THEN "REG_NAME" ELSE "REG_NAME"
  <2>1. "port" \in Fields /\ uri["port"] = None /\ 5 \in 1..9
    BY <1>1 DEF Fields, ServerIs
  <2>2. ":80" \in UriParts \ Schemes /\ Order(":80") = 5
    BY PlaceIs
  <2>3. Part("PORT", {":80"}, "port", "REG_NAME", "REG_NAME")
    BY DEF Port
  <2> QED
    BY <1>1, <2>1, <2>2, <2>3, PartTakes
<1>3. /\ SchemeIs' /\ ServerIs(User, Name, PortOf)' /\ NoPath' /\ ucond' = "REG_NAME"
      /\ 5 + 1 = 6
  BY <1>1, <1>2 DEF SchemeIs, ServerIs, User, Name, PortOf, NoPath, Fields
<1> QED
  BY <1>2, <1>3 DEF UriKept, UriIs

LEMMA RegNameKeeps == ASSUME UriInv, RegName PROVE UriKept
<1>1. /\ ucond = "REG_NAME" /\ Remaining(6) /\ SchemeIs /\ ServerIs(User, Name, PortOf)
      /\ NoPath /\ link' = link /\ IsReference(link) /\ UriType /\ UriStackIs
      /\ Len(ustack) = 0 /\ Contains(link, "//") /\ Push("ABS_PATH")
  BY DEF UriInv, UriIs, RegName, UriStackIs, ServerIs
<1>2. ucond' = "ABS_PATH" /\ Len(ustack') = 1
  <2>1. "ABS_PATH" \in UriStarts
    BY DEF UriStarts
  <2>2. ucond' = "ABS_PATH" /\ Len(ustack') = 0 + 1
    BY <1>1, <2>1, PushedIs
  <2> QED
    BY <2>2
<1>3. CASE Sees({"_x", "name"})
  <2>1. rest # <<>> /\ Head(rest) \in {"_x", "name"}
    BY <1>3 DEF Sees
  <2>2. Head(rest) = "_x" /\ Contains(link, "_x") /\ Order(Head(rest)) = 6
    BY <1>1, <2>1, GapIs, PlaceIs
  <2>3. /\ uri' = [uri EXCEPT !.authority = "reg_name", !.userinfo = None,
                             !.host = None, !.port = None]
        /\ rest' = Tail(rest)
    BY <1>3 DEF RegName
  <2>4. UriType' /\ uri'.authority = "reg_name" /\ SchemeIs' /\ NoPath'
    BY <1>1, <2>3 DEF UriType, UriTexts, SchemeIs, NoPath
  <2>5. Remaining(7)'
    <3>1. Remaining(6 + 1)' /\ 6 + 1 = 7
      BY <1>1, <2>1, <2>2, <2>3, TakenIs
    <3> QED
      BY <3>1
  <2>6. AuthorityIs' /\ Contains(link, "//")'
    BY <1>1, <2>2, <2>4 DEF AuthorityIs
  <2> QED
    BY <1>1, <1>2, <2>4, <2>5, <2>6 DEF UriKept, UriIs
<1>4. CASE ~Sees({"_x", "name"})
  <2>1. rest' = rest /\ uri' = uri
    BY <1>4 DEF RegName, Unmatched
  <2>2. ~Contains(link, "_x")
    <3>1. ~Sees({"_x"})
      BY <1>4 DEF Sees
    <3>2. "_x" \in UriParts /\ Order("_x") = 6 /\ 6 \in 1..9
      BY PlaceIs
    <3> QED
      BY <1>1, <3>1, <3>2, SeesOne
  <2>3. Remaining(7)'
    <3>1. ASSUME NEW p \in UriParts, Contains(link, p), 6 <= Order(p) PROVE 7 <= Order(p)
      <4>1. Order(p) # 6
        BY <2>2, <3>1, OrdersDiffer, PlaceIs, OnlySchemesAreFirst
      <4> QED
        BY <3>1, <4>1, OrderIs
    <3>2. 7 \in 6..10
      OBVIOUS
    <3> QED
      BY <1>1, <2>1, <3>1, <3>2, SkippedIs
  <2>4. UriType' /\ SchemeIs' /\ NoPath' /\ AuthorityIs' /\ Contains(link, "//")'
    BY <1>1, <2>1 DEF UriType, SchemeIs, NoPath, AuthorityIs, ServerIs, User, Name, PortOf
  <2> QED
    BY <1>1, <1>2, <2>3, <2>4 DEF UriKept, UriIs
<1> QED
  BY <1>3, <1>4

LEMMA ServerPathKeeps ==
    ASSUME UriInv, AbsPath, Len(ustack) = 1 PROVE UriKept
<1>1. /\ ucond = "ABS_PATH" /\ Remaining(7) /\ SchemeIs /\ AuthorityIs /\ NoPath
      /\ link' = link /\ Contains(link, "//") /\ ustack[1] = "REG_NAME"
      /\ IsReference(link) /\ UriType
  BY DEF UriInv, UriIs, AbsPath, UriStackIs
<1>2. ucond' = "QUERY" /\ IF Sees({"/dir"}) THEN Matched("path", <<Head(rest)>>, 1) ELSE Unmatched
  <2>1. Last(ustack) # "AUTHORITY"
    BY <1>1 DEF Last
  <2> QED
    BY <2>1 DEF AbsPath
<1>3. /\ Contains(link, "/dir") => Sees({"/dir"}) /\ Head(rest) = "/dir"
      /\ Sees({"/dir"}) => Head(rest) = "/dir" /\ Contains(link, "/dir")
  <2>1. "/dir" \in UriParts /\ Order("/dir") = 7 /\ 7 \in 1..9
    BY PlaceIs
  <2> QED
    BY <1>1, <2>1, SeesOne
<1>4. IfHas(link, "/dir") = IF Contains(link, "/dir") THEN <<"/dir">> ELSE <<>>
  BY <1>1, PathOfIs
<1>5. CASE Sees({"/dir"})
  <2>1. /\ rest # <<>> /\ Head(rest) = "/dir" /\ Contains(link, "/dir")
        /\ Order(Head(rest)) = 7 /\ "/dir" \in UriParts
    BY <1>3, <1>5, PlaceIs DEF Sees
  <2>2. uri' = [uri EXCEPT !["path"] = <<"/dir">>] /\ rest' = SubSeq(rest, 2, Len(rest))
    BY <1>2, <1>5, <2>1 DEF Matched
  <2>3. UriType' /\ uri'.path = <<"/dir">> /\ \A g \in Fields : uri'[g] = uri[g]
    <3>1. <<"/dir">> \in Seq(UriParts)
      BY <2>1
    <3> QED
      BY <1>1, <2>2, <3>1, PathChanges
  <2>4. Remaining(8)'
    <3>1. Remaining(7 + 1)' /\ 7 + 1 = 8
      BY <1>1, <2>1, <2>2, TakenIs
    <3> QED
      BY <3>1
  <2>5. FrontIsRight'
    <3>1. SchemeIs'
      BY <1>1, <2>3 DEF SchemeIs, Fields
    <3>2. AuthorityIs'
      BY <1>1, <2>3 DEF AuthorityIs, NoServer, ServerIs, User, Name, PortOf, Fields
    <3>3. PathIs'
      BY <1>1, <1>4, <2>1, <2>3 DEF PathIs
    <3> QED
      BY <3>1, <3>2, <3>3 DEF FrontIsRight
  <2>6. uri'.query = None /\ uri'.fragment = None
    BY <1>1, <2>3 DEF NoPath, Fields
  <2> QED
    BY <1>1, <1>2, <2>3, <2>4, <2>5, <2>6 DEF UriKept, UriIs
<1>6. CASE ~Sees({"/dir"})
  <2>1. rest' = rest /\ uri' = uri /\ ~Contains(link, "/dir")
    BY <1>2, <1>3, <1>6 DEF Unmatched
  <2>2. Remaining(8)'
    <3>1. ASSUME NEW p \in UriParts, Contains(link, p), 7 <= Order(p) PROVE 8 <= Order(p)
      <4>1. Order(p) # 7
        BY <2>1, <3>1, OrdersDiffer, PlaceIs, OnlySchemesAreFirst
      <4> QED
        BY <3>1, <4>1, OrderIs
    <3>2. 8 \in 7..10
      OBVIOUS
    <3> QED
      BY <1>1, <2>1, <3>1, <3>2, SkippedIs
  <2>3. PathIs
    BY <1>1, <1>4, <2>1 DEF PathIs, NoPath
  <2>4. UriType' /\ FrontIsRight' /\ uri'.query = None /\ uri'.fragment = None
    BY <1>1, <2>1, <2>3 DEF UriType, FrontIsRight, SchemeIs, AuthorityIs, PathIs, NoPath,
       NoServer, ServerIs, User, Name, PortOf
  <2> QED
    BY <1>1, <1>2, <2>2, <2>4 DEF UriKept, UriIs
<1> QED
  BY <1>5, <1>6

\* Where nothing but a path can follow, the parts of a server are not there.
LEMMA NoServerParts ==
    ASSUME IsReference(link), ~Contains(link, "//")
    PROVE  ~Contains(link, "user@") /\ ~Contains(link, ":80")
BY DEF IsReference

LEMMA BarePathKeeps ==
    ASSUME UriInv, AbsPath, Len(ustack) = 2 PROVE UriKept
<1>1. /\ ucond = "ABS_PATH" /\ Remaining(3) /\ SchemeIs /\ NoServer /\ NoPath /\ WayIs
      /\ link' = link /\ ~Contains(link, "//") /\ ustack[1] \in {"SCHEME", "REL_PATH"}
      /\ ustack[2] = "AUTHORITY" /\ ustack \in Seq(UriStarts)
      /\ IsReference(link) /\ UriType
  BY DEF UriInv, UriIs, AbsPath, UriStackIs
<1>2. /\ Sees({"/dir"}) => Matched("path", <<Head(rest)>>, 1) /\ ucond' = "QUERY"
      /\ ~Sees({"/dir"}) =>
             /\ rest' = rest /\ uri' = uri
             /\ ucond' = IF ustack[1] = "SCHEME" THEN "OPAQUE_PART" ELSE "FRAGMENT"
  <2> DEFINE left == Front(ustack)
  <2>1. Len(left) = 1 /\ left[1] = ustack[1]
    <3>1. Len(ustack) > 0 /\ Len(ustack) - 1 = 1 /\ 1 \in 1..Len(ustack) - 1
      OBVIOUS
    <3>2. /\ Len(left) = Len(ustack) - 1
          /\ \A i \in 1..Len(ustack) - 1 : left[i] = ustack[i]
      BY <1>1, <3>1, FrontIs
    <3> HIDE DEF left
    <3> QED
      BY <3>1, <3>2
  <2>2. Last(ustack) = "AUTHORITY"
    BY <1>1 DEF Last
  <2>3. IF Sees({"/dir"})
        THEN Matched("path", <<Head(rest)>>, 1) /\ ucond' = "QUERY"
        ELSE /\ Unmatched
             /\ ucond' = CASE ~TRUE -> "QUERY"
                           [] TRUE /\ Last(left) = "SCHEME" -> "OPAQUE_PART"
                           [] TRUE /\ Last(left) # "SCHEME" -> "FRAGMENT"
    BY <2>2 DEF AbsPath
  <2>4. Last(left) = ustack[1]
    BY <2>1 DEF Last
  <2> HIDE DEF left
  <2> QED
    BY <2>3, <2>4 DEF Unmatched
<1>3. /\ rest = <<>> => \A p \in UriParts : Contains(link, p) => Order(p) < 3
      /\ rest # <<>> =>
            /\ Head(rest) \in UriParts /\ Contains(link, Head(rest)) /\ 3 <= Order(Head(rest))
            /\ \A p \in UriParts : Contains(link, p) /\ 3 <= Order(p) =>
                   p = Head(rest) \/ Order(Head(rest)) < Order(p)
  BY <1>1, GapIs
<1>4. ~Contains(link, "user@") /\ ~Contains(link, ":80")
  BY <1>1, NoServerParts
<1>5. CASE Sees({"/dir"})
  <2>1. /\ rest # <<>> /\ Head(rest) = "/dir" /\ Contains(link, "/dir")
        /\ Order(Head(rest)) = 7 /\ "/dir" \in UriParts
    BY <1>3, <1>5, PlaceIs DEF Sees
  <2>2. uri' = [uri EXCEPT !["path"] = <<"/dir">>] /\ rest' = SubSeq(rest, 2, Len(rest))
    BY <1>2, <1>5, <2>1 DEF Matched
  <2>3. UriType' /\ uri'.path = <<"/dir">> /\ \A g \in Fields : uri'[g] = uri[g]
    <3>1. <<"/dir">> \in Seq(UriParts)
      BY <2>1
    <3> QED
      BY <1>1, <2>2, <3>1, PathChanges
  <2>4. Remaining(8)'
    <3>1. Remaining(7 + 1)' /\ 7 + 1 = 8
      BY <1>1, <2>1, <2>2, TakenIs
    <3> QED
      BY <3>1
  <2>5. ~Contains(link, "name") /\ ~Contains(link, "_x")
    BY <1>3, <2>1, PlaceIs
  <2>6. FrontIsRight'
    <3>1. SchemeIs'
      BY <1>1, <2>3 DEF SchemeIs, Fields
    <3>2. AuthorityIs'
      BY <1>1, <2>3 DEF AuthorityIs, NoServer, Fields
    <3>3. PathIs'
      BY <1>1, <2>1, <2>3, <2>5, PathOfIs DEF PathIs
    <3> QED
      BY <3>1, <3>2, <3>3 DEF FrontIsRight
  <2>7. uri'.query = None /\ uri'.fragment = None
    BY <1>1, <2>3 DEF NoPath, Fields
  <2> QED
    BY <1>1, <1>2, <1>5, <2>3, <2>4, <2>6, <2>7 DEF UriKept, UriIs
<1>6. CASE ~Sees({"/dir"}) /\ ustack[1] = "SCHEME"
  <2>1. rest' = rest /\ uri' = uri /\ ucond' = "OPAQUE_PART"
    BY <1>2, <1>6
  <2>2. rest # <<>> /\ Head(rest) # "#f"
    BY <1>1, <1>6 DEF WayIs
  <2>3. Head(rest) \in {"name", "_x", "?q"} /\ rest \in Seq(UriParts)
    <3>1. Head(rest) # "/dir" /\ Head(rest) # "user@" /\ Head(rest) # ":80" /\ Head(rest) # "//"
      BY <1>1, <1>3, <1>4, <1>6, <2>2 DEF Sees
    <3>2. Head(rest) \notin Schemes
      BY <1>3, <2>2, OnlySchemesAreFirst
    <3> QED
      BY <1>1, <1>3, <2>2, <3>1, <3>2, PlaceIs DEF Remaining
  <2>4. NotFollowed(link)
    <3>1. CASE Head(rest) \in {"name", "_x"}
      <4>1. Contains(link, "name") \/ Contains(link, "_x")
        BY <1>3, <2>2, <3>1
      <4> QED
        BY <1>1, <4>1, PathOfIs DEF NotFollowed
    <3>2. CASE Head(rest) = "?q"
      <4>1. /\ Contains(link, "?q") /\ ~Contains(link, "name") /\ ~Contains(link, "_x")
            /\ ~Contains(link, "/dir")
        BY <1>3, <2>2, <3>2, PlaceIs
      <4>2. PathOf(link) = <<>> /\ ~HasAuthority(link)
        BY <1>1, <4>1, PathOfIs
      <4>3. Of(link, {"?q"}) # None
        BY <1>1, <4>1, OfPart, PlaceIs DEF None
      <4> QED
        BY <4>2, <4>3 DEF NotFollowed
    <3> QED
      BY <2>3, <3>1, <3>2
  <2>5. UriType' /\ uri'.path = <<>>
    BY <1>1, <2>1 DEF UriType, NoPath
  <2>6. Head(rest) \notin {"/dir", "//", "#f"}
    BY <2>3
  <2> QED
    BY <1>1, <2>1, <2>2, <2>3, <2>4, <2>5, <2>6 DEF UriKept, UriIs
<1>7. CASE ~Sees({"/dir"}) /\ ustack[1] = "REL_PATH"
  <2>1. rest' = rest /\ uri' = uri /\ ucond' = "FRAGMENT"
    BY <1>2, <1>7
  <2>2. uri.scheme = None /\ ~Sees({"name", "_x"})
    BY <1>1, <1>7 DEF WayIs
  <2>3. rest # <<>> => Head(rest) \in {"?q", "#f"}
    <3> SUFFICES ASSUME rest # <<>> PROVE Head(rest) \in {"?q", "#f"}
      OBVIOUS
    <3>1. /\ Head(rest) # "/dir" /\ Head(rest) # "user@" /\ Head(rest) # ":80"
          /\ Head(rest) # "//" /\ Head(rest) \notin {"name", "_x"}
      BY <1>1, <1>3, <1>4, <1>7, <2>2 DEF Sees
    <3>2. Head(rest) \notin Schemes
      BY <1>3, OnlySchemesAreFirst
    <3> QED
      BY <1>3, <3>1, <3>2, PlaceIs
  <2>4. ~Contains(link, "name") /\ ~Contains(link, "_x") /\ ~Contains(link, "/dir")
    <3>1. CASE rest = <<>>
      BY <1>3, <3>1, PlaceIs
    <3>2. CASE rest # <<>>
      BY <1>3, <2>3, <3>2, PlaceIs
    <3> QED
      BY <3>1, <3>2
  <2>5. /\ PathOf(link) = <<>> /\ IfHas(link, "/dir") = <<>> /\ ~HasAuthority(link)
    BY <1>1, <2>4, PathOfIs
  <2>6. Of(link, {"?q"}) = IF Contains(link, "?q") THEN "?q" ELSE None
    BY <1>1, OfPart, PlaceIs
  <2>7. CASE Contains(link, "?q")
    <3>1. Sees({"?q"})
      <4>1. rest # <<>>
        BY <1>3, <2>7, PlaceIs
      <4>2. Head(rest) = "?q"
        BY <1>3, <2>3, <2>7, <4>1, PlaceIs
      <4> QED
        BY <4>1, <4>2 DEF Sees
    <3>2. NotFollowed(link)
      BY <2>5, <2>6, <2>7 DEF NotFollowed, None
    <3>3. QueryAlone /\ UriType
      BY <1>1, <2>2, <3>2 DEF QueryAlone
    <3>4. QueryAlone' /\ Sees({"?q"})' /\ UriType'
      <4>1. QueryAlone'
        BY <1>1, <2>1, <3>3 DEF QueryAlone, NoServer, NoPath
      <4> QED
        BY <2>1, <3>1, <3>3, <4>1 DEF UriType, Sees
    <3> QED
      BY <1>1, <2>1, <3>4 DEF UriKept, UriIs
  <2>8. CASE ~Contains(link, "?q")
    <3>1. Remaining(9)'
      <4>1. ASSUME NEW p \in UriParts, Contains(link, p), 3 <= Order(p) PROVE 9 <= Order(p)
        BY <1>1, <1>4, <2>4, <2>8, <4>1, PlaceIs, OnlySchemesAreFirst
      <4>2. 9 \in 3..10
        OBVIOUS
      <4> QED
        BY <1>1, <2>1, <4>1, <4>2, SkippedIs
    <3>2. AuthorityIs /\ PathIs
      BY <1>1, <2>4, <2>5 DEF AuthorityIs, PathIs, NoPath
    <3>3. /\ UriType' /\ FrontIsRight'
          /\ (uri.query = Of(link, {"?q"}))' /\ uri'.fragment = None
      <4>1. SchemeIs' /\ PathIs' /\ UriType'
        BY <1>1, <2>1, <3>2 DEF SchemeIs, PathIs, UriType
      <4>2. AuthorityIs'
        BY <1>1, <2>1 DEF AuthorityIs, NoServer
      <4>3. (uri.query = Of(link, {"?q"}))' /\ uri'.fragment = None
        BY <1>1, <2>1, <2>6, <2>8 DEF NoPath
      <4> QED
        BY <4>1, <4>2, <4>3 DEF FrontIsRight
    <3> QED
      BY <1>1, <2>1, <3>1, <3>3 DEF UriKept, UriIs
  <2> QED
    BY <2>7, <2>8
<1> QED
  BY <1>1, <1>5, <1>6, <1>7

LEMMA OpaquePartKeeps == ASSUME UriInv, OpaquePart PROVE UriKept
<1>1. /\ ucond = "OPAQUE_PART" /\ NotFollowed(link) /\ uri.path = <<>>
      /\ rest \in Seq(UriParts) /\ rest # <<>> /\ Head(rest) \notin {"/dir", "//", "#f"}
      /\ link' = link /\ ucond' = "FRAGMENT" /\ UriType
  BY DEF UriInv, UriIs, OpaquePart, Begin
<1>2. PICK n \in 0..Len(rest) :
         /\ n < Len(rest) => rest[n + 1] = "#f"
         /\ IF n > 0 /\ ~Sees({"/dir", "//"}) THEN Matched("path", SubSeq(rest, 1, n), n)
                                              ELSE Unmatched
  BY DEF OpaquePart
<1>3. Head(rest) = rest[1] /\ 1 \in 1..Len(rest) /\ Len(rest) \in Nat
  BY <1>1, HeadIs, LenProperties
<1>4. n > 0
  <2> SUFFICES ASSUME n = 0 PROVE FALSE
    BY <1>3
  <2>1. 0 < Len(rest) /\ n + 1 = 1
    BY <1>3
  <2> QED
    BY <1>1, <1>2, <1>3, <2>1
<1> DEFINE t == SubSeq(rest, 1, n)
<1>5. t \in Seq(UriParts) /\ t # <<>> /\ Head(t) = Head(rest)
  <2>1. 1 \in 1..Len(rest) + 1 /\ n \in (1 - 1)..Len(rest)
    BY <1>2, <1>3
  <2>2. t \in Seq(UriParts) /\ Len(t) = n - (1 - 1)
        /\ \A i \in 1..n - (1 - 1) : t[i] = rest[(1 - 1) + i]
    BY <1>1, <2>1, PartIs
  <2> HIDE DEF t
  <2>3. Len(t) # 0 /\ 1 \in 1..n - (1 - 1) /\ (1 - 1) + 1 = 1
    BY <1>4, <2>2
  <2>4. t # <<>> /\ t[1] = rest[1]
    BY <2>2, <2>3
  <2> QED
    BY <1>3, <2>2, <2>4, HeadIs
<1>6. UriType' /\ uri'.path = t
  <2>1. uri' = [uri EXCEPT !["path"] = t]
    BY <1>1, <1>2, <1>4 DEF Matched, Sees
  <2> HIDE DEF t
  <2> QED
    BY <1>1, <1>5, <2>1, PathChanges
<1> HIDE DEF t
<1>7. Unfollowed'
  BY <1>1, <1>5, <1>6 DEF Unfollowed
<1> QED
  BY <1>1, <1>6, <1>7 DEF UriKept, UriIs

\* What has a path that is not followed keeps it.
LEMMA UnfollowedStays ==
    ASSUME UriType, Unfollowed, NEW p \in UriParts, NEW f \in {"query", "fragment"},
           NEW c, NEW next, Part(c, {p}, f, next, next)
    PROVE  UriType' /\ Unfollowed' /\ link' = link /\ ucond' = next
<1>1. link' = link /\ ucond' = next
  BY DEF Part, Begin
<1>2. UriType' /\ uri'.path = uri.path
  <2>1. CASE Sees({p})
    <3>1. uri' = [uri EXCEPT ![f] = p]
      BY <2>1 DEF Part, Matched, Sees
    <3>2. f \in Fields /\ p \in UriTexts
      BY DEF Fields, UriTexts
    <3> QED
      BY <3>1, <3>2, FieldIs
  <2>2. CASE ~Sees({p})
    BY <2>2 DEF Part, Unmatched, UriType
  <2> QED
    BY <2>1, <2>2
<1> QED
  BY <1>1, <1>2 DEF Unfollowed

LEMMA QueryKeeps == ASSUME UriInv, Query PROVE UriKept
<1>1. ucond = "QUERY" /\ UriType /\ IsReference(link)
  BY DEF UriInv, Query, Part
<1>2. /\ Part("QUERY", {"?q"}, "query", "FRAGMENT", "FRAGMENT")
      /\ "?q" \in UriParts \ Schemes /\ Order("?q") = 8
  BY PlaceIs DEF Query
<1>3. CASE Unfollowed
  <2>1. UriType' /\ Unfollowed' /\ link' = link /\ ucond' = "FRAGMENT"
    BY <1>1, <1>2, <1>3, UnfollowedStays
  <2> QED
    BY <2>1 DEF UriKept, UriIs
<1>4. CASE Remaining(8) /\ FrontIsRight /\ uri.query = None /\ uri.fragment = None
  <2>1. /\ Remaining(8 + 1)' /\ UriType' /\ link' = link
        /\ uri'["query"] = Of(link, {"?q"}) /\ uri'.path = uri.path
        /\ \A g \in Fields : g # "query" => uri'[g] = uri[g]
        /\ ucond' = IF Contains(link, "?q") THEN "FRAGMENT" ELSE "FRAGMENT"
    <3>1. "query" \in Fields /\ uri["query"] = None /\ 8 \in 1..9 /\ Remaining(8)
      BY <1>4 DEF Fields
    <3> QED
      BY <1>1, <1>2, <3>1, PartTakes
  <2>2. FrontIsRight'
    <3>1. SchemeIs' /\ PathIs'
      BY <1>4, <2>1 DEF FrontIsRight, SchemeIs, PathIs, Fields
    <3>2. AuthorityIs'
      BY <1>4, <2>1 DEF FrontIsRight, AuthorityIs, NoServer, ServerIs, User, Name, PortOf, Fields
    <3> QED
      BY <3>1, <3>2 DEF FrontIsRight
  <2>3. (uri.query = Of(link, {"?q"}))' /\ uri'.fragment = None /\ 8 + 1 = 9
    BY <1>4, <2>1 DEF Fields
  <2> QED
    BY <2>1, <2>2, <2>3 DEF UriKept, UriIs
<1> QED
  BY <1>1, <1>3, <1>4 DEF UriInv, UriIs

LEMMA FragmentKeeps == ASSUME UriInv, Fragment PROVE UriKept
<1>1. ucond = "FRAGMENT" /\ UriType /\ IsReference(link)
  BY DEF UriInv, Fragment, Part
<1>2. /\ Part("FRAGMENT", {"#f"}, "fragment", "ACCEPT", "ACCEPT")
      /\ "#f" \in UriParts \ Schemes /\ Order("#f") = 9
  BY PlaceIs DEF Fragment
<1>3. CASE Unfollowed
  <2>1. UriType' /\ Unfollowed' /\ link' = link /\ ucond' = "ACCEPT"
    BY <1>1, <1>2, <1>3, UnfollowedStays
  <2> QED
    BY <2>1 DEF UriKept, UriIs
<1>4. CASE QueryAlone /\ Sees({"?q"})
  <2>1. ~Sees({"#f"})
    BY <1>4 DEF Sees
  <2>2. uri' = uri /\ link' = link /\ ucond' = "ACCEPT"
    BY <1>2, <2>1 DEF Part, Unmatched, Begin
  <2>3. UriType' /\ QueryAlone'
    BY <1>1, <1>4, <2>2 DEF UriType, QueryAlone, NoServer, NoPath
  <2> QED
    BY <2>2, <2>3 DEF UriKept, UriIs
<1>5. CASE /\ Remaining(9) /\ FrontIsRight
           /\ uri.query = Of(link, {"?q"}) /\ uri.fragment = None
  <2>1. /\ UriType' /\ link' = link
        /\ uri'["fragment"] = Of(link, {"#f"}) /\ uri'.path = uri.path
        /\ \A g \in Fields : g # "fragment" => uri'[g] = uri[g]
        /\ ucond' = IF Contains(link, "#f") THEN "ACCEPT" ELSE "ACCEPT"
    <3>1. "fragment" \in Fields /\ uri["fragment"] = None /\ 9 \in 1..9
      BY <1>5 DEF Fields
    <3> QED
      BY <1>1, <1>2, <1>5, <3>1, PartTakes
  <2>2. FrontIsRight'
    <3>1. SchemeIs' /\ PathIs'
      BY <1>5, <2>1 DEF FrontIsRight, SchemeIs, PathIs, Fields
    <3>2. AuthorityIs'
      BY <1>5, <2>1 DEF FrontIsRight, AuthorityIs, NoServer, ServerIs, User, Name, PortOf, Fields
    <3> QED
      BY <3>1, <3>2 DEF FrontIsRight
  <2>3. (uri.query = Of(link, {"?q"}))' /\ (uri.fragment = Of(link, {"#f"}))'
    BY <1>5, <2>1 DEF Fields
  <2> QED
    BY <2>1, <2>2, <2>3 DEF UriKept, UriIs
<1> QED
  BY <1>1, <1>3, <1>4, <1>5 DEF UriInv, UriIs

LEMMA LexKeeps == ASSUME UriInv, Lex PROVE UriKept
<1>1. CASE AbsPath
  <2>1. Len(ustack) = 1 \/ Len(ustack) = 2
    BY <1>1 DEF UriInv, UriStackIs, AbsPath
  <2> QED
    BY <1>1, <2>1, ServerPathKeeps, BarePathKeeps
<1> QED
  BY <1>1, SchemeKeeps, RelPathKeeps, AuthorityKeeps, UserInfoKeeps, HostKeeps, PortKeeps,
     RegNameKeeps, OpaquePartKeeps, QueryKeeps, FragmentKeeps DEF Lex

-------------------------------------------------------------------------------
(* save_link. *)

LEMMA NoUriIs ==
    /\ NoUri.scheme = None /\ NoUri.authority = None /\ NoUri.userinfo = None
    /\ NoUri.host = None /\ NoUri.port = None /\ NoUri.path = <<>>
    /\ NoUri.query = None /\ NoUri.fragment = None
    /\ UriType /\ uri.scheme = None /\ NoServer /\ NoPath => uri = NoUri
BY DEF NoUri, UriType, NoServer, NoPath

\* What is saved is resolved as it should be.
LEMMA SavedIs ==
    ASSUME UriInv, ucond = "ACCEPT", Lexed, Mergeable
    PROVE  LedAstray(link, base) \/ Merged(base) = Resolved(link, base)
<1>1. IsReference(link) /\ UriType
  BY DEF UriInv
<1>2. ~Unfollowed
  BY DEF Unfollowed, Mergeable
<1>3. ~QueryAlone
  BY <1>1, NoUriIs DEF QueryAlone, Lexed
<1>4. /\ SchemeIs /\ AuthorityIs /\ PathIs
      /\ uri.query = Of(link, {"?q"}) /\ uri.fragment = Of(link, {"#f"})
  BY <1>2, <1>3 DEF UriInv, UriIs, FrontIsRight
<1>5. /\ HasAuthority(link) <=> Contains(link, "//")
      /\ Contains(link, "//") => PathOf(link) = IfHas(link, "/dir")
      /\ ~Contains(link, "name") /\ ~Contains(link, "_x") => PathOf(link) = IfHas(link, "/dir")
  BY <1>1, PathOfIs
<1>6. PathOf(link) = IfHas(link, "/dir") /\ uri.path = PathOf(link)
  BY <1>4, <1>5 DEF PathIs
<1>7. CASE ~Contains(link, "//") /\ ~LedAstray(link, base)
  <2>1. NoServer /\ ~HasAuthority(link) /\ ~HasScheme(link) /\ uri.scheme = None
    <3>1. NoServer /\ ~HasAuthority(link)
      BY <1>4, <1>5, <1>7 DEF AuthorityIs, ServerIs
    <3>2. ~HasScheme(link)
      BY <1>7, <3>1 DEF LedAstray
    <3> QED
      BY <1>4, <3>1, <3>2 DEF HasScheme, SchemeIs
  <2>2. Merged(base) = [base EXCEPT
                           !.scheme = base.scheme,
                           !.path = IF uri.path = <<>> THEN base.path ELSE uri.path,
                           !.query = uri.query, !.fragment = uri.fragment]
    BY <2>1 DEF Merged, NoServer
  <2>3. (IF PageItself(link) THEN base.query ELSE Of(link, {"?q"})) = uri.query
    <3>1. PageItself(link) => base.query = None /\ Of(link, {"?q"}) = None
      BY <1>7 DEF LedAstray, PageItself
    <3> QED
      BY <1>4, <3>1
  <2>4. Resolved(link, base) =
            [base EXCEPT
                !.scheme = base.scheme,
                !.path = IF PathOf(link) = <<>> THEN base.path ELSE PathOf(link),
                !.query = IF PageItself(link) THEN base.query ELSE Of(link, {"?q"}),
                !.fragment = Of(link, {"#f"})]
    BY <2>1 DEF Resolved
  <2> DEFINE q == IF PageItself(link) THEN base.query ELSE Of(link, {"?q"})
  <2>5. PathOf(link) = uri.path /\ Of(link, {"#f"}) = uri.fragment /\ q = uri.query
    BY <1>4, <1>6, <2>3
  <2> HIDE DEF q
  <2>6. Resolved(link, base) =
            [base EXCEPT
                !.scheme = base.scheme,
                !.path = IF uri.path = <<>> THEN base.path ELSE uri.path,
                !.query = uri.query, !.fragment = uri.fragment]
    BY ONLY <2>4, <2>5 DEF q
  <2> QED
    BY ONLY <2>2, <2>6
<1>8. CASE Contains(link, "//") /\ ~LedAstray(link, base)
  <2>1. PathOf(link) # <<>> /\ Of(link, {"_x"}) = None /\ HasAuthority(link)
    BY <1>5, <1>8 DEF LedAstray
  <2>2. ~Contains(link, "_x")
    BY <1>1, <2>1, OfPart, PlaceIs DEF None
  <2>3. ServerIs(User, Name, PortOf) /\ uri.authority # None
    BY <1>4, <1>8, <2>2 DEF AuthorityIs, ServerIs, None
  <2> DEFINE s == IF HasScheme(link) THEN Of(link, Schemes) ELSE base.scheme
             q == Of(link, {"?q"})
             f == Of(link, {"#f"})
             p == PathOf(link)
  <2>4. Merged(base) = [uri EXCEPT !.scheme = s, !.path = p, !.query = q, !.fragment = f]
    BY <1>4, <1>6, <2>1, <2>3 DEF Merged, SchemeIs, HasScheme
  <2>5. Resolved(link, base) =
            [[NoUri EXCEPT !.authority = "server", !.userinfo = Of(link, {"user@"}),
                           !.host = Of(link, {"name"}), !.port = Of(link, {":80"})]
             EXCEPT !.scheme = s, !.path = p, !.query = q, !.fragment = f]
    BY <2>1 DEF Resolved, PageItself
  <2> HIDE DEF s, q, f, p
  <2>6. /\ uri.authority = "server" /\ uri.userinfo = Of(link, {"user@"})
        /\ uri.host = Of(link, {"name"}) /\ uri.port = Of(link, {":80"})
    BY <2>3 DEF ServerIs, User, Name, PortOf
  <2> DEFINE whole == [scheme |-> s, authority |-> "server", userinfo |-> Of(link, {"user@"}),
                       host |-> Of(link, {"name"}), port |-> Of(link, {":80"}),
                       path |-> p, query |-> q, fragment |-> f]
  <2>7. Merged(base) = whole
    BY <1>1, <2>4, <2>6 DEF UriType
  <2>8. Resolved(link, base) = whole
    BY <2>5 DEF NoUri
  <2> QED
    BY <2>7, <2>8
<1> QED
  BY <1>7, <1>8

\* What is missed is not to be followed.
LEMMA MissedIs ==
    ASSUME UriInv, ucond = "ACCEPT", ~(Lexed /\ Http /\ Mergeable)
    PROVE  NotFollowed(link)
<1>1. IsReference(link) /\ UriType
  BY DEF UriInv
<1>2. CASE Unfollowed \/ QueryAlone
  BY <1>2 DEF Unfollowed, QueryAlone
<1>3. CASE /\ SchemeIs /\ AuthorityIs /\ PathIs
           /\ uri.query = Of(link, {"?q"}) /\ uri.fragment = Of(link, {"#f"})
  <2>1. IfHas(link, "/dir") = IF Contains(link, "/dir") THEN <<"/dir">> ELSE <<>>
    BY <1>1, PathOfIs
  <2>2. Mergeable
    <3>1. uri.path = <<>> \/ uri.path = <<"/dir">>
      BY <1>3, <2>1 DEF PathIs
    <3> QED
      BY <3>1 DEF Mergeable
  <2>3. CASE ~Http
    BY <1>3, <2>3 DEF Http, SchemeIs, NotFollowed
  <2>4. CASE ~Lexed
    <3>1. uri.authority = None /\ uri.path = <<>> /\ uri.fragment = None
      BY <2>4, NoUriIs DEF Lexed
    <3>2. ~Contains(link, "//")
      BY <1>3, <3>1 DEF AuthorityIs, ServerIs, None
    <3>3. PathOf(link) = <<>> /\ ~HasAuthority(link)
      BY <1>1, <1>3, <3>1, <3>2, PathOfIs DEF PathIs
    <3> QED
      BY <1>3, <3>1, <3>3 DEF NotFollowed
  <2> QED
    BY <2>2, <2>3, <2>4
<1> QED
  BY <1>2, <1>3 DEF UriInv, UriIs, FrontIsRight

LEMMA SaveLinkKeeps ==
    ASSUME LinkInv, SaveLink
    PROVE  (\E S : uris' \in Seq(S)) /\ LinksAreRight'
<1>1. UriInv /\ ucond = "ACCEPT" /\ LinksAreRight
  BY DEF LinkInv, SaveLink
<1>2. PICK S : uris \in Seq(S)
  BY DEF LinkInv
<1>3. CASE Lexed /\ Http /\ Mergeable
  <2> DEFINE new == [link |-> link, uri |-> Merged(base)]
             T == S \cup {new}
  <2>1. uris' = Append(uris, new) /\ missed' = missed /\ base' = base
    BY <1>3 DEF SaveLink
  <2>2. LedAstray(new.link, base) \/ new.uri = Resolved(new.link, base)
    BY <1>1, <1>3, SavedIs
  <2> HIDE DEF new
  <2>3. uris \in Seq(T) /\ new \in T
    BY <1>2
  <2> HIDE DEF T
  <2>4. /\ uris' \in Seq(T) /\ Len(uris') = Len(uris) + 1 /\ uris'[Len(uris) + 1] = new
        /\ \A i \in 1..Len(uris) : uris'[i] = uris[i]
    BY <2>1, <2>3, AppendProperties
  <2>5. DOMAIN uris = 1..Len(uris) /\ DOMAIN uris' = 1..Len(uris) + 1 /\ Len(uris) \in Nat
    BY <2>3, <2>4, LenProperties
  <2>6. ASSUME NEW i \in DOMAIN uris'
        PROVE  LedAstray(uris'[i].link, base) \/ uris'[i].uri = Resolved(uris'[i].link, base)
    <3>1. CASE i = Len(uris) + 1
      BY <2>2, <2>4, <3>1
    <3>2. CASE i # Len(uris) + 1
      <4>1. i \in DOMAIN uris /\ uris'[i] = uris[i]
        BY <2>4, <2>5, <2>6, <3>2
      <4> QED
        BY <1>1, <4>1 DEF LinksAreRight
    <3> QED
      BY <3>1, <3>2
  <2>7. LinksAreRight'
    <3>1. \A l \in missed' : NotFollowed(l)
      BY <1>1, <2>1 DEF LinksAreRight
    <3> QED
      BY <2>1, <2>6, <3>1 DEF LinksAreRight
  <2> QED
    BY <2>4, <2>7
<1>4. CASE ~(Lexed /\ Http /\ Mergeable)
  <2>1. uris' = uris /\ missed' = missed \cup {link} /\ base' = base
    BY <1>4 DEF SaveLink
  <2>2. NotFollowed(link)
    BY <1>1, <1>4, MissedIs
  <2> QED
    BY <1>1, <1>2, <2>1, <2>2 DEF LinksAreRight
<1> QED
  BY <1>3, <1>4

-------------------------------------------------------------------------------
(* Every step of the lexers. *)

\* The links of pages are written as RFC 2396 says.
WellWritten == \A l \in Links : IsReference(l)

LEMMA NothingIsReference == IsReference(<<>>)
<1>1. <<>> \in Seq(UriParts) /\ DOMAIN <<>> = {} /\ Len(<<>>) = 0
  OBVIOUS
<1> QED
  BY <1>1 DEF IsReference, Contains

LEMMA StartUriKeeps ==
    ASSUME UriStackIs', NEW l, IsReference(l), StartUri(l) PROVE UriInv'
<1>1. ucond' = "SCHEME" /\ link' = l /\ rest' = l /\ uri' = NoUri
  BY DEF StartUri
<1>2. IsReference(link)'
  BY <1>1 DEF IsReference
<1>3. Remaining(1)'
  <2>1. l \in Seq(UriParts) /\ Ordered(l)
    BY LenProperties DEF IsReference, Ordered
  <2>2. \A p \in UriParts : Contains(rest', p) <=> Contains(link', p) /\ 1 <= Order(p)
    BY <1>1, OrderIs
  <2> QED
    BY <1>1, <2>1, <2>2 DEF Remaining, Ordered
<1>4. UriType' /\ uri'.scheme = None /\ NoServer' /\ NoPath'
  <2>1. <<>> \in Seq(UriParts) /\ None \in UriTexts
    BY DEF UriTexts
  <2>2. UriType'
    BY <1>1, <2>1 DEF UriType, NoUri
  <2> QED
    BY <1>1, <2>2, NoUriIs DEF NoServer, NoPath
<1>5. UriIs'
  BY <1>1, <1>3, <1>4 DEF UriIs
<1> QED
  BY <1>2, <1>4, <1>5 DEF UriInv

LEMMA UriStays == ASSUME UriInv, UNCHANGED uriVars PROVE UriInv'
<1>1. UNCHANGED <<ucond, ustack, link, rest, uri>>
  BY DEF uriVars
<1>2. UriStackIs' /\ UriType' /\ IsReference(link)'
  BY <1>1 DEF UriInv, UriStackIs, UriType
<1>3. UriIs'
  BY <1>1 DEF UriInv, UriIs, Remaining, SchemeIs, NoServer, NoPath, ServerIs, User, Name, PortOf,
     AuthorityIs, PathIs, FrontIsRight, Unfollowed, QueryAlone, WayIs, Sees
<1> QED
  BY <1>2, <1>3 DEF UriInv

LEMMA LinksStay ==
    ASSUME LinkInv, UNCHANGED linkVars
    PROVE  (\E S : uris' \in Seq(S)) /\ LinksAreRight'
BY DEF LinkInv, linkVars, LinksAreRight

LEMMA LinkStep ==
    ASSUME WellWritten, LexerInv, LinkInv, [LexerNext]_(lexerVars), LexerInv'
    PROVE  LinkInv'
<1>1. IsReference(buf) /\ UriInv /\ LinksAreRight /\ UriStackIs'
  BY DEF LinkInv, LexerInv
<1>2. CASE StartPage
  <2>1. buf' = <<>> /\ uris' = <<>> /\ missed' = {} /\ UNCHANGED uriVars
    BY <1>2 DEF StartPage
  <2>2. uris' \in Seq({}) /\ LinksAreRight'
    BY <2>1 DEF LinksAreRight
  <2> QED
    BY <1>1, <2>1, <2>2, NothingIsReference, UriStays DEF LinkInv
<1>3. ASSUME UNCHANGED linkVars, UNCHANGED uriVars, IsReference(buf') PROVE LinkInv'
  BY <1>1, <1>3, UriStays, LinksStay DEF LinkInv
<1>4. CASE \/ EndOfPage \/ OpenComment \/ CloseComment \/ CloseTag
           \/ Passed \/ EntityCharacter \/ AtEnd
  BY <1>1, <1>3, <1>4 DEF EndOfPage, OpenComment, CloseComment, CloseTag, Passed,
     EntityCharacter, AtEnd, pageVars
<1>5. CASE OpenQuote \/ OpenUnquoted
  BY <1>3, <1>5, NothingIsReference DEF OpenQuote, OpenUnquoted
<1>6. CASE \E tag \in Tags \cup {"SCRIPT"} : OpenTag(tag)
  BY <1>1, <1>3, <1>6 DEF OpenTag
<1>7. CASE \E a \in {"href", "src", "http-equiv", "content", "class"} : Attribute(a)
  BY <1>1, <1>3, <1>7 DEF Attribute
<1>8. CASE \E l \in Links : Text(l)
  <2>1. PICK l \in Links : Text(l)
    BY <1>8
  <2> QED
    BY <1>3, <2>1 DEF Text, WellWritten
<1>9. CASE \E n \in 1..2 : Entity(n)
  BY <1>1, <1>3, <1>9 DEF Entity
<1>10. CASE \E behind \in {">", " "} : IgnoreValue(behind)
  BY <1>1, <1>3, <1>10 DEF IgnoreValue
<1>11. CASE \E behind \in {">", " "} : CloseValue(behind)
  <2>1. buf' = <<>> /\ UNCHANGED linkVars /\ (StartUri(buf) \/ UNCHANGED uriVars)
    BY <1>11 DEF CloseValue
  <2>2. CASE StartUri(buf)
    BY <1>1, <2>1, <2>2, StartUriKeeps, LinksStay, NothingIsReference DEF LinkInv
  <2> QED
    BY <1>3, <2>1, <2>2, NothingIsReference
<1>12. CASE LexLink
  <2>1. Lex /\ buf' = buf /\ UNCHANGED linkVars
    BY <1>12 DEF LexLink, pageVars
  <2>2. UriType' /\ UriIs' /\ link' = link
    BY <1>1, <2>1, LexKeeps DEF UriKept
  <2>3. UriInv'
    BY <1>1, <2>2 DEF UriInv
  <2> QED
    BY <1>1, <2>1, <2>3, LinksStay DEF LinkInv
<1>13. CASE SaveLink
  <2>1. ucond' = "idle" /\ UNCHANGED <<ustack, link, rest, uri>> /\ buf' = buf
    BY <1>13 DEF SaveLink, pageVars
  <2>2. UriIs'
    BY <2>1 DEF UriIs
  <2>3. UriInv'
    BY <1>1, <2>1, <2>2 DEF UriInv, UriType
  <2> QED
    BY <1>1, <1>13, <2>1, <2>3, SaveLinkKeeps DEF LinkInv
<1>14. CASE UNCHANGED lexerVars
  BY <1>1, <1>3, <1>14 DEF lexerVars, pageVars
<1> QED
  BY <1>2, <1>4, <1>5, <1>6, <1>7, <1>8, <1>9, <1>10, <1>11, <1>12, <1>13, <1>14
  DEF LexerNext, Input, Work

LEMMA InitLinks == LexerInit => LinkInv
<1> SUFFICES ASSUME LexerInit PROVE LinkInv
  OBVIOUS
<1>1. /\ buf = <<>> /\ uris = <<>> /\ missed = {} /\ ucond = "idle" /\ ustack = <<>>
      /\ link = <<>> /\ uri = NoUri
  BY DEF LexerInit, UriInit
<1>2. UriStackIs
  BY InitLexer DEF LexerInv
<1>3. UriType /\ UriIs
  <2>1. <<>> \in Seq(UriParts) /\ None \in UriTexts
    BY DEF UriTexts
  <2> QED
    BY <1>1, <2>1 DEF UriType, NoUri, UriIs
<1>4. uris \in Seq({}) /\ LinksAreRight
  BY <1>1 DEF LinksAreRight
<1> QED
  BY <1>1, <1>2, <1>3, <1>4, NothingIsReference DEF LinkInv, UriInv

\* link_lexer.l, save_link and uri_merge: on any pages, with any port, query and fragment
\* in their urls, the links that are written as RFC 2396 says are resolved as it says,
\* and none is missed, but for the kinds that LedAstray and NotFollowed name: a host
\* without a path, a host of a reg_name, a scheme without a host, the page itself when
\* its url has a query; schemes other than http, relative paths, a query or nothing alone.
THEOREM LinksStayRight == WellWritten => (LexerSpec => []LinksAreRight)
<1> SUFFICES ASSUME WellWritten PROVE LexerSpec => []LinksAreRight
  OBVIOUS
<1>1. LexerInv /\ [LexerNext]_(lexerVars) => LexerInv'
  BY LexerNextKeeps
<1>2. LexerInv /\ LinkInv /\ [LexerNext]_(lexerVars) /\ LexerInv' => LinkInv'
  BY LinkStep
<1>3. LinkInv => LinksAreRight
  BY DEF LinkInv
<1> QED
  BY <1>1, <1>2, <1>3, InitLexer, InitLinks, PTL DEF LexerSpec
===============================================================================
