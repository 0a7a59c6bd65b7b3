------------------------------ MODULE Chunking -------------------------------
(***************************************************************************)
(* From an uploaded file to chunks.  A text is a sequence of characters, a *)
(* span a pair of offsets into it, counted from 0 as the code counts them. *)
(***************************************************************************)
EXTENDS Integers, Sequences, FiniteSetsExt

Newline == "nl"
Blank == {" ", Newline}

\* Largest natural break first: paragraph, line, sentence, word.
Boundaries == <<<<Newline, Newline>>, <<Newline>>, <<".", " ">>, <<" ">>>>

Slice(text, start, end) == SubSeq(text, start + 1, end)
CharAt(text, i) == text[i + 1]

\* The first offset from i on that is not blank, or the end of the text.
SkipWhitespace(text, i) ==
  Min({j \in i .. Len(text) : j = Len(text) \/ CharAt(text, j) \notin Blank})

\* The end of text[start:end] without the blanks it ends in.
Rstrip(text, start, end) ==
  Max({start} \cup {j \in (start + 1) .. end : CharAt(text, j - 1) \notin Blank})

\* ceil(n / charsPerToken) of the text between its outer blanks.
EstimateTokens(text, charsPerToken) ==
  LET from == SkipWhitespace(text, 0)
      n == Rstrip(text, from, Len(text)) - from
  IN (n + charsPerToken - 1) \div charsPerToken

\* The last occurrence of a separator inside text[start:end], or -1.
Rfind(text, separator, start, end) ==
  Max({-1} \cup {i \in start .. (end - Len(separator)) :
                   Slice(text, i, i + Len(separator)) = separator})

BoundaryCut(text, start, hardEnd) ==
  LET at(k) == Rfind(text, Boundaries[k], start, hardEnd)
      fitting == {k \in DOMAIN Boundaries : at(k) > start}
  IN IF fitting = {} THEN hardEnd
     ELSE at(Min(fitting)) + Len(Boundaries[Min(fitting)])

\* Variant: the overlap is taken from the cut without looking for a word.
NextStartPastOverlap(text, start, cut, overlap) ==
  IF overlap <= 0 THEN cut ELSE Max({start + 1, cut - overlap}) + overlap

\* The next chunk backs up from the cut by the overlap, to the next word after that.
NextStart(text, start, cut, overlap) ==
  LET raw == Max({start + 1, cut - overlap})
      spaces == {i \in raw .. (cut - 1) : CharAt(text, i) = " "}
  IN IF overlap <= 0 THEN cut
     ELSE IF spaces = {} THEN raw ELSE Min(spaces) + 1

\* The spans from each offset to the end of the text.
ChunkSpans(text, target, overlap) ==
  LET n == Len(text)
      spans[start \in 0 .. n] ==
        IF start >= n THEN <<>>
        ELSE IF start + target >= n THEN <<<<start, Rstrip(text, start, n)>>>>
        ELSE LET cut == BoundaryCut(text, start, start + target)
                 next == SkipWhitespace(text, NextStart(text, start, cut, overlap))
             IN <<<<start, Rstrip(text, start, cut)>>>>
                  \o spans[IF next > start THEN next ELSE n]
  IN spans[SkipWhitespace(text, 0)]

ChunkText(text, targetTokens, overlapTokens, charsPerToken) ==
  LET spans == ChunkSpans(text, Max({1, targetTokens * charsPerToken}),
                                Max({0, overlapTokens * charsPerToken}))
  IN [i \in DOMAIN spans |->
        [text |-> Slice(text, spans[i][1], spans[i][2]), start |-> spans[i][1], end |-> spans[i][2],
         tokens |-> EstimateTokens(Slice(text, spans[i][1], spans[i][2]), charsPerToken)]]
-----------------------------------------------------------------------------
\* A file is its pages; ParseError stands for the exception.
ParseError == <<"ParseError">>

ReadText(data, maxChars) == IF Len(data) > maxChars THEN ParseError ELSE data

\* Each page counts one more character, for the newline that joins it.
ReadPdf(pages, maxPages, maxChars) ==
  LET joined[k \in 0 .. Len(pages)] ==
        IF k = 0 THEN <<>> ELSE IF k = 1 THEN pages[1]
        ELSE joined[k - 1] \o <<Newline>> \o pages[k]
      total[k \in 0 .. Len(pages)] == IF k = 0 THEN 0 ELSE total[k - 1] + Len(pages[k]) + 1
  IN IF Len(pages) > maxPages \/ total[Len(pages)] > maxChars THEN ParseError
     ELSE joined[Len(pages)]

ExtractText(file, maxPages, maxChars) ==
  IF file.type = "text" THEN ReadText(file.pages[1], maxChars)
  ELSE IF file.type = "pdf" THEN ReadPdf(file.pages, maxPages, maxChars)
  ELSE ParseError
=============================================================================
