----------------------------- MODULE Algorithms ------------------------------
(***************************************************************************)
(* The pure parts of the pipeline, checked against what they are for over  *)
(* every small input.  A state is one input of one of them: Next picks     *)
(* the part and grows its input a character, a page, a reply, a row or a   *)
(* piece at a time, so that every input within the bounds is a state, and  *)
(* the invariants compare the part's result with a definition of it that   *)
(* has no steps.                                                           *)
(***************************************************************************)
EXTENDS Chunking, Fence, Embedding, UsageReport, Citations

CONSTANTS
  MaxText,       \* bound: characters of a file
  MaxPages, MaxChars,  \* the limits on what is extracted from a file
  CharsPerToken, \* characters the estimate counts for a token
  TargetTokens, OverlapTokens,  \* the sizes the splitter is configured with
  MaxSymbols,    \* bound: symbols of a passage put in a fence
  Texts, Sizes,  \* bounds: chunks embedded and sizes of a batch
  MaxRows,       \* bound: usage rows
  LastDay,       \* bound: days usage is recorded on
  MaxPieces,     \* bound: pieces of an answer
  MaxSources     \* bound: sources of an answer

ASSUME AlgorithmsBounds ==
  /\ Texts \subseteq Nat /\ Sizes \subseteq Nat \ {0}
  /\ TargetTokens \subseteq Nat \ {0} /\ OverlapTokens \subseteq Int
  /\ {MaxText, MaxPages, MaxChars, CharsPerToken, MaxSymbols, MaxRows, LastDay, MaxPieces, MaxSources} \subseteq Nat \ {0}

VARIABLES
  part,       \* which part the input is for, "none" at first
  file,       \* its type and pages
  passage,    \* a passage to fence
  call,       \* a backend, the number of texts, the size of a batch, the replies
  records, query,  \* usage rows in time order, and the range asked for
  pieces      \* an answer's text

vars == <<part, file, passage, call, records, query, pieces>>

Characters == {"a", ".", " ", Newline}
Symbols == {"[", "]", "<", ">", "|", "SYS", "INST"}
Params == [kind : {"absent", "malformed"}, at : {0}] \cup [kind : {"date"}, at : 0 .. LastDay + 1]
NoQuery == [now |-> 0, start |-> [kind |-> "absent", at |-> 0], end |-> [kind |-> "absent", at |-> 0]]
NoCall == [backend |-> "none", texts |-> <<>>, size |-> 1, replies |-> <<>>]
-----------------------------------------------------------------------------
Init ==
  /\ part = "none"
  /\ file = [type |-> "text", pages |-> <<<<>>>>]
  /\ passage = <<>> /\ call = NoCall
  /\ records = <<>> /\ query = NoQuery
  /\ pieces = <<>>

Take(p) == part \in {"none", p} /\ part' = p

Size == FoldLeft(LAMBDA n, page : n + Len(page), 0, file.pages)

AddCharacter ==
  /\ Take("split") /\ file.type # "other" /\ Size < MaxText
  /\ \E c \in Characters : file' = [file EXCEPT !.pages[Len(file.pages)] = Append(@, c)]
  /\ UNCHANGED <<passage, call, records, query, pieces>>

\* The file is a PDF of one page more.
AddPage ==
  /\ Take("split") /\ file.type # "other" /\ Size < MaxText \div 2 /\ Len(file.pages) <= MaxPages
  /\ file' = [type |-> "pdf", pages |-> Append(file.pages, <<>>)]
  /\ UNCHANGED <<passage, call, records, query, pieces>>

\* The file is of neither type that is read.
ChangeType ==
  /\ part = "none" /\ Take("split")
  /\ file' = [file EXCEPT !.type = "other"]
  /\ UNCHANGED <<passage, call, records, query, pieces>>

AddSymbol ==
  /\ Take("fence") /\ Len(passage) < MaxSymbols
  /\ \E c \in Symbols : passage' = Append(passage, c)
  /\ UNCHANGED <<file, call, records, query, pieces>>

ConfigureBackend ==
  /\ Take("embed") /\ call = NoCall
  /\ \E backend \in {"voyage", "keyless", "ollama"}, n \in Texts, size \in Sizes :
       call' = [backend |-> backend, texts |-> [i \in 1 .. n |-> i], size |-> size, replies |-> <<>>]
  /\ UNCHANGED <<file, passage, records, query, pieces>>

\* The hosted provider indexes its vectors and may send any of them, in any order, one twice,
\* or one of no input; the local server sends those of the first inputs, in order, and may
\* send one too many.  The vector of no input is of the text 0.  A vector may be too narrow.
Entries(backend, batch) ==
  LET n == Len(batch)
      of(i) == IF i <= n THEN batch[i] ELSE 0
      entry(i, dim) == [index |-> i - 1, embedding |-> [of |-> of(i), dim |-> dim]]
      orders == IF backend = "ollama" THEN {[i \in 1 .. k |-> i] : k \in 0 .. n + 1}
                ELSE UNION {[1 .. k -> 1 .. n + 1] : k \in 0 .. n + 1}
  IN {[j \in DOMAIN f |-> entry(f[j], dim)] : f \in orders, dim \in {1, 2}}

\* The boundaries of what a refusal may mean, and no answer.
Refusals == {Unreachable, 400, 401, 403, 408, 429, 499, 500, 503}

AddReply ==
  /\ part = "embed" /\ Len(call.replies) < Batches(call.texts, call.size)
  /\ \E reply \in [status : Refusals, entries : {<<>>}]
                    \cup [status : {200}, entries : Entries(call.backend, Batch(call.texts, call.size, Len(call.replies) + 1))] :
       call' = [call EXCEPT !.replies = Append(@, reply)]
  /\ UNCHANGED <<part, file, passage, records, query, pieces>>

RecordRow ==
  /\ Take("usage") /\ Len(records) < MaxRows /\ query = NoQuery
  /\ \E now \in 0 .. LastInstant(LastDay), model \in {"local", "hosted"} :
       /\ records # <<>> => now >= Last(records).at
       /\ records' = Append(records, UsageRecord(now, 2, 1, model))
  /\ UNCHANGED <<file, passage, call, query, pieces>>

\* The range is asked for at or after the instant of the last row.
AskUsage ==
  /\ Take("usage") /\ query = NoQuery
  /\ \E now \in 0 .. LastInstant(LastDay), start, end \in Params :
       /\ records # <<>> => now >= Last(records).at
       /\ query' = [now |-> now, start |-> start, end |-> end]
  /\ UNCHANGED <<file, passage, call, records, pieces>>

AddPiece ==
  /\ Take("cite") /\ Len(pieces) < MaxPieces
  /\ \E p \in {Open, Close} \cup 1 .. MaxSources + 1 : pieces' = Append(pieces, p)
  /\ UNCHANGED <<file, passage, call, records, query>>

Next ==
  \/ AddCharacter \/ AddPage \/ ChangeType \/ AddSymbol \/ ConfigureBackend \/ AddReply
  \/ RecordRow \/ AskUsage \/ AddPiece

Spec == Init /\ [][Next]_vars
-----------------------------------------------------------------------------
\* Every character of every page that is not blank is in some chunk of the text, whatever
\* the sizes; no chunk is over the target, starts or ends with a blank or is empty; chunks
\* start one after another and never end before the one before them (chunk_text).  Only a
\* text file or a PDF is read, and its text is within the limit, page breaks included
\* (extract_text).
EveryCharacterChunked ==
  LET text == ExtractText(file, MaxPages, MaxChars)
  IN (part = "split" /\ text # ParseError) =>
       /\ file.type \in {"text", "pdf"} /\ Len(text) <= MaxChars
       /\ \A target \in TargetTokens, overlap \in OverlapTokens :
            LET chunks == ChunkText(text, target, overlap, CharsPerToken)
            IN /\ \A i \in 1 .. Len(text) :
                    text[i] \notin Blank => \E c \in DOMAIN chunks : chunks[c].start < i /\ i <= chunks[c].end
               /\ \A c \in DOMAIN chunks :
                    /\ chunks[c].tokens \in 1 .. target
                    /\ Head(chunks[c].text) \notin Blank /\ Last(chunks[c].text) \notin Blank
               /\ \A c \in 2 .. Len(chunks) :
                    chunks[c - 1].start < chunks[c].start /\ chunks[c - 1].end <= chunks[c].end

\* A chunk that repeats the end of the one before it begins with a word, where a word
\* boundary is still ahead in the repeated stretch: _next_start is said to advance "to the
\* next word boundary so the repeated context begins on a whole word rather than mid-token".
RepeatBeginsAWord ==
  LET text == ExtractText(file, MaxPages, MaxChars)
  IN (part = "split" /\ text # ParseError) =>
       \A target \in TargetTokens, overlap \in OverlapTokens :
         LET chunks == ChunkText(text, target, overlap, CharsPerToken)
         IN \A c \in 2 .. Len(chunks) :
              LET from == chunks[c].start
                  until == chunks[c - 1].end
              IN (from < until /\ \E i \in from + 1 .. until + 1 : text[i] \in Blank)
                   => text[from] \in Blank

\* However a passage and a title are written, the doubled brackets of the fence around them
\* are its own, and neither <<SYS>> nor [INST], with or without its slash, is left in it
\* (fence_source).
FenceIsItsOwn ==
  part = "fence" =>
    LET fenced(title, text) == FenceSource("1", title, text)
        pairs(c, s) == Cardinality({i \in 1 .. Len(s) - 1 : s[i] = c /\ s[i + 1] = c})
        word(s, c) == \E i \in DOMAIN s : Occurs(c.token, s, i)
        odd == [i \in 1 .. (Len(passage) + 1) \div 2 |-> passage[2 * i - 1]]
    IN /\ \A title \in {<<>>, odd, passage} :
            /\ pairs("[", fenced(title, passage)) = 2 /\ pairs("]", fenced(title, passage)) = 3
            /\ \A k \in {1, 2} : ~word(fenced(title, passage), ControlTokens[k])

\* When the batches of a document all succeed there is a vector of the column's width for
\* every text, and its own as long as no reply repeats an index, or has one of no input: only
\* the number of vectors is checked.  With the hosted provider the first bad reply decides
\* what an error is, and whether ingestion fails the document at once: for a refusal with a
\* 4xx that is neither 408 nor 429, 401 and 403 for the key, and for nothing else.  The
\* local server is asked again after any refusal; without a key nothing is asked at all
\* (embed_in_batches, VoyageEmbedder, OllamaEmbedder, PERMANENT_FAILURES).
EveryTextItsVector ==
  (part = "embed" /\ Len(call.replies) = Batches(call.texts, call.size)) =>
    LET result == EmbedInBatches(call.backend, call.texts, call.size, 2, call.replies)
        reply(k) == call.replies[k]
        inputs(k) == Len(Batch(call.texts, call.size, k))
        distinct(k) == \A i, j \in DOMAIN reply(k).entries :
                         /\ reply(k).entries[i].index < inputs(k)
                         /\ reply(k).entries[i].index = reply(k).entries[j].index => i = j
        refused == {k \in DOMAIN call.replies : reply(k).status # 200}
        bad == refused \cup {k \in DOMAIN call.replies : Len(reply(k).entries) # inputs(k)}
        status == reply(Min(bad)).status
    IN /\ result.error = "none" =>
            /\ DOMAIN result.vectors = DOMAIN call.texts
            /\ \A i \in DOMAIN call.texts : result.vectors[i].dim = 2
            /\ (\A k \in DOMAIN call.replies : distinct(k)) =>
                 \A i \in DOMAIN call.texts : result.vectors[i].of = call.texts[i]
       /\ call.backend # "keyless" /\ bad = {} => result.error \in {"none", DimensionError}
       /\ call.backend = "voyage" /\ bad # {} =>
            /\ result.error \in PermanentFailures <=> status \in (400 .. 499) \ {408, 429}
            /\ result.error = ConfigurationError <=> status \in {401, 403}
       /\ call.backend = "ollama" =>
            /\ result.error = Transient <=> refused # {}
            /\ result.error \in {"none", Transient, CountError, DimensionError}
       /\ call.backend = "keyless" /\ call.texts # <<>> => result.error = ConfigurationError

\* The series of days is the range that was asked for, up to today, a day after the other; its
\* totals are those the summary of the same dates gives, and the rows outside are in neither.
DaysAgreeWithSummary ==
  LET daily == UsageDailyView(records, query.now, query.start, query.end)
      summary == UsageView(records, query.now, query.start, query.end)
  IN (part = "usage" /\ daily.status = 200) =>
       /\ [i \in DOMAIN daily.days |-> daily.days[i].date]
            = [n \in 1 .. daily.end - daily.start + 1 |-> daily.start + n - 1]
       /\ Len(daily.days) <= MaxDays /\ daily.end <= DayOf(query.now)
       /\ query.start.kind = "date" => summary.status = 200 /\ daily.totals = summary.totals
       /\ query.end.kind = "date" => daily.end <= query.end.at
       /\ daily.totals.requests
            = Cardinality({i \in DOMAIN records : DayOf(records[i].at) \in daily.start .. daily.end})

\* The citations of an answer are the sources its complete markers name, each once, with its
\* own source, in the order of first mention (_resolve_citations).
CitationsAreTheMentions ==
  part = "cite" => \A n \in 0 .. MaxSources :
    LET sources == [i \in 1 .. n |-> <<"source", i>>]
        cited == Resolve(sources, Numbers(pieces))
        mentions(k) == {i \in 3 .. Len(pieces) :
                          pieces[i - 2] = Open /\ pieces[i - 1] = k /\ pieces[i] = Close}
    IN /\ {cited[i].number : i \in DOMAIN cited} = {k \in 1 .. n : mentions(k) # {}}
       /\ \A i \in DOMAIN cited : cited[i].source = sources[cited[i].number]
       /\ \A i, j \in DOMAIN cited : i < j =>
            Min(mentions(cited[i].number)) < Min(mentions(cited[j].number))
=============================================================================
