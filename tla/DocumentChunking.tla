-------------------------- MODULE DocumentChunking --------------------------
(***************************************************************************)
(* document_loader.py: from the text blocks of a PDF's pages, read or by   *)
(* OCR, to the chunks that are indexed.                                    *)
(*                                                                         *)
(* A text is a sequence of characters <<block text, position>>, so that it *)
(* is visible what became of every one of them; all spaces are alike.  The *)
(* text of a chunk is the sequence of its paragraphs.  A raw block says    *)
(* how it looks (what the regular expressions and the case of its letters  *)
(* come to) and has the counts of characters the OCR gate computes.        *)
(***************************************************************************)
EXTENDS Integers, Sequences, SequencesExt

CONSTANTS
    Documents,      \* sequences of pages: [native, ocr, ocrFails]
    ChunkSize, Overlap,
    MinMerged,      \* _MIN_MERGED_CHUNK_CHARS
    MinIndexable,   \* _MIN_INDEXABLE_CHUNK_CHARS
    OcrMinChars     \* OCR_MIN_TEXT_CHARS; 0: OCR is disabled

IsSequence(s) == s \in Seq(ToSet(s))
RawBlocks(page) == ToSet(page.native) \cup ToSet(page.ocr)

\* _validate_chunk_settings; a block has text, and its look is that of its text.
ASSUME ChunkAssumption ==
    /\ ChunkSize \in Nat \ {0} /\ Overlap \in 0 .. ChunkSize - 1
    /\ OcrMinChars \in Nat /\ MinIndexable \in Nat /\ MinMerged \in Nat
    /\ MinIndexable <= MinMerged
    /\ \A d \in Documents :
        /\ IsSequence(d)
        /\ \A n \in DOMAIN d :
            /\ IsSequence(d[n].native) /\ IsSequence(d[n].ocr)
            /\ \A b \in RawBlocks(d[n]) : b.sentences \in Seq(Nat \ {0}) /\ b.sentences # <<>>
            /\ \A m \in DOMAIN d : \A b \in RawBlocks(d[n]), c \in RawBlocks(d[m]) :
                    b.id = c.id => b.look = c.look /\ b.prose = c.prose

VARIABLES
    pdf,        \* the document's pages
    stage,      \* "parse", "chunk", "merge", "done", "failed"
    parsed,     \* pages parsed so far: sequences of blocks
    heading,    \* active_section
    pending, index, \* locals of _merge_tiny_page_chunks
    chunks

chunkVars == <<pdf, stage, parsed, heading, pending, index, chunks>>

ChunkInit ==
    /\ pdf \in Documents /\ stage = "parse" /\ parsed = <<>> /\ heading = <<>>
    /\ pending = <<>> /\ index = 1 /\ chunks = <<>>

(* -------------------------------- text --------------------------------- *)

Space == <<0, 0>>
Blank(c) == c = Space

\* str.strip and lstrip
StripLeft(s) ==
    LET solid == {i \in DOMAIN s : ~Blank(s[i])} IN
    IF solid = {} THEN <<>> ELSE SubSeq(s, CHOOSE i \in solid : \A j \in solid : i <= j, Len(s))
StripText(s) == Reverse(StripLeft(Reverse(StripLeft(s))))

\* The last n characters, and " ".join
Suffix(s, n) == SubSeq(s, IF Len(s) > n THEN Len(s) - n + 1 ELSE 1, Len(s))
Spaced(s, t) == StripText(s \o <<Space>> \o t)

\* clean_text of a raw block: its sentences, one space between two of them.
Before(b, k) == FoldLeft(LAMBDA n, m : n + m, 0, SubSeq(b.sentences, 1, k - 1))
Sentence(b, k) == [p \in 1 .. b.sentences[k] |-> <<b.id, Before(b, k) + p>>]
SentencesOf(b) == [k \in DOMAIN b.sentences |-> Sentence(b, k)]
CleanText(b) == FoldLeft(Spaced, <<>>, SentencesOf(b))

\* _normalize_content of a chunk's text: paragraphs one space apart.
Content(text) == FoldLeft(Spaced, <<>>, text)

(* ------------------------------- parsing ------------------------------- *)

\* _is_usable_ocr_block, on the counts of its characters and tokens.
UsableOcrBlock(n) ==
    /\ n.alnum > 0 /\ n.badRun < 3
    /\ n.bad >= 2 => 100 * n.bad <= 5 * n.visible
    /\ n.visible >= 12 => 100 * n.dominant < 60 * n.visible
    /\ n.visible >= 40 => 100 * n.alnum >= 65 * n.visible
    /\ n.tokens >= 6 /\ 100 * n.cjk < 20 * n.alnum =>
          IF n.visible >= 200
          THEN 100 * n.singles <= 25 * n.tokens /\ 100 * n.useful >= 90 * n.alnum
          ELSE 100 * n.singles <= 40 * n.tokens /\ 100 * n.useful >= 85 * n.alnum

\* The counts of joined blocks (whose most frequent character is the same).
Joined(m, n) ==
    [f \in DOMAIN m |-> IF f = "badRun" THEN (IF m[f] > n[f] THEN m[f] ELSE n[f]) ELSE m[f] + n[f]]

\* _filter_ocr_blocks: each block, and then what is left as a whole.
FilterOcrBlocks(blocks) ==
    LET kept == FoldLeft(LAMBDA ds, b : IF UsableOcrBlock(b.counts) THEN Append(ds, b) ELSE ds,
                         <<>>, blocks) IN
    IF kept = <<>> THEN <<>>
    ELSE IF UsableOcrBlock(FoldLeft(LAMBDA n, b : Joined(n, b.counts), Head(kept).counts, Tail(kept)))
         THEN kept ELSE <<>>

\* _looks_like_heading: short, no closing punctuation, and a numbered prefix, or
\* no table cell and a colon, capitals, CJK or title case.
LooksLikeHeading(b) ==
    ~b.prose /\ b.look \in {"prefix", "colon", "upper", "cjk", "title"}

Characters(blocks) == FoldLeft(LAMBDA n, b : n + FoldLeft(LAMBDA k, s : k + s, 0, b.sentences), 0, blocks)

\* Too few characters in the text layer: OCR reads the page.
WantsOcr(page) == Characters(page.native) < OcrMinChars

\* A ParsedBlock of page n; the active section runs on from page to page.
ParseBlock(acc, b, n, ocr) ==
    LET h == IF LooksLikeHeading(b) THEN CleanText(b) ELSE acc.heading IN
    [heading |-> h,
     blocks |-> Append(acc.blocks, [text |-> CleanText(b), sentences |-> SentencesOf(b),
                                    page |-> n, section |-> h, ocr |-> ocr])]

\* parse_pdf, one page; a failing OCR fails the document.
ParsePage ==
    LET n == Len(parsed) + 1
        page == pdf[n]
        accepted == IF WantsOcr(page) THEN FilterOcrBlocks(page.ocr) ELSE <<>>
        raw == IF accepted # <<>> THEN accepted ELSE page.native
        out == FoldLeft(LAMBDA acc, b : ParseBlock(acc, b, n, accepted # <<>>),
                        [heading |-> heading, blocks |-> <<>>], raw)
    IN
    /\ stage = "parse" /\ Len(parsed) < Len(pdf)
    /\ IF WantsOcr(page) /\ page.ocrFails
       THEN stage' = "failed" /\ UNCHANGED <<parsed, heading>>
       ELSE parsed' = Append(parsed, out.blocks) /\ heading' = out.heading /\ UNCHANGED stage
    /\ UNCHANGED <<pdf, pending, index, chunks>>

\* No pages or no blocks: DocumentProcessingError.
ParseEnd ==
    /\ stage = "parse" /\ Len(parsed) = Len(pdf)
    /\ stage' = IF \A n \in DOMAIN parsed : parsed[n] = <<>> THEN "failed" ELSE "chunk"
    /\ UNCHANGED <<pdf, parsed, heading, pending, index, chunks>>

(* ------------------------------- chunking ------------------------------ *)

\* _split_long_text: sentences packed with the tail of the last piece before
\* them, which may take a piece over ChunkSize; or windows of ChunkSize.
Pack(acc, s) ==
    IF acc.now # <<>> /\ Len(Spaced(acc.now, s)) > ChunkSize
    THEN [done |-> Append(acc.done, acc.now),
          now |-> Spaced(IF Overlap = 0 THEN <<>> ELSE StripLeft(Suffix(acc.now, Overlap)), s)]
    ELSE [done |-> acc.done, now |-> Spaced(acc.now, s)]
NothingYet == [done |-> <<>>, now |-> <<>>]
Closed(acc) == IF acc.now = <<>> THEN acc.done ELSE Append(acc.done, acc.now)
PackSentences(sentences) == Closed(FoldLeft(Pack, NothingYet, sentences))

Windows(s) ==
    LET step == ChunkSize - Overlap
        more == (Len(s) - ChunkSize + step - 1) \div step
        upto(i) == IF i + ChunkSize > Len(s) THEN Len(s) ELSE i + ChunkSize
        pieces == [k \in 1 .. more + 1 |-> StripText(SubSeq(s, (k - 1) * step + 1, upto((k - 1) * step)))]
    IN FoldLeft(LAMBDA ps, p : IF p # <<>> THEN Append(ps, p) ELSE ps, <<>>, pieces)

SplitLongText(s, sentences) ==
    IF Len(s) <= ChunkSize THEN <<s>>
    ELSE IF Len(sentences) > 1 /\ \A k \in DOMAIN sentences : Len(sentences[k]) <= ChunkSize
    THEN PackSentences(sentences) ELSE Windows(s)

TotalLength(texts) == FoldLeft(LAMBDA n, t : n + Len(t), 0, texts)
JoinedLength(texts) == IF texts = <<>> THEN 0 ELSE TotalLength(texts) + 2 * (Len(texts) - 1)

\* _overlap_blocks: the last block, and as many more as stay within Overlap.
OverlapBlocks(texts) ==
    LET fits == {1} \cup {k \in DOMAIN texts : TotalLength(Suffix(texts, k)) <= Overlap}
    IN IF Overlap = 0 THEN <<>> ELSE Suffix(texts, CHOOSE k \in fits : \A j \in fits : j <= k)

\* current.pop(0) until the next block fits.
Trim(texts, t) ==
    LET fits == {k \in 0 .. Len(texts) : k = 0 \/ JoinedLength(Append(Suffix(texts, k), t)) <= ChunkSize}
    IN Suffix(texts, CHOOSE k \in fits : \A j \in fits : j <= k)

\* _chunk_block_group: blocks of one section of a page.
AddPiece(acc, t) ==
    IF acc.now # <<>> /\ JoinedLength(Append(acc.now, t)) > ChunkSize
    THEN [done |-> Append(acc.done, acc.now), now |-> Append(Trim(OverlapBlocks(acc.now), t), t)]
    ELSE [done |-> acc.done, now |-> Append(acc.now, t)]
MakeChunk(texts, b) == [text |-> texts, page |-> b.page, section |-> b.section, ocr |-> b.ocr]
ChunkBlockGroup(blocks) ==
    LET expanded == FlattenSeq([k \in DOMAIN blocks |-> SplitLongText(blocks[k].text, blocks[k].sentences)])
        texts == Closed(FoldLeft(AddPiece, NothingYet, expanded))
    IN [k \in DOMAIN texts |-> MakeChunk(texts[k], blocks[1])]

\* The groups of a page: a new section starts a new one.
AddToGroup(gs, b) ==
    IF gs = <<>> \/ Last(Last(gs)).section # b.section THEN Append(gs, <<b>>)
    ELSE Append(Front(gs), Append(Last(gs), b))
Groups(blocks) == FoldLeft(AddToGroup, <<>>, blocks)

\* chunk_document: the groups of the next page.
ChunkPage ==
    /\ stage = "chunk" /\ parsed # <<>>
    /\ LET groups == Groups(Head(parsed)) IN
       pending' = FlattenSeq([g \in DOMAIN groups |-> ChunkBlockGroup(groups[g])])
    /\ parsed' = Tail(parsed) /\ index' = 1 /\ stage' = "merge"
    /\ UNCHANGED <<pdf, heading, chunks>>

HeadingOnly(c) == Content(c.text) = c.section

\* _merge_chunks: paragraphs once each.
AddParagraph(ps, p) == IF Contains(ps, p) THEN ps ELSE Append(ps, p)
MergeChunks(a, b) ==
    [a EXCEPT !.text = FoldLeft(AddParagraph, <<>>, a.text \o b.text),
              !.section = IF HeadingOnly(a) /\ ~HeadingOnly(b) THEN b.section ELSE @,
              !.ocr = a.ocr \/ b.ocr]

\* One turn of the loop of _merge_tiny_page_chunks.
MergeStep ==
    LET c == pending[index]
        merged(i) == SubSeq(pending, 1, i - 1) \o <<MergeChunks(pending[i], pending[i + 1])>>
                         \o SubSeq(pending, i + 2, Len(pending))
        small == IF MinMerged < ChunkSize THEN MinMerged ELSE ChunkSize
    IN
    /\ stage = "merge" /\ Len(pending) > 1 /\ index <= Len(pending)
    /\ IF Len(Content(c.text)) >= small /\ ~HeadingOnly(c)
       THEN index' = index + 1 /\ UNCHANGED pending
       ELSE IF index < Len(pending)
       THEN pending' = merged(index) /\ UNCHANGED index
       ELSE pending' = merged(index - 1) /\ index' = index - 1
    /\ UNCHANGED <<pdf, stage, parsed, heading, chunks>>

MergeEnd ==
    /\ stage = "merge" /\ (Len(pending) > 1 => index > Len(pending))
    /\ chunks' = chunks \o pending /\ pending' = <<>> /\ stage' = "chunk"
    /\ UNCHANGED <<pdf, parsed, heading, index>>

\* Mutant: chunks are held to the minimum for merging.
DeduplicateStrictly(cs) ==
    FoldLeft(LAMBDA ds, c :
        IF \/ Len(Content(c.text)) < MinMerged \/ HeadingOnly(c)
           \/ \E k \in DOMAIN ds : Content(ds[k].text) = Content(c.text)
        THEN ds ELSE Append(ds, c), <<>>, cs)

\* _deduplicate_chunks
AddChunk(ds, c) ==
    IF \/ Len(Content(c.text)) < MinIndexable \/ HeadingOnly(c)
       \/ \E k \in DOMAIN ds : Content(ds[k].text) = Content(c.text)
    THEN ds ELSE Append(ds, c)
DeduplicateChunks(cs) == FoldLeft(AddChunk, <<>>, cs)

\* The end of chunk_document, and load_pdf_chunks: a document without chunks fails.
LoadEnd ==
    /\ stage = "chunk" /\ parsed = <<>>
    /\ chunks' = DeduplicateChunks(chunks)
    /\ stage' = IF chunks' = <<>> THEN "failed" ELSE "done"
    /\ UNCHANGED <<pdf, parsed, heading, pending, index>>

ChunkNext == ParsePage \/ ParseEnd \/ ChunkPage \/ MergeStep \/ MergeEnd \/ LoadEnd

ChunkSpec == ChunkInit /\ [][ChunkNext]_chunkVars

(* ----------------------------- properties ------------------------------ *)

\* Type invariant.
ChunkTypeOK ==
    /\ stage \in {"parse", "chunk", "merge", "done", "failed"}
    /\ Len(parsed) <= Len(pdf) /\ index \in Nat
    /\ \A k \in DOMAIN chunks : chunks[k].page \in DOMAIN pdf /\ chunks[k].text # <<>>

InText(c, text) == \E p \in DOMAIN text : Contains(text[p], c)
OnPage(c, page) == \E b \in RawBlocks(page) : b.id = c[1]

\* Every character of a block of the text layer that is long enough to be
\* indexed and no heading is in some chunk, unless OCR read the page.
NothingLost ==
    \A n \in DOMAIN pdf : \A b \in ToSet(pdf[n].native) :
        (/\ Len(CleanText(b)) >= MinIndexable /\ ~LooksLikeHeading(b)
         /\ ~WantsOcr(pdf[n])) =>
            \A i \in DOMAIN CleanText(b) :
                ~Blank(CleanText(b)[i]) => \E k \in DOMAIN chunks : InText(CleanText(b)[i], chunks[k].text)

\* A chunk has text of the page it names only.
Attributed ==
    \A k \in DOMAIN chunks :
        \A p \in DOMAIN chunks[k].text : \A i \in DOMAIN chunks[k].text[p] :
            ~Blank(chunks[k].text[p][i]) => OnPage(chunks[k].text[p][i], pdf[chunks[k].page])

\* No two chunks have the same content, and whatever the splitting, the overlap
\* and the merging of small neighbours added, a chunk is not longer than a piece
\* with its overlap and two neighbours.
ContentsDiffer ==
    \A j, k \in DOMAIN chunks : Content(chunks[j].text) = Content(chunks[k].text) => j = k
NotTooLong ==
    \A k \in DOMAIN chunks :
        Len(Content(chunks[k].text)) <= ChunkSize + Overlap + 1 + 2 * (ChunkSize + 1)

\* What the settings must be for that: CHUNK_SIZE leaves room for a chunk that is
\* indexed, and for a heading (1000 characters by default, 40 and 140 at most).
SensibleSizes ==
    /\ MinIndexable <= ChunkSize
    /\ \A d \in Documents : \A n \in DOMAIN d : \A b \in RawBlocks(d[n]) :
            LooksLikeHeading(b) => Len(CleanText(b)) <= ChunkSize

\* No text is lost, misattributed, repeated or piled up between the page and the
\* index.
ChunksFaithful ==
    stage = "done" => NothingLost /\ Attributed /\ ContentsDiffer /\ NotTooLong
============================================================================
