---- MODULE Splitter ----
(***************************************************************************)
(* The text splitters of internal/rag/splitter.go.  A text is a sequence   *)
(* of characters of one byte each, which are strings of length one, the    *)
(* newline being "n".                                                      *)
(*                                                                         *)
(* What is only cut out of the document is the span of its positions; what *)
(* is put together again is a sequence of records [char, at] where at,     *)
(* which is auxiliary, is the position of the character in the document,   *)
(* and 0 for the characters of a separator that is put in.                 *)
(*                                                                         *)
(* A step is one turn of a loop: one split, one sentence, one chunk.       *)
(***************************************************************************)
EXTENDS Integers, Sequences

CONSTANTS
    Documents,      \* the contents to split
    Configs         \* [kind, size, overlap, keep, strip], before the defaults

ASSUME DocumentsAssumption == Documents \subseteq Seq(STRING)
ASSUME ConfigsAssumption ==
    Configs \subseteq [kind : {"recursive", "sentence"}, size : Int, overlap : Int,
                       keep : BOOLEAN, strip : BOOLEAN]

VARIABLES
    content,        \* doc.Content
    config,         \* the configuration after the defaults
    calls,          \* the calls of splitTextRecursive, the innermost last
    merged,         \* currentDoc of mergeSplits, or the sentences' currentChunk
    texts,          \* what SplitText returns
    placed,         \* [start, end] of the chunks placed so far
    offset,         \* where the search for the next one begins
    stage           \* "split", "merge", "descend", "sentence", "place", "done" or "panic"

splitVars == <<content, config, calls, merged, texts, placed, offset, stage>>

Blank == " "
Newline == "n"
Stop == "."
Space == {Blank, Newline}
SentenceMarks == {Stop, "!", "?"}

Separators == <<<<Newline, Newline>>, <<Newline>>, <<Stop, Blank>>, <<Blank>>, <<>>>>

Least(S) == CHOOSE x \in S : \A y \in S : x <= y
Greatest(S) == CHOOSE x \in S : \A y \in S : y <= x

----
(* Spans of the document, and texts put together from it. *)

Span(from, to) == [from |-> from, to |-> to]
NoSpan == Span(1, 0)
IsEmpty(span) == span.from > span.to
Size(span) == span.to - span.from + 1

Characters(span) ==
    [i \in 1..Size(span) |-> [char |-> content[span.from + i - 1], at |-> span.from + i - 1]]
Inserted(part) == [i \in DOMAIN part |-> [char |-> part[i], at |-> 0]]
Plain(text) == [i \in DOMAIN text |-> text[i].char]

\* strings.TrimSpace, of a span and of a text.
TrimSpan(span) ==
    LET solid == {i \in span.from..span.to : content[i] \notin Space}
    IN  IF solid = {} THEN NoSpan ELSE Span(Least(solid), Greatest(solid))

TrimText(text) ==
    LET solid == {i \in DOMAIN text : text[i].char \notin Space}
    IN  IF solid = {} THEN <<>> ELSE SubSeq(text, Least(solid), Greatest(solid))

\* strings.Index, everywhere in a span.
Occurrences(part, span) ==
    {i \in span.from..(span.to - Len(part) + 1) :
        \A j \in 1..Len(part) : content[i + j - 1] = part[j]}

----
(* RecursiveTextSplitter.SplitText. *)

\* NewRecursiveTextSplitter.  NewSentenceSplitter sets the size only: sentences
\* have no use for the overlap.
Normalised(cfg) ==
    LET size == IF cfg.size <= 0 THEN 1000 ELSE cfg.size
        overlap == IF cfg.overlap < 0 THEN 0 ELSE cfg.overlap
    IN  [cfg EXCEPT !.size = size,
                    !.overlap = IF overlap >= size THEN size \div 4 ELSE overlap]

\* A call splits its span at the first separator, from the given one on, that
\* occurs in it, as the last one, which is empty, does.
Call(span, first) ==
    [level |-> Least({i \in first..Len(Separators) :
                        Separators[i] = <<>> \/ Occurrences(Separators[i], span) # {}}),
     rest  |-> span,        \* what has not been split yet
     good  |-> <<>>,        \* goodSplits
     large |-> NoSpan]      \* a split for the next separator

call == calls[Len(calls)]
Returned == SubSeq(calls, 1, Len(calls) - 1)
Separator == Separators[call.level]
SeparatorToUse == IF config.keep THEN Separator ELSE <<>>

SplitterInit ==
    /\ content \in Documents
    /\ config \in {Normalised(cfg) : cfg \in Configs}
    /\ calls = <<Call(Span(1, Len(content)), 1)>>
    /\ merged = <<>>
    /\ texts = <<>>
    /\ placed = <<>>
    /\ offset = 0
    /\ stage = IF config.kind = "sentence" THEN "sentence" ELSE "split"

\* The next split and what is left after it.  (strings.Split ends with an empty
\* split if the span ends with a separator: that one is skipped like all others.)
NextSplit ==
    LET span == call.rest
        at == Occurrences(Separator, span)
    IN  IF Separator = <<>> THEN Span(span.from, span.from)
        ELSE IF at = {} THEN span ELSE Span(span.from, Least(at) - 1)

AfterSplit == Span(NextSplit.to + 1 + (IF NextSplit.to = call.rest.to THEN 0 ELSE Len(Separator)),
                   call.rest.to)

StrippedSplit == IF config.strip THEN TrimSpan(NextSplit) ELSE NextSplit

Small(split) == Size(split) < config.size

\* The call after the split: a small one is good, a large one waits.
Taken(split) ==
    [level |-> call.level,
     rest  |-> AfterSplit,
     good  |-> IF ~IsEmpty(split) /\ Small(split) THEN Append(call.good, split) ELSE call.good,
     large |-> IF ~IsEmpty(split) /\ ~Small(split) THEN split ELSE call.large]

\* Mutant: what comes before a large split waits for what comes after it.
KeepGood == "descend"

\* Before a large split is split further the good ones before it are merged.
BeforeLarge == "merge"

TakeSplit ==
    /\ stage = "split" /\ ~IsEmpty(call.rest)
    /\ LET split == StrippedSplit
       IN  /\ calls' = [calls EXCEPT ![Len(calls)] = Taken(split)]
           /\ stage' = IF IsEmpty(split) \/ Small(split) THEN "split" ELSE BeforeLarge
    /\ UNCHANGED <<content, config, merged, texts, placed, offset>>

\* After the last split the good ones that remain are merged.
EndSplits ==
    /\ stage = "split" /\ IsEmpty(call.rest)
    /\ stage' = "merge"
    /\ UNCHANGED <<content, config, calls, merged, texts, placed, offset>>

\* Mutant: the separator is not counted.
WithoutSeparator(text, split) == Len(text) + Size(split)

Joined(text, split) ==
    Len(text) + Size(split) + (IF text # <<>> THEN Len(SeparatorToUse) ELSE 0)

Stripped(text) == IF config.strip THEN TrimText(text) ELSE text

\* The chunk that has been built is returned, unless it is empty.
Emitted == IF Stripped(merged) = <<>> THEN texts ELSE Append(texts, Stripped(merged))

\* The last characters of a chunk, if it has more, are the first of the next one.
Overlap(text) ==
    IF config.overlap > 0 /\ Len(text) > config.overlap
    THEN SubSeq(text, Len(text) - config.overlap + 1, Len(text)) ELSE <<>>

\* One turn of the loop of mergeSplits.
MergeSplit ==
    /\ stage = "merge" /\ call.good # <<>>
    /\ LET split == Head(call.good)
           full == merged # <<>> /\ Joined(merged, split) > config.size
           begun == IF full THEN Overlap(Stripped(merged)) ELSE merged
       IN  /\ texts' = IF full THEN Emitted ELSE texts
           /\ merged' = (IF begun = <<>> THEN <<>> ELSE begun \o Inserted(SeparatorToUse))
                            \o Characters(split)
    /\ calls' = [calls EXCEPT ![Len(calls)].good = Tail(@)]
    /\ UNCHANGED <<content, config, placed, offset, stage>>

Placing(ts) == IF ts = <<>> THEN "done" ELSE "place"

\* The end of mergeSplits, and of splitTextRecursive unless a large split waits.
EndMerge ==
    /\ stage = "merge" /\ call.good = <<>>
    /\ texts' = Emitted
    /\ merged' = <<>>
    /\ IF ~IsEmpty(call.large)
       THEN calls' = calls /\ stage' = "descend"
       ELSE calls' = Returned /\ stage' = IF Len(calls) = 1 THEN Placing(texts') ELSE "split"
    /\ UNCHANGED <<content, config, placed, offset>>

\* A large split is split by the separators that are left, or returned as it is.
Descend ==
    /\ stage = "descend"
    /\ LET waiting == [calls EXCEPT ![Len(calls)].large = NoSpan] IN
       IF call.level < Len(Separators)
       THEN /\ calls' = Append(waiting, Call(call.large, call.level + 1))
            /\ texts' = texts
       ELSE /\ calls' = waiting
            /\ texts' = Append(texts, Characters(call.large))
    /\ stage' = "split"
    /\ UNCHANGED <<content, config, merged, placed, offset>>

----
(* SentenceSplitter.SplitText; of the call only the rest is used. *)

\* A sentence ends at a mark before a space or at the end, and at the end.
SentenceEnds ==
    {i \in call.rest.from..call.rest.to :
        i = Len(content) \/ (content[i] \in SentenceMarks /\ content[i + 1] \in Space)}

Fits(text, sentence) == Len(text) + Size(sentence) + 1 <= config.size

TakeSentence ==
    /\ stage = "sentence" /\ ~IsEmpty(call.rest)
    /\ LET end == Least(SentenceEnds)
           sentence == TrimSpan(Span(call.rest.from, end))
           full == merged # <<>> /\ ~IsEmpty(sentence) /\ ~Fits(merged, sentence)
           begun == IF full THEN <<>> ELSE merged
       IN  /\ calls' = [calls EXCEPT ![Len(calls)].rest = Span(end + 1, @.to)]
           /\ texts' = IF full THEN Append(texts, TrimText(merged)) ELSE texts
           /\ merged' = IF IsEmpty(sentence) THEN merged
                        ELSE (IF begun = <<>> THEN <<>> ELSE begun \o Inserted(<<Blank>>))
                                \o Characters(sentence)
    /\ UNCHANGED <<content, config, placed, offset, stage>>

EndSentences ==
    /\ stage = "sentence" /\ IsEmpty(call.rest)
    /\ texts' = IF merged = <<>> THEN texts ELSE Append(texts, TrimText(merged))
    /\ merged' = <<>>
    /\ calls' = Returned
    /\ stage' = Placing(texts')
    /\ UNCHANGED <<content, config, placed, offset>>

----
(* Split. *)

\* The chunk is put where it occurs next, or at the offset if it does not.
StartOf(text) ==
    LET found == Occurrences(Plain(text), Span(offset + 1, Len(content)))
    IN  IF config.kind = "sentence" \/ found = {} THEN offset ELSE Least(found) - 1

\* Mutant: the search goes on from the beginning of the last chunk.
FromBeginning(start, end) == start

NewOffset(start, end) ==
    IF config.kind = "sentence" THEN end
    ELSE IF end > config.overlap THEN end - config.overlap ELSE 0

PlaceChunk ==
    /\ stage = "place"
    /\ config.kind = "recursive" => offset <= Len(content)
    /\ LET text == texts[Len(placed) + 1]
           start == StartOf(text)
           end == start + Len(text)
       IN  /\ placed' = Append(placed, [start |-> start, end |-> end])
           /\ offset' = NewOffset(start, end)
    /\ stage' = IF Len(placed') = Len(texts) THEN "done" ELSE "place"
    /\ UNCHANGED <<content, config, calls, merged, texts>>

\* doc.Content[offset:] is out of range.
Panic ==
    /\ stage = "place" /\ config.kind = "recursive" /\ offset > Len(content)
    /\ stage' = "panic"
    /\ UNCHANGED <<content, config, calls, merged, texts, placed, offset>>

Stopped == stage \in {"done", "panic"} /\ UNCHANGED splitVars

SplitterNext ==
    \/ TakeSplit \/ EndSplits \/ MergeSplit \/ EndMerge \/ Descend
    \/ TakeSentence \/ EndSentences \/ PlaceChunk \/ Panic \/ Stopped

SplitterSpec == SplitterInit /\ [][SplitterNext]_splitVars

----
(* Properties. *)

IsLetter(c) == c \notin Space \cup {Stop}
Letters == {p \in DOMAIN content : IsLetter(content[p])}

\* The positions of the document whose characters are in the text.
From(text) == {text[i].at : i \in DOMAIN text} \ {0}

\* No text is empty or has a character of its own, or one twice; each chunk is as long as its text.
TextsOK ==
    /\ \A n \in DOMAIN texts :
          /\ texts[n] # <<>>
          /\ \A i \in DOMAIN texts[n] :
                texts[n][i].at # 0 => texts[n][i].char = content[texts[n][i].at]
    /\ Len(placed) <= Len(texts)
    /\ \A n \in DOMAIN placed :
          placed[n].start >= 0 /\ placed[n].end = placed[n].start + Len(texts[n])
    /\ config.overlap < config.size
    /\ stage = "done" => Len(placed) = Len(texts)

SplitDone == stage \in {"place", "done", "panic"}

\* Whatever is split, merged and split again: every letter of the document is in
\* the chunks, and without overlap in its order, and so exactly once.
NothingLost ==
    SplitDone =>
        /\ \A p \in Letters : \E n \in DOMAIN texts : p \in From(texts[n])
        /\ config.overlap = 0 \/ config.kind = "sentence" =>
              \A n \in DOMAIN texts : \A m \in 1..(n - 1) :
                 \A p \in From(texts[m]), q \in From(texts[n]) : p < q

\* The characters of a chunk are in the document's order, and no chunk joins what
\* is apart in the document: what is between two of its letters is in it.
NothingGlued ==
    \A n \in DOMAIN texts : LET text == texts[n] IN
        /\ \A j \in DOMAIN text : \A i \in 1..(j - 1) :
              text[i].at # 0 /\ text[j].at # 0 => text[i].at < text[j].at
        /\ \A p, q \in From(text) : p..q \cap Letters \subseteq From(text)

\* The chunks are those of the document.
ChunksFaithful == TextsOK /\ NothingLost /\ NothingGlued

\* One sentence: no mark within it is followed by a space.
OneSentence(text) ==
    \A i \in 1..(Len(text) - 1) :
        text[i].char \in SentenceMarks => text[i + 1].char \notin Space

\* "ChunkSize is the maximum size of each chunk in characters." (splitter.go:12)
\* The code does not keep to it: SizeBound says how far it misses it.
ChunkSizeIsMaximum == \A n \in DOMAIN texts : Len(texts[n]) <= config.size

\* The chunk size is exceeded by the overlap and a separator at most, less one,
\* and without overlap not at all; by sentences only if it is one alone.
SizeBound ==
    \A n \in DOMAIN texts :
        \/ Len(texts[n]) <= config.size
        \/ /\ config.kind = "recursive" /\ config.overlap > 0
           /\ Len(texts[n]) <= config.size - 1 + config.overlap + 2
        \/ config.kind = "sentence" /\ OneSentence(texts[n])

\* Separators follow each other nowhere, and are not at the ends.
Regular ==
    /\ \A i \in 1..(Len(content) - 1) :
          ~IsLetter(content[i]) /\ ~IsLetter(content[i + 1])
            => content[i] = Stop /\ content[i + 1] = Blank
                 /\ i + 2 <= Len(content) /\ IsLetter(content[i + 2])
    /\ \A i \in {1, Len(content)} \cap DOMAIN content : content[i] \notin Space

\* In a regular document, and without overlap, the positions are right: there is
\* the chunk, and between two chunks there is nothing but separators.
PositionsExact ==
    (Regular /\ config.overlap = 0 /\ config.kind = "recursive" /\ config.strip /\ config.keep) =>
        /\ stage # "panic"
        /\ \A n \in DOMAIN placed :
              LET begin == IF n = 1 THEN 0 ELSE placed[n - 1].end IN
              /\ SubSeq(content, placed[n].start + 1, placed[n].end) = Plain(texts[n])
              /\ begin <= placed[n].start
              /\ (begin + 1)..placed[n].start \cap Letters = {}

\* "Split divides a document into chunks." (splitter.go): for every document.
SplitReturns == stage # "panic"
====
