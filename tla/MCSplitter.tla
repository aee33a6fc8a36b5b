---- MODULE MCSplitter ----
(***************************************************************************)
(* All documents of up to five pieces, where a piece is a letter or a      *)
(* separator, and longer ones: regular ones, and one with a double blank   *)
(* in it whose chunks are first found at its end.                          *)
(***************************************************************************)
EXTENDS Splitter, SequencesExt

Pieces == {<<"a">>, <<"b">>, <<Blank>>, <<Newline>>, <<Stop, Blank>>}

Regulars ==
    {<<"a", "b", Blank, "a", "b", Stop, Blank, "b", Newline, "a", Blank, "b", "b", "a", Stop>>,
     <<"a", Blank, "b", Newline, "a", Blank, "b", Newline, "b", "a", "a", Blank, "a">>,
     <<"a", Blank, "b", "b", "b", Blank, "a">>}

DoubleBlank == <<"a", Blank, Blank, "b", Blank, "a", Blank, "b">>

MCDocuments ==
    {FlattenSeq(p) : p \in UNION {[1..n -> Pieces] : n \in 0..5}} \cup Regulars \cup {DoubleBlank}

Config(kind, size, overlap, keep, strip) ==
    [kind |-> kind, size |-> size, overlap |-> overlap, keep |-> keep, strip |-> strip]

\* The fourth has too large an overlap, and gets an overlap of 1.
MCConfigs ==
    {Config("recursive", 2, 0, TRUE, TRUE), Config("recursive", 3, 0, TRUE, TRUE),
     Config("recursive", 3, 1, TRUE, TRUE), Config("recursive", 4, 9, TRUE, TRUE),
     Config("recursive", 3, 2, FALSE, FALSE), Config("sentence", 4, -1, TRUE, TRUE)}

LongDocuments == Regulars \cup {DoubleBlank}
====
