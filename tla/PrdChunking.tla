----------------------------- MODULE PrdChunking -----------------------------
(***************************************************************************)
(* How the generation agent cuts a requirement document into chunks        *)
(* (agents/test_case_generation/main.py: _classify_prd, the section        *)
(* parsers, _merge_short_sections, _split_long_sections,                   *)
(* _chunk_by_sections).  Size is counted in lines; a line is named by its  *)
(* section and its place in it, a heading having place 0.                  *)
(***************************************************************************)
EXTENDS Integers, SequencesExt

CONSTANTS
    MinLines,    \* SECTION_MIN_CHARS
    MaxLines,    \* SECTION_MAX_CHARS
    Threshold    \* FUNCTIONAL_SECTION_THRESHOLD

ASSUME ChunkingAssumption == {MinLines, MaxLines, Threshold} \subseteq Nat

\* A document says whether it names acceptance criteria, and has sections of lines,
\* each a text line or a numbered title.  In a plain-text document every numbered
\* title opens a section.  What stands before the first heading is in no section.
Document == [signal : BOOLEAN, sections : Seq(Seq({"text", "title"}))]

TextAt(doc, i)   == {p \in DOMAIN doc.sections[i] : doc.sections[i][p] = "text"}
TitlesAt(doc, i) == DOMAIN doc.sections[i] \ TextAt(doc, i)
Numbered(doc) ==
    Len(doc.sections) + FoldLeft(LAMBDA n, i : n + Cardinality(TitlesAt(doc, i)), 0,
                                 [i \in DOMAIN doc.sections |-> i])

\* _classify_prd.
Kind(doc) ==
    CASE doc.signal -> "ac_list"
      [] ~doc.signal /\ Numbered(doc) >= Threshold -> "functional"
      [] OTHER -> "narrative"

Sections(doc) ==
    [i \in DOMAIN doc.sections |->
        [title |-> <<i, 0>>, content |-> [p \in DOMAIN doc.sections[i] |-> <<i, p>>]]]

\* Seeded fault: a short section replaces what was merged before.
MergedIntoDropping(merged, sec) ==
    IF merged # <<>> /\ Len(sec.content) < MinLines
    THEN [merged EXCEPT ![Len(merged)].content = sec.content]
    ELSE Append(merged, sec)

\* A short section goes, heading and all, to the end of the one before; the first
\* section has none.
MergedInto(merged, sec) ==
    IF merged # <<>> /\ Len(sec.content) < MinLines
    THEN [merged EXCEPT ![Len(merged)].content = @ \o <<sec.title>> \o sec.content]
    ELSE Append(merged, sec)

Merged(secs) ==
    LET first[n \in 0..Len(secs)] ==
            IF n = 0 THEN <<>> ELSE MergedInto(first[n - 1], secs[n])
    IN  first[Len(secs)]

\* Merged headings are marked up and no longer start with a number.
SubTitles(doc, sec) ==
    {p \in DOMAIN sec.content :
        sec.content[p][2] > 0 /\ doc.sections[sec.content[p][1]][sec.content[p][2]] = "title"}

\* What follows line p of a section, up to its next numbered title or its end.
UpToNextTitle(doc, sec, p) ==
    LET next == Min({q \in SubTitles(doc, sec) : q > p} \cup {Len(sec.content) + 1})
    IN  SubSeq(sec.content, p + 1, next - 1)

\* A long section is split at its numbered titles, if it has any.
Split(doc, sec) ==
    LET titles   == SubTitles(doc, sec)
        preamble == [title |-> sec.title, content |-> UpToNextTitle(doc, sec, 0)]
        pieces   == FlattenSeq([p \in DOMAIN sec.content |->
                        IF p \in titles
                        THEN <<[title |-> sec.content[p], content |-> UpToNextTitle(doc, sec, p)]>>
                        ELSE <<>>])
    IN  IF Len(sec.content) <= MaxLines \/ titles = {} THEN <<sec>>
        ELSE IF preamble.content = <<>> THEN pieces ELSE <<preamble>> \o pieces

\* _chunk_by_sections: pieces without content are dropped.
Chunks(doc) ==
    LET merged == Merged(Sections(doc))
        pieces == FlattenSeq([i \in DOMAIN merged |-> Split(doc, merged[i])])
    IN  FlattenSeq([i \in DOMAIN pieces |->
            IF pieces[i].content = <<>> THEN <<>> ELSE <<pieces[i]>>])

-----------------------------------------------------------------------------
\* The text lines of a document in order, and those of its chunks.
IsText(doc, line) == line[2] > 0 /\ doc.sections[line[1]][line[2]] = "text"
TextOf(doc, lines) ==
    FlattenSeq([p \in DOMAIN lines |-> IF IsText(doc, lines[p]) THEN <<lines[p]>> ELSE <<>>])

DocumentText(doc) ==
    FlattenSeq([i \in DOMAIN doc.sections |-> TextOf(doc, Sections(doc)[i].content)])
ChunkText(doc) ==
    FlattenSeq([i \in DOMAIN Chunks(doc) |-> TextOf(doc, Chunks(doc)[i].content)])
=============================================================================
