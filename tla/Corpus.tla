------------------------------- MODULE Corpus -------------------------------
(***************************************************************************)
(* The policy corpus (policy_intelligence/corpus): a regulation's          *)
(* paragraphs are cut into labelled chunks (chunk.py), and the index is    *)
(* rebuilt in place under whoever searches it (index.py).                  *)
(*                                                                         *)
(* A paragraph has the marker it opens with and a size.  A marker has a    *)
(* level, 1 for digits, 2 for roman numerals, 3 for capitals, 0 when there *)
(* is none, and its place in its list.                                     *)
(***************************************************************************)
EXTENDS ModelCall, SequencesExt

CONSTANTS
    MaxChunk,   \* MAX_CHUNK_CHARS, in units of the sizes below
    MaxLength   \* bound on a section's paragraphs

VARIABLE index  \* of the corpus: "missing", "empty", "partial" or "full"

Levels == 3

Paragraph == [level : {1}, n : 1..3, size : {1, 3}]
                \cup [level : {2}, n : 1..2, size : {1, 3}]
                \cup [level : {0, Levels}, n : {1}, size : {1, 3}]

\* The paragraphs from a scoped anchor to the next one, if both are found.
ChunkInputs == [kind : {"chunks"}, anchored : BOOLEAN,
                paragraphs : BoundedSeq(Paragraph, MaxLength) \ {<<>>}]

-----------------------------------------------------------------------------
(* chunk.py                                                                *)

Excluded == {<<<<1, 2>>>>}     \* _EXCLUDED_SUBSECTIONS: one numbered item

TooLarge(paragraphs) == FoldSeq(LAMBDA p, sum : p.size + sum, 0, paragraphs) > MaxChunk

\* Seeded bug: any marker of the level opens a group.
AnyOpens(p, level, last) == p.level = level

\* Only the next one of this level's list does.
Opens(p, level, last) == p.level = level /\ p.n = last + 1

\* One paragraph is placed: a group has its marker, 0 if it comes before the
\* first.
Place(groups, p, level) ==
    LET last == IF groups = <<>> THEN 0 ELSE groups[Len(groups)].n IN
    CASE Opens(p, level, last) -> Append(groups, [n |-> p.n, of |-> <<p>>])
      [] ~Opens(p, level, last) /\ groups = <<>> -> <<[n |-> 0, of |-> <<p>>]>>
      [] OTHER -> [groups EXCEPT ![Len(groups)].of = Append(@, p)]

\* _split_sequential: the groups of the first k paragraphs, for every k.
SplitSequential(paragraphs, level) ==
    LET groups[k \in 0..Len(paragraphs)] ==
            IF k = 0 THEN <<>> ELSE Place(groups[k - 1], paragraphs[k], level)
    IN  groups[Len(paragraphs)]

\* _subdivide at one level, of a chunk that is too large and has groups there:
\* each becomes a chunk, whose label is the path of its markers.
Cut(chunk, level) ==
    LET groups  == SplitSequential(chunk.of, level)
        part(g) == [label |-> IF g.n = 0 THEN chunk.label ELSE Append(chunk.label, <<level, g.n>>),
                    of    |-> g.of]
    IN  IF ~TooLarge(chunk.of) \/ Len(groups) <= 1 THEN <<chunk>>
        ELSE [i \in DOMAIN groups |-> part(groups[i])]

CutAll(chunks, level) == FlattenSeq([i \in DOMAIN chunks |-> Cut(chunks[i], level)])

\* _subdivide: what is still too large is tried at the next level, up to Levels.
Subdivide(paragraphs) ==
    CutAll(CutAll(CutAll(<<[label |-> <<>>, of |-> paragraphs]>>, 1), 2), 3)

Kept(chunks) ==
    FlattenSeq([i \in DOMAIN chunks |-> IF chunks[i].label \in Excluded THEN <<>> ELSE <<chunks[i]>>])

\* chunk_section
ChunkSection ==
    /\ At({"chunks"}, "start")
    /\ IF ~op.anchored THEN Raise("ValueError")
       ELSE End([is |-> "chunks", all |-> Kept(Subdivide(op.paragraphs))])
    /\ UNCHANGED <<op, facts, tries, text, calls, index>>

-----------------------------------------------------------------------------
(* index.py                                                                *)

\* index_corpus drops the index, creates it and fills it, and may stop after
\* each step; whoever searches meanwhile finds what there is.
DropIndex   == index # "missing" /\ index' = "missing"
CreateIndex == index = "missing" /\ index' = "empty"
BulkIndex   == index = "empty" /\ index' \in {"partial", "full"}

Rebuild == (DropIndex \/ CreateIndex \/ BulkIndex) /\ UNCHANGED call

CorpusNext == ChunkSection

-----------------------------------------------------------------------------

IsItem(p, n) == p.level = 1 /\ p.n = n

\* Where the excluded item begins in the section, by the text of the
\* regulation: at the first 2 after the first 1.
ItemAt(ps) == {j \in DOMAIN ps : \E i \in 1..(j - 1) :
                    /\ IsItem(ps[i], 1) /\ \A k \in 1..(i - 1) : ~IsItem(ps[k], 1)
                    /\ IsItem(ps[j], 2) /\ \A k \in i..(j - 1) : ~IsItem(ps[k], 2)}

\* It ends before the next 3, or with the section.
ItemEnd(ps, j) == {e \in j..Len(ps) : /\ \A k \in j..e : ~IsItem(ps[k], 3)
                                      /\ e = Len(ps) \/ IsItem(ps[e + 1], 3)}

Text(chunks) == FlattenSeq([i \in DOMAIN chunks |-> chunks[i].of])

\* The chunks are the section, in order: no paragraph is lost or repeated
\* but those of the excluded item, which are all left out when the section
\* was cut and the item itself was not; no two chunks have one label, which
\* is the document's id, so that one would replace the other; and only what
\* no list of the last level divides is left too large (chunk.py).
ChunksPartition ==
    Returned("chunks") =>
        LET ps   == op.paragraphs
            all  == Subdivide(ps)
        IN  /\ Text(all) = ps
            /\ \A i, j \in DOMAIN all : all[i].label = all[j].label => i = j
            /\ \A j \in ItemAt(ps) : \A e \in ItemEnd(ps, j) :
                TooLarge(ps) /\ ~TooLarge(SubSeq(ps, j, e))
                    => Text(out.all) = SubSeq(ps, 1, j - 1) \o SubSeq(ps, e + 1, Len(ps))
            /\ ItemAt(ps) = {} => Text(out.all) = ps
            /\ \A c \in Range(out.all) : TooLarge(c.of) =>
                \A i \in 2..Len(c.of) : c.of[i].level = Levels => c.of[1].level = Levels
=============================================================================
