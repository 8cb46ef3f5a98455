------------------------------- MODULE Chunking -------------------------------
(* ChunkingService of services/chunking.py: the windows that a paper's text  *)
(* is cut into.  A text is a sequence of characters, of which only newlines, *)
(* dots, spaces and the rest differ.  Positions count from 0 and a window is *)
(* [start, end), both as in the code.                                        *)
EXTENDS Integers, Sequences, FiniteSetsExt, Loops

CONSTANTS
  ChunkedPapers,   \* inputs [abstract, pages]; raw text is a single page
  TargetChars,     \* ChunkingConfig.target_chars
  OverlapChars,    \* ChunkingConfig.overlap_chars
  MinChunkChars    \* ChunkingConfig.min_chunk_chars

Newline == "n"
Space == " "
Blank == {Newline, Space}
Characters == Blank \cup {".", "x"}

ASSUME ChunkingAssumption ==
  /\ TargetChars \in Nat \ {0} /\ MinChunkChars \in Nat \ {0} /\ OverlapChars \in Nat
  /\ ChunkedPapers \subseteq [abstract : BOOLEAN, pages : Seq(Seq(Characters))]

VARIABLE chunking   \* node, paper, texts (its pages so far, normalized), start, chunks

ChunkingOf(paper) ==
  [node |-> "abstract", paper |-> paper, texts |-> <<>>, start |-> 0, chunks |-> <<>>]

ChunkingInit == \E paper \in ChunkedPapers : chunking = ChunkingOf(paper)

(* _normalize_text: no spaces at the end of a line, no blanks around it all. *)
NormalizeText(text) ==
  LET solid == {i \in DOMAIN text : text[i] \notin Blank}
      kept(i) ==
        /\ \E a, b \in solid : a <= i /\ i <= b
        /\ text[i] # Space \/ \A k \in i..Len(text) :
             text[k] = Newline => \E j \in i..k : text[j] \notin Blank
      positions == Gathered([k \in DOMAIN text |-> k], {x \in Seq(Nat) \X (DOMAIN text) : kept(x[2])})
  IN [k \in DOMAIN positions |-> text[positions[k]]]

Page == Len(chunking.texts)
Text == chunking.texts[Page]

CharAt(text, i) == text[i + 1]

(* str.rfind of two characters within [start, end): -1 if they do not occur. *)
LastFound(text, x, y, start, end) ==
  Max({-1} \cup {i \in start..(end - 2) : CharAt(text, i) = x /\ CharAt(text, i + 1) = y})

(* The end of the window: the last paragraph break that leaves a chunk of    *)
(* the minimum size, else the last end of a sentence that does, else the     *)
(* full size.                                                                *)
WindowEnd(text, start) ==
  LET end == Min({start + TargetChars, Len(text)})
      paragraph == LastFound(text, Newline, Newline, start, end)
      sentence == LastFound(text, ".", Space, start, end)
      boundary == IF paragraph <= start + MinChunkChars THEN sentence ELSE paragraph
  IN IF end < Len(text) /\ boundary > start + MinChunkChars THEN boundary + 1 ELSE end

\* Mutant: the overlap alone decides.
NextStart_NoStep(start, end) == Max({0, end - OverlapChars})

NextStart(start, end) == Max({end - OverlapChars, start + 1})

HasText(text, start, end) == \E i \in start..(end - 1) : CharAt(text, i) \notin Blank

TextChunks == [id : Nat, type : {"abstract", "text"}, page : Nat, start : Nat, end : Nat]

(* _make_chunk: numbered in the order of the paper. *)
Emit(type, page, start, end) ==
  Append(chunking.chunks, [id |-> Len(chunking.chunks), type |-> type, page |-> page,
                           start |-> start, end |-> end])

ChunkAbstract ==
  /\ chunking.node = "abstract"
  /\ chunking' = [chunking EXCEPT !.node = "pages",
                    !.chunks = IF chunking.paper.abstract THEN Emit("abstract", 0, 0, 0) ELSE @]

TakePage ==
  /\ chunking.node = "pages" /\ Page < Len(chunking.paper.pages)
  /\ chunking' = [chunking EXCEPT !.node = "page", !.start = 0,
                    !.texts = Append(@, NormalizeText(chunking.paper.pages[Page + 1]))]

(* A page below the minimum is one chunk, or none when it is blank. *)
ChunkShortPage ==
  /\ chunking.node = "page" /\ Len(Text) < MinChunkChars
  /\ chunking' = [chunking EXCEPT !.node = "pages",
                    !.chunks = IF Text # <<>> THEN Emit("text", Page, 0, Len(Text)) ELSE @]

(* One round of the loop over a page. *)
ChunkWindow ==
  /\ chunking.node = "page" /\ Len(Text) >= MinChunkChars
  /\ LET start == chunking.start
         end == WindowEnd(Text, start)
         next == NextStart(start, end)
     IN chunking' = [chunking EXCEPT
          !.chunks = IF HasText(Text, start, end) THEN Emit("text", Page, start, end) ELSE @,
          !.node = IF end >= Len(Text) \/ next >= Len(Text) THEN "pages" ELSE @,
          !.start = next]

ChunkingDone ==
  /\ chunking.node = "pages" /\ Page = Len(chunking.paper.pages)
  /\ chunking' = [chunking EXCEPT !.node = "end"]

ChunkingNext == ChunkAbstract \/ TakePage \/ ChunkShortPage \/ ChunkWindow \/ ChunkingDone

-----------------------------------------------------------------------------
(* Properties *)

OfPage(p) ==
  Gathered(chunking.chunks, {x \in Seq(TextChunks) \X TextChunks : x[2].type = "text" /\ x[2].page = p})

(* _split_text: once a page is done every character of it that is no blank   *)
(* is in some chunk, so that a search can find it.                           *)
NothingIsLost ==
  chunking.node = "end" =>
    \A p \in DOMAIN chunking.texts : \A i \in 0..(Len(chunking.texts[p]) - 1) :
      CharAt(chunking.texts[p], i) \notin Blank =>
        \E c \in DOMAIN OfPage(p) : OfPage(p)[c].start <= i /\ i < OfPage(p)[c].end

(* docs/CHUNKING_STRATEGY.md:76-78: a chunk has at most the target size, but *)
(* for a page that is shorter than the minimum, and more than the minimum or *)
(* the full size unless the page ends with it; two that follow each other    *)
(* share at most the overlap.                                                *)
ChunksHaveTheirSize ==
  chunking.node = "end" =>
    \A p \in DOMAIN chunking.texts : \A c \in DOMAIN OfPage(p) :
      LET chunk == OfPage(p)[c] IN
      /\ chunk.end - chunk.start <= TargetChars \/ Len(chunking.texts[p]) < MinChunkChars
      /\ chunk.end < Len(chunking.texts[p]) =>
           chunk.end - chunk.start > MinChunkChars \/ chunk.end - chunk.start = TargetChars
      /\ c > 1 => OfPage(p)[c - 1].end - chunk.start <= OverlapChars

(* docs/CHUNKING_STRATEGY.md:77 speaks of an overlap of two chunks: a chunk  *)
(* brings text that the one before it does not have.                         *)
ChunksAdvance ==
  \A p \in DOMAIN chunking.texts : \A c \in DOMAIN OfPage(p) :
    c > 1 => OfPage(p)[c].end > OfPage(p)[c - 1].end

(* _split_text: each window of a page starts behind the one before it, so    *)
(* that the loop ends wherever the boundaries are and however large the      *)
(* overlap is.                                                               *)
WindowsMoveOn ==
  \A p \in DOMAIN chunking.texts : \A c \in DOMAIN OfPage(p) :
    c > 1 => OfPage(p)[c].start > OfPage(p)[c - 1].start

(* The chunks of a paper are all of its text, in pieces of the right size.   *)
ChunksCoverThePaper == NothingIsLost /\ ChunksHaveTheirSize /\ WindowsMoveOn

=============================================================================
