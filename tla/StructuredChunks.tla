-------------------------- MODULE StructuredChunks --------------------------
(***************************************************************************)
(* The structural chunker (app/core/parsing/structured_chunker.py): texts  *)
(* over the token budget are split, tables row by row under their repeated *)
(* header, and small neighbours of one section are joined.                 *)
(*                                                                         *)
(* A text is a sequence of characters, "/" being the line feed.  A page of *)
(* 0 is a page that is not known.                                          *)
(***************************************************************************)
EXTENDS Integers, Sequences, SequencesExt

CONSTANTS
  MaxTokens, \* MAX_TOKENS
  Char,      \* the characters
  Width,     \* the tokens of a character that stands alone
  Special,   \* stand for the special tokens of the encoding, <|endoftext|> say
  None

Text == Seq(Char)

(* The types of elements, and the chunks (DocumentChunk). *)
Types == {"title", "heading", "paragraph", "list", "table", "image"}
ChunkType ==
  [content : Text, start : Nat, end : Nat, path : Seq(Text), type : Types, sources : Seq(Nat)]

(* A character takes at most as many tokens as it has bytes, which is far  *)
(* less than the budget, and the line feed takes one; nothing is mistaken  *)
(* for the exception.                                                      *)
ASSUME ChunkAssumption ==
  /\ MaxTokens \in Nat /\ Width \in [Char -> 1..MaxTokens]
  /\ "/" \in Char \ Special /\ Width["/"] = 1
  /\ None \notin Text /\ None \notin Seq(ChunkType)

(* encode raises on a text with a special token in it.  A special token is *)
(* one character here: no text that has none gets one by being cut, or     *)
(* joined at a line feed.                                                  *)
Encodes(s) == \A n \in DOMAIN s : s[n] \notin Special

(* The tokens of a text that encodes: those of its characters, but "aab"   *)
(* is a single one.  So a longer text may have fewer tokens than its       *)
(* beginning.                                                              *)
Token(s, read, n) ==
  IF read.next > n THEN read
  ELSE IF n + 2 <= Len(s) /\ SubSeq(s, n, n + 2) = <<"a", "a", "b">>
  THEN [count |-> read.count + 1, next |-> n + 3]
  ELSE [count |-> read.count + Width[s[n]], next |-> n + 1]
TokensRead(s) ==
  LET read[n \in 0..Len(s)] ==
        IF n = 0 THEN [count |-> 0, next |-> 1] ELSE Token(s, read[n - 1], n)
  IN  read
Tokens(s) == TokensRead(s)[Len(s)].count

Fits(s) == Tokens(s) <= MaxTokens

Smaller(m, n) == IF m < n THEN m ELSE n

(* The bisection below the first window that was too long: its variables   *)
(* after each round.  It halves what is left, Len(s) rounds are enough.    *)
Halved(s, start, max, loop) ==
  LET middle == (loop.low + loop.high) \div 2 IN
  IF loop.low > loop.high THEN loop
  ELSE IF Tokens(SubSeq(s, start + 1, middle)) <= max
  THEN [low |-> middle + 1, high |-> loop.high, end |-> middle]
  ELSE [low |-> loop.low, high |-> middle - 1, end |-> loop.end]
Bisect(s, start, max, end, candidate) ==
  LET loop[n \in 0..Len(s)] ==
        IF n = 0 THEN [low |-> end + 1, high |-> candidate - 1, end |-> end]
        ELSE Halved(s, start, max, loop[n - 1])
  IN  loop

(* The windows of doubling length, until one is too long or holds the rest.*)
Candidate(s, start, loop) == Smaller(start + loop.window, Len(s))
Widened(s, start, max, loop) ==
  IF /\ loop.end < Len(s)
     /\ Tokens(SubSeq(s, start + 1, Candidate(s, start, loop))) <= max
  THEN [window |-> 2 * loop.window, end |-> Candidate(s, start, loop)]
  ELSE loop
Windows(s, start, max) ==
  LET loop[n \in 0..Len(s)] ==
        IF n = 0 THEN [window |-> 1, end |-> start] ELSE Widened(s, start, max, loop[n - 1])
  IN  loop

(* Where the piece that begins at start ends. *)
PieceEnd(s, start, max) ==
  LET last == Windows(s, start, max)[Len(s)] IN
  IF last.end = Len(s) THEN last.end
  ELSE Bisect(s, start, max, last.end, Candidate(s, start, last))[Len(s)].end

(* _split_text: None among the pieces stands for the ValueError of a       *)
(* budget that is too small for one character.                             *)
SplitOff(s, max, loop) ==
  LET end == PieceEnd(s, loop.start, max) IN
  IF loop.start = Len(s) THEN loop
  ELSE IF end = loop.start
  THEN [start |-> Len(s), pieces |-> Append(loop.pieces, None)]
  ELSE [start |-> end, pieces |-> Append(loop.pieces, SubSeq(s, loop.start + 1, end))]
PiecesRead(s, max) ==
  LET loop[n \in 0..Len(s)] ==
        IF n = 0 THEN [start |-> 0, pieces |-> <<>>] ELSE SplitOff(s, max, loop[n - 1])
  IN  loop
Pieces(s, max) == PiecesRead(s, max)[Len(s)].pieces

Raised(parts) == \E k \in DOMAIN parts : parts[k] = None

(* text.splitlines() and its inverse. *)
AddLetter(lines, c) ==
  IF c = "/" THEN Append(lines, <<>>) ELSE [lines EXCEPT ![Len(lines)] = Append(@, c)]
LinesRead(s) ==
  LET lines[n \in 0..Len(s)] == IF n = 0 THEN << <<>> >> ELSE AddLetter(lines[n - 1], s[n])
  IN  lines
Lines(s) ==
  LET lines == LinesRead(s)[Len(s)] IN IF Last(lines) = <<>> THEN Front(lines) ELSE lines
Under(s, line) == s \o <<"/">> \o line
Joined(lines) ==
  LET upto[n \in 0..Len(lines)] ==
        IF n = 0 THEN <<>> ELSE IF n = 1 THEN lines[1] ELSE Under(upto[n - 1], lines[n])
  IN  upto[Len(lines)]

HeaderOf(s) == Joined(SubSeq(Lines(s), 1, Smaller(2, Len(Lines(s)))))

(* The chunk of the rows collected so far. *)
Flushed(header, acc) ==
  IF acc.rows = <<>> THEN acc.chunks
  ELSE Append(acc.chunks, Joined(<<header>> \o acc.rows))

(* Mutants: the header is left out of the account, or taken off it twice.  *)
RowBudgetWhole(prefix) == MaxTokens
RowBudgetTwice(prefix) == MaxTokens - 2 * Tokens(prefix)

(* row_budget *)
RowBudget(prefix) == MaxTokens - Tokens(prefix)

(* The pieces of a row, each under the header. *)
PartOf(header, piece) == IF piece = None THEN None ELSE (header \o <<"/">>) \o piece
RowParts(header, pieces) == [k \in DOMAIN pieces |-> PartOf(header, pieces[k])]

(* One row: split under the header, begin a new chunk, or join the rows. *)
AddRow(header, acc, row) ==
  LET prefix == header \o <<"/">> IN
  IF ~Fits(prefix \o row)
  THEN [chunks |-> Flushed(header, acc) \o RowParts(header, Pieces(row, RowBudget(prefix))),
        rows |-> <<>>]
  ELSE IF acc.rows # <<>> /\ ~Fits(Joined(<<header>> \o Append(acc.rows, row)))
  THEN [chunks |-> Flushed(header, acc), rows |-> <<row>>]
  ELSE [acc EXCEPT !.rows = Append(@, row)]

RowsRead(header, rows) ==
  LET acc[n \in 0..Len(rows)] ==
        IF n = 0 THEN [chunks |-> <<>>, rows |-> <<>>] ELSE AddRow(header, acc[n - 1], rows[n])
  IN  acc

(* _split_table: a table without a row, or with empty rows only, is split  *)
(* like any text.                                                          *)
OrPieces(chunks, s) == IF chunks = <<>> THEN Pieces(s, MaxTokens) ELSE chunks
TableParts(s) ==
  LET header == HeaderOf(s)
      rows == SubSeq(Lines(s), 3, Len(Lines(s))) IN
  IF rows = <<>> THEN Pieces(s, MaxTokens)
  ELSE OrPieces(Flushed(header, RowsRead(header, rows)[Len(rows)]), s)

(* _element_parts: the whole text is encoded before any part of it. *)
ElementParts(element) ==
  IF ~Encodes(element.text) THEN <<None>>
  ELSE IF Fits(element.text) THEN <<element.text>>
  ELSE IF element.type = "table" THEN TableParts(element.text)
  ELSE Pieces(element.text, MaxTokens)

(* _chunk *)
Chunk(element, index, content) ==
  [content |-> content, start |-> element.start, end |-> element.end, path |-> element.path,
   type |-> element.type, sources |-> <<index>>]

Or(m, n) == IF m # 0 THEN m ELSE n

Paragraphs(s, t) == s \o <<"/", "/">> \o t

(* Mutant: the end of the pages stays that of the first element. *)
MergedKeepingEnd(previous, chunk) ==
  [previous EXCEPT !.content = Paragraphs(@, chunk.content),
                   !.start = Or(@, chunk.start),
                   !.sources = @ \o chunk.sources]

Merged(previous, chunk) ==
  [previous EXCEPT !.content = Paragraphs(@, chunk.content),
                   !.start = Or(@, chunk.start), !.end = Or(chunk.end, @),
                   !.sources = @ \o chunk.sources]

Joins(previous, chunk) ==
  /\ chunk.type \in {"paragraph", "list"}
  /\ chunk.type = previous.type /\ chunk.path = previous.path
  /\ Fits(Paragraphs(previous.content, chunk.content))

AddChunk(chunks, chunk) ==
  IF chunks # <<>> /\ Joins(Last(chunks), chunk)
  THEN Append(Front(chunks), Merged(Last(chunks), chunk))
  ELSE Append(chunks, chunk)

(* chunk_document: the loop over the elements and the one over their parts.*)
AddParts(chunks, element, index, parts) ==
  LET added[k \in 0..Len(parts)] ==
        IF k = 0 THEN chunks ELSE AddChunk(added[k - 1], Chunk(element, index, parts[k]))
  IN  added
ElementsRead(elements, parts) ==
  LET chunks[i \in 0..Len(elements)] ==
        IF i = 0 THEN <<>>
        ELSE AddParts(chunks[i - 1], elements[i], i, parts[i])[Len(parts[i])]
  IN  chunks

(* None if splitting one of the elements raises. *)
ChunksFrom(elements, parts) ==
  IF \E i \in DOMAIN elements : Raised(parts[i]) THEN None
  ELSE ElementsRead(elements, parts)[Len(elements)]
ChunksOf(elements) == ChunksFrom(elements, [i \in DOMAIN elements |-> ElementParts(elements[i])])
=============================================================================
