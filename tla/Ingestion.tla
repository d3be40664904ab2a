------------------------------ MODULE Ingestion ------------------------------
(***************************************************************************)
(* What becomes of a file before anything is indexed                       *)
(* (_process_snapshot in app/services/document_service.py): it is parsed,  *)
(* assessed and split into chunks, and fails, waits for a review or goes   *)
(* on to the indexes.  DocumentLifecycle takes these outcomes as given.    *)
(***************************************************************************)
EXTENDS DocumentParsing

CONSTANT Files \* the files that may be uploaded

(* What the libraries find in a file.  A page number below 1 is dropped    *)
(* where it is read, Word and Markdown count their headings from 1.        *)
Box == [1..4 -> Int]
LineType(kinds) == [kind : kinds, level : Nat, text : Text]
TableType == [box : Box, text : Text]
PageType ==
  [text : Text, sparse : BOOLEAN, tables : Seq(TableType),
   blocks : SUBSET Box, width : Nat, image : BOOLEAN]
ItemType ==
  [label : STRING, text : Text, level : Int,
   prov : Seq([page : Nat \ {0}, box : {None} \union Box])]
ResultType == [status : STRING, pages : Nat, timeout : BOOLEAN, items : Seq(ItemType)]
PdfType ==
  [valid : BOOLEAN, encrypted : BOOLEAN, pages : Seq(PageType), docling : {None} \union ResultType]

ASSUME FilesAssumption ==
  \A f \in Files :
    /\ f.suffix = "md" => f.body \in Seq(LineType({"blank", "text", "heading"}))
    /\ f.suffix = "docx" => f.body \in Seq(LineType({"blank", "text", "heading", "title", "table"}))
    /\ f.suffix \in {"md", "docx"} =>
         \A n \in DOMAIN f.body : f.body[n].kind = "heading" => f.body[n].level > 0
    /\ f.suffix = "xlsx" => f.body \in Seq(Text)
    /\ f.suffix = "pdf" => f.body \in PdfType

VARIABLES
  file,     \* the file, as the libraries read it
  pc,       \* the next step, or the outcome
  document, \* the parsed document
  quality,  \* its quality as it is stored with the row
  chunks    \* the chunks that are stored

vars == <<file, pc, document, quality, chunks>>

Init ==
  /\ file \in Files
  /\ pc = "parse" /\ document = None /\ quality = None /\ chunks = <<>>

(* parse_structured_file, or the except branch around it. *)
Parse ==
  /\ pc = "parse"
  /\ document' = Parsed(file)
  /\ pc' = IF document' = None THEN "failed" ELSE "assess"
  /\ UNCHANGED <<file, quality, chunks>>

(* Mutant: the assessment does not see what the parser was warned of. *)
AssessAfresh ==
  /\ pc = "assess"
  /\ quality' = Assessed(document, {})
  /\ pc' = IF quality'.status = "failed" THEN "failed" ELSE "chunk"
  /\ UNCHANGED <<file, document, chunks>>

(* evaluate_parse_quality, for Docling documents for the second time. *)
Assess ==
  /\ pc = "assess"
  /\ quality' = Assessed(document, document.warnings)
  /\ pc' = IF quality'.status = "failed" THEN "failed" ELSE "chunk"
  /\ UNCHANGED <<file, document, chunks>>

(* chunk_document: no chunks, or an exception, fail the document. *)
Split ==
  /\ pc = "chunk"
  /\ LET found == ChunksOf(document.elements) IN
       IF found = None \/ found = <<>>
       THEN pc' = "failed" /\ UNCHANGED chunks
       ELSE /\ pc' = IF quality.status = "review_required" THEN "review_required" ELSE "index"
            /\ chunks' = found
  /\ UNCHANGED <<file, document, quality>>

Next == Parse \/ Assess \/ Split

Spec == Init /\ [][Next]_vars

----------------------------------------------------------------------------
Elements == document.elements

ElementType ==
  [type : Types, text : Text, path : Seq(Text), start : Nat, end : Nat, level : Nat, native : BOOLEAN]

Warnings == {Incomplete, "encrypted_input", "missing_page_coverage", "parser_exception"}

(* Each step leaves what the next one needs, and only what passed or waits *)
(* for a review has chunks.                                                *)
TypeOK ==
  /\ pc \in {"parse", "assess", "chunk", "failed", "review_required", "index"}
  /\ document # None =>
       document \in [pages : Nat, elements : Seq(ElementType), warnings : SUBSET Warnings]
  /\ pc \in {"assess", "chunk", "review_required", "index"} => document # None
  /\ pc \in {"chunk", "review_required", "index"} =>
       /\ quality.status = IF quality.warnings = {} THEN "passed" ELSE "review_required"
       /\ Elements # <<>>
  /\ chunks \in Seq(ChunkType)
  /\ chunks # <<>> <=> pc \in {"review_required", "index"}

Headings == {i \in DOMAIN Elements : Elements[i].level > 0}

(* The headings an element stands under, by their levels. *)
Above(i) ==
  {j \in Headings : j <= i /\ \A k \in Headings : j < k /\ k <= i => Elements[j].level < Elements[k].level}

NoLevelIsSkipped ==
  \A i \in Headings :
    \/ Elements[i].level = 1
    \/ \E j \in Headings : /\ j < i /\ Elements[i].level <= Elements[j].level + 1
                           /\ \A k \in Headings : k <= j \/ k >= i

(* In a document whose headings skip no level, the section path of every   *)
(* element is that of the headings it stands under, each at its level, in  *)
(* Markdown, in Word and in what Docling returns.                          *)
SectionsAreAncestors ==
  document # None /\ NoLevelIsSkipped =>
    \A i \in DOMAIN Elements :
      Elements[i].type # "title" =>
        /\ Len(Elements[i].path) = Cardinality(Above(i))
        /\ \A j \in Above(i) : /\ Elements[j].level \in DOMAIN Elements[i].path
                             /\ Elements[i].path[Elements[j].level] = Elements[j].text

TableElements == {i \in DOMAIN Elements : Elements[i].type = "table"}
TableItems(result) == {n \in DOMAIN result.items : result.items[n].label = "table"}

(* A PDF that goes on without a review is whole: each page has text, and   *)
(* if Docling read it, it finished in time with all pages, each table it   *)
(* found has its text, and each table of the PDF is among those.           *)
PassedIsWhole ==
  pc = "index" /\ file.suffix = "pdf" =>
    /\ \A n \in DOMAIN file.body.pages : \E i \in DOMAIN Elements :
         Elements[i].start <= n /\ n <= Elements[i].end
    /\ Inspected(file.body) # "clean_text" =>
         LET result == file.body.docling IN
         /\ result.status = "success" /\ ~result.timeout
         /\ result.pages = Len(file.body.pages)
         /\ Cardinality(TableElements) = Cardinality(TableItems(result))
         /\ Cardinality(TableElements) >= Len(NativeTables(file.body))

(* The text of a table of the PDF stands in for at most one of the tables  *)
(* Docling could not read.                                                 *)
TablesAreRecoveredOnce ==
  document # None /\ file.suffix = "pdf" =>
    LET tables == NativeTables(file.body) IN
    \A n \in DOMAIN tables :
      Cardinality({i \in DOMAIN Elements : Elements[i].native /\ Elements[i].text = tables[n].text})
        <= Cardinality({k \in DOMAIN tables : tables[k].text = tables[n].text})

(* No chunk is empty or over the token budget, although the tokens of a    *)
(* text do not grow with its length.                                       *)
ChunksFit == \A k \in DOMAIN chunks : chunks[k].content # <<>> /\ Fits(chunks[k].content)

Letters(s) ==
  LET letters[n \in 0..Len(s)] ==
        IF n = 0 THEN <<>>
        ELSE IF s[n] = "/" THEN letters[n - 1] ELSE Append(letters[n - 1], s[n])
  IN  letters[Len(s)]

(* What a chunk adds to the text: a table that is split repeats its header.*)
Heading(c) == HeaderOf(Elements[Last(c.sources)].text) \o <<"/">>
Repeats(cs, k) ==
  /\ cs[k].type = "table"
  /\ k > 1 /\ cs[k - 1].sources = cs[k].sources
  /\ IsPrefix(Heading(cs[k]), cs[k].content)
Added(cs, k) ==
  IF Repeats(cs, k)
  THEN Letters(SubSeq(cs[k].content, Len(Heading(cs[k])) + 1, Len(cs[k].content)))
  ELSE Letters(cs[k].content)

PagesInOrder ==
  \A i, j \in DOMAIN Elements :
    i < j /\ Elements[i].start # 0 /\ Elements[j].start # 0 =>
      Elements[i].start <= Elements[j].start /\ Elements[i].end <= Elements[j].end

(* The chunks hold the text of all elements in their order, nothing is     *)
(* lost or told twice but the headers of split tables, and they name the   *)
(* elements they come from.  The pages a chunk is said to come from are    *)
(* those of all its elements, if these come in the order of their pages.   *)
ChunksAreFaithful ==
  chunks # <<>> =>
    LET sources == FlattenSeq([k \in DOMAIN chunks |-> chunks[k].sources]) IN
    /\ FlattenSeq([k \in DOMAIN chunks |-> Added(chunks, k)]) =
         FlattenSeq([i \in DOMAIN Elements |-> Letters(Elements[i].text)])
    /\ ToSet(sources) = DOMAIN Elements
    /\ \A n \in 1..(Len(sources) - 1) : sources[n + 1] \in {sources[n], sources[n] + 1}
    /\ PagesInOrder => \A k \in DOMAIN chunks : \A i \in ToSet(chunks[k].sources) :
         Elements[i].start # 0 =>
           chunks[k].start <= Elements[i].start /\ Elements[i].end <= chunks[k].end

(* A document with text fails to be split for two reasons only: some       *)
(* element has a special token in its text, or some table is over the      *)
(* budget with a header that leaves too little of it for some character of *)
(* its own rows.                                                           *)
SplittingFailsFor ==
  pc = "failed" /\ quality # None /\ quality.status # "failed" =>
    \E i \in DOMAIN Elements :
      LET s == Elements[i].text
          rows == SubSeq(Lines(s), 3, Len(Lines(s))) IN
      \/ ~Encodes(s)
      \/ /\ Elements[i].type = "table" /\ ~Fits(s)
         /\ \E m \in DOMAIN rows : \E n \in DOMAIN rows[m] :
              Tokens(HeaderOf(s) \o <<"/">>) + Tokens(<<rows[m][n]>>) > MaxTokens
=============================================================================
