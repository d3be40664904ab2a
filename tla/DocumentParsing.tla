--------------------------- MODULE DocumentParsing ---------------------------
(***************************************************************************)
(* From a file to a parsed document and its quality: the routing of PDFs   *)
(* (app/core/parsing/router.py), the native parsers (native_parser.py),    *)
(* the mapping of what Docling returns (docling_parser.py), the contracts  *)
(* both must meet (contracts.py) and the assessment (quality.py).          *)
(*                                                                         *)
(* Each function is an operator; a raised exception is the value None.     *)
(* The libraries that read the formats are external: a file is given as    *)
(* what they find in it.                                                   *)
(***************************************************************************)
EXTENDS StructuredChunks, FiniteSets

(* ParsedElement; the level of a heading is kept for the properties only.  *)
Element(type, text, path, level) ==
  [type |-> type, text |-> text, path |-> path, start |-> 0, end |-> 0,
   level |-> level, native |-> FALSE]

(* ParsedDocument and its validators: no empty text, no page beyond the    *)
(* last one.                                                               *)
Document(pages, elements) ==
  IF \E i \in DOMAIN elements : elements[i].text = <<>> \/ elements[i].end > pages
  THEN None
  ELSE [pages |-> pages, elements |-> elements, warnings |-> {}]

----------------------------------------------------------------------------
(* quality.py *)
Covered(document) ==
  IF document.pages = 0 THEN {}
  ELSE UNION {document.elements[i].start .. document.elements[i].end :
                i \in {j \in DOMAIN document.elements : document.elements[j].start # 0}}

(* evaluate_parse_quality: pages without text are a warning, a document    *)
(* with warnings needs a review, one without text has failed.              *)
Assessed(document, warnings) ==
  LET all == warnings \union
        IF document.pages # Cardinality(Covered(document)) THEN {"missing_page_coverage"} ELSE {} IN
  [status |-> IF "parser_exception" \in all \/ document.elements = <<>> THEN "failed"
              ELSE IF all # {} THEN "review_required" ELSE "passed",
   warnings |-> all]

----------------------------------------------------------------------------
(* Mutant: a heading is put below the one before it, whatever their levels.*)
NestedBelow(path, level, title) == Append(path, title)

(* section_path[: level - 1] + [title] *)
Nested(path, level, title) == Append(SubSeq(path, 1, Smaller(level - 1, Len(path))), title)

(* The paragraph lines collected so far become an element. *)
AddParagraph(acc) ==
  IF acc.lines = <<>> THEN acc
  ELSE [acc EXCEPT !.elements = Append(@, Element("paragraph", Joined(acc.lines), acc.path, 0)),
                   !.lines = <<>>]

(* _text_elements *)
TextLine(acc, line) ==
  LET closed == AddParagraph(acc)
      path == Nested(acc.path, line.level, line.text) IN
  CASE line.kind = "heading" ->
         [closed EXCEPT !.path = path,
                        !.elements = Append(@, Element("heading", line.text, path, line.level))]
    [] line.kind = "text" -> [acc EXCEPT !.lines = Append(@, line.text)]
    [] line.kind = "blank" -> closed

(* The loop over the lines: what is collected after each of them. *)
TextRead(lines) ==
  LET acc[n \in 0..Len(lines)] ==
        IF n = 0 THEN [elements |-> <<>>, path |-> <<>>, lines |-> <<>>]
        ELSE TextLine(acc[n - 1], lines[n])
  IN  acc

TextDocument(lines) == Document(0, AddParagraph(TextRead(lines)[Len(lines)]).elements)

(* _docx_body_elements: a title has no section, an empty table no element. *)
DocxChild(acc, child) ==
  LET path == Nested(acc.path, child.level, child.text)
      Add(element) == [acc EXCEPT !.elements = Append(@, element)] IN
  CASE child.kind = "blank" -> acc
    [] child.kind = "title" -> Add(Element("title", child.text, <<>>, 0))
    [] child.kind = "heading" ->
         [Add(Element("heading", child.text, path, child.level)) EXCEPT !.path = path]
    [] child.kind = "text" -> Add(Element("paragraph", child.text, acc.path, 0))
    [] child.kind = "table" -> Add(Element("table", child.text, acc.path, 0))

DocxRead(body) ==
  LET acc[n \in 0..Len(body)] ==
        IF n = 0 THEN [elements |-> <<>>, path |-> <<>>]
        ELSE DocxChild(acc[n - 1], body[n])
  IN  acc

DocxDocument(body) == Document(0, DocxRead(body)[Len(body)].elements)

(* parse_xlsx_document: one table per sheet that has a cell. *)
SheetsRead(sheets) ==
  LET acc[n \in 0..Len(sheets)] ==
        IF n = 0 THEN <<>>
        ELSE IF sheets[n] = <<>> THEN acc[n - 1]
        ELSE Append(acc[n - 1], Element("table", sheets[n], <<>>, 0))
  IN  acc

XlsxDocument(sheets) == Document(0, SheetsRead(sheets)[Len(sheets)])

(* parse_pdf_document: one paragraph per page. *)
PdfDocument(pages) ==
  Document(Len(pages),
    [n \in DOMAIN pages |->
       [Element("paragraph", pages[n].text, <<>>, 0) EXCEPT !.start = n, !.end = n]])

----------------------------------------------------------------------------
(* Boxes <<left, top, right, bottom>> of a page. *)
Bigger(m, n) == IF m > n THEN m ELSE n
Area(b) == (b[3] - b[1]) * (b[4] - b[2])
Intersection(b, c) ==
  Bigger(0, Smaller(b[3], c[3]) - Bigger(b[1], c[1]))
    * Bigger(0, Smaller(b[4], c[4]) - Bigger(b[2], c[2]))
Union(b, c) == Area(b) + Area(c) - Intersection(b, c)

(* _has_two_columns: one block ends in the left half beside one that       *)
(* begins in the right half.                                               *)
TwoColumns(page) ==
  \E l, r \in page.blocks :
    /\ 2 * l[3] <= page.width /\ 2 * r[1] >= page.width /\ r[1] > l[3]
    /\ Bigger(l[2], r[2]) < Smaller(l[4], r[4])

Reason(page) ==
  CASE page.sparse -> "sparse_text_page"
    [] ~page.sparse /\ page.tables # <<>> -> "table_layout"
    [] ~page.sparse /\ page.tables = <<>> /\ TwoColumns(page) -> "multi_column_layout"
    [] ~page.sparse /\ page.tables = <<>> /\ ~TwoColumns(page) /\ page.image -> "embedded_image"
    [] OTHER -> "clean_text"

(* inspect_pdf: the first page with a reason decides. *)
Inspected(pdf) ==
  LET reasons == SelectSeq([n \in DOMAIN pdf.pages |-> Reason(pdf.pages[n])],
                           LAMBDA reason : reason # "clean_text") IN
  IF ~pdf.valid THEN "invalid_pdf"
  ELSE IF pdf.encrypted THEN "encrypted"
  ELSE IF pdf.pages = <<>> THEN "zero_pages"
  ELSE IF reasons # <<>> THEN Head(reasons) ELSE "clean_text"

----------------------------------------------------------------------------
(* _extract_native_table_markdowns: the tables that have text, page by page.*)
TablesRead(page, number) ==
  LET kept[k \in 0..Len(page.tables)] ==
        IF k = 0 THEN <<>>
        ELSE IF page.tables[k].text = <<>> THEN kept[k - 1]
        ELSE Append(kept[k - 1], [page |-> number, box |-> page.tables[k].box,
                                  text |-> page.tables[k].text])
  IN  kept

PagesRead(pdf) ==
  LET found[n \in 0..Len(pdf.pages)] ==
        IF n = 0 THEN <<>>
        ELSE found[n - 1] \o TablesRead(pdf.pages[n], n)[Len(pdf.pages[n].tables)]
  IN  found

NativeTables(pdf) == PagesRead(pdf)[Len(pdf.pages)]

(* _item_page_bboxes: a box that has no extent, or is on a page that is    *)
(* not in the result, is lost.                                             *)
Extends(box) == box[1] < box[3] /\ box[2] < box[4]
Placed(prov, pages) ==
  IF prov.page <= pages /\ prov.box # None /\ Extends(prov.box)
  THEN prov ELSE [prov EXCEPT !.box = None]
Located(item, pages) ==
  [item EXCEPT !.prov = [k \in DOMAIN @ |-> Placed(@[k], pages)]]

(* How much a box of the item and a native table overlap, as a fraction. *)
Candidates(item, tables) ==
  {p \in (DOMAIN item.prov) \X (DOMAIN tables) :
     item.prov[p[1]].box # None /\ item.prov[p[1]].page = tables[p[2]].page}
Overlap(item, tables, p) ==
  LET b == item.prov[p[1]].box
      c == tables[p[2]].box IN
  <<Intersection(b, c), Union(b, c)>>
Less(f, g) == f[1] * g[2] < g[1] * f[2]
Before(p, q) == p[1] < q[1] \/ (p[1] = q[1] /\ p[2] <= q[2])

(* _matching_native_table_index: the best overlap, the first of equals, if *)
(* it is not below MIN_TABLE_BBOX_IOU, which is 0.7.                       *)
Best(item, tables) ==
  LET pairs == {p \in Candidates(item, tables) : Overlap(item, tables, p)[1] > 0} IN
  {p \in pairs : \A q \in pairs :
     \/ Less(Overlap(item, tables, q), Overlap(item, tables, p))
     \/ ~Less(Overlap(item, tables, p), Overlap(item, tables, q)) /\ Before(p, q)}
Match(item, tables) ==
  LET good == {p \in Best(item, tables) : ~Less(Overlap(item, tables, p), <<7, 10>>)} IN
  IF good = {} THEN 0 ELSE (CHOOSE p \in good : TRUE)[2]

(* _has_native_table_content_overlap: text on the page of a recovered      *)
(* table that may be the text of the table, by MIN_NON_TABLE_BBOX_COVERAGE *)
(* of the smaller box, or because it has no box.                           *)
ContentOverlap(recovered, texts) ==
  \E t \in recovered, x \in texts :
    /\ x.page = t.page
    /\ \/ x.box = None
       \/ 10 * Intersection(t.box, x.box) >= 8 * Smaller(Area(t.box), Area(x.box))

Type(label) ==
  CASE label = "title" -> "title" [] label = "section_header" -> "heading"
    [] label = "list_item" -> "list" [] label = "table" -> "table"
    [] label = "picture" -> "image" [] OTHER -> "paragraph"

(* _page_span *)
Pages(item) == {item.prov[k].page : k \in DOMAIN item.prov}
SpanStart(item) == IF Pages(item) = {} THEN 0 ELSE CHOOSE n \in Pages(item) : \A m \in Pages(item) : n <= m
SpanEnd(item) == IF Pages(item) = {} THEN 0 ELSE CHOOSE n \in Pages(item) : \A m \in Pages(item) : n >= m

(* Mutant: a native table that was matched can be matched again. *)
DroppedNever(tables, k) == tables

(* remaining_table_fallbacks.pop *)
Dropped(tables, k) == IF k = 0 THEN tables ELSE RemoveAt(tables, k)

(* The element of an item with text. *)
Add(acc, item, text, native) ==
  LET type == Type(item.label)
      level == Bigger(1, item.level)
      path == IF type = "heading" THEN Nested(acc.path, level, text) ELSE acc.path IN
  IF text = <<>> THEN acc
  ELSE [acc EXCEPT !.path = path, !.elements = Append(@,
          [type |-> type, text |-> text, path |-> IF type = "title" THEN <<>> ELSE path,
           start |-> SpanStart(item), end |-> SpanEnd(item),
           level |-> IF type = "heading" THEN level ELSE 0, native |-> native])]

(* The body of the loop of map_docling_result: a table that Docling could  *)
(* not read takes the text of the native table at its place.               *)
Item(acc, item) ==
  LET k == IF item.label = "table" THEN Match(item, acc.tables) ELSE 0
      recovers == k # 0 /\ item.text = <<>>
      next == [acc EXCEPT
        !.texts = IF item.label = "table" THEN @
                  ELSE @ \union {item.prov[j] : j \in DOMAIN item.prov},
        !.tables = Dropped(@, k),
        !.recovered = IF recovers THEN @ \union {acc.tables[k]} ELSE @,
        !.incomplete = @ \/ (item.label = "table" /\ k = 0 /\ item.text = <<>>)] IN
  Add(next, item, IF recovers THEN acc.tables[k].text ELSE item.text, recovers)

Incomplete == "advanced_parser_incomplete"

(* The loop over the items: its variables after each of them. *)
Read(result, tables) ==
  LET acc[n \in 0..Len(result.items)] ==
        IF n = 0 THEN [elements |-> <<>>, path |-> <<>>, tables |-> tables, texts |-> {},
                       recovered |-> {}, incomplete |-> FALSE]
        ELSE Item(acc[n - 1], Located(result.items[n], result.pages))
  IN  acc

(* What does not fit together after the loop. *)
Doubtful(acc, result, pages) ==
  \/ acc.incomplete
  \/ acc.tables # <<>>
  \/ ContentOverlap(acc.recovered, acc.texts)
  \/ result.status # "success" \/ result.pages # pages \/ result.timeout

(* It becomes a warning of the document. *)
Warned(document, doubtful) ==
  IF document = None THEN None
  ELSE [document EXCEPT !.warnings =
          Assessed(document, IF doubtful THEN {Incomplete} ELSE {}).warnings]

(* map_docling_result *)
Collected(acc, result, pages) ==
  Warned(Document(pages, acc.elements), Doubtful(acc, result, pages))
Mapped(result, tables, pages) ==
  Collected(Read(result, tables)[Len(result.items)], result, pages)

(* parse_docling_pdf: whatever raises, the runtime that is not installed   *)
(* or an element the contract refuses, becomes a document that has failed. *)
Advanced(pdf) ==
  LET mapped == IF pdf.docling = None THEN None
                ELSE Mapped(pdf.docling, NativeTables(pdf), Len(pdf.pages)) IN
  IF mapped # None THEN mapped
  ELSE [pages |-> Len(pdf.pages), elements |-> <<>>, warnings |-> {"parser_exception"}]

(* parse_structured_file *)
ParsedPdf(pdf) ==
  CASE Inspected(pdf) \in {"invalid_pdf", "zero_pages"} -> None
    [] Inspected(pdf) = "encrypted" ->
         [pages |-> Len(pdf.pages), elements |-> <<>>, warnings |-> {"encrypted_input"}]
    [] Inspected(pdf) = "clean_text" -> PdfDocument(pdf.pages)
    [] OTHER -> Advanced(pdf)

Parsed(file) ==
  CASE file.suffix = "md" -> TextDocument(file.body)
    [] file.suffix = "docx" -> DocxDocument(file.body)
    [] file.suffix = "xlsx" -> XlsxDocument(file.body)
    [] file.suffix = "pdf" -> ParsedPdf(file.body)
    [] OTHER -> None
=============================================================================
