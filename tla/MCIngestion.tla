----------------------------- MODULE MCIngestion -----------------------------
(* A small instance of Ingestion for TLC: every Markdown file of up to four*)
(* lines and Word file of up to three children of a few kinds, workbooks,  *)
(* PDFs that are refused, clean or for Docling, and for these every result *)
(* of up to three items of a few kinds.                                    *)
EXTENDS Ingestion

MCChar == {"a", "b", "w", "x", "!", "/"}
MCWidth == [c \in MCChar |-> CASE c = "w" -> 2 [] c = "x" -> 4 [] OTHER -> 1]

Short == <<"a">>
EndOfText == <<"a", "!", "b">>
(* Eight tokens in w w w b a, nine with another a, eight with the b after. *)
Long == <<"w", "w", "w", "b", "a", "a", "b", "w", "a">>
SmallTable == <<"a", "/", "b", "/", "a">>
RowsTable == <<"a", "/", "b", "/", "a", "/", "b", "/", "w", "/", "a", "a", "b">>
LongRow == <<"a", "/", "b", "/", "a", "/">> \o Long \o <<"/", "a">>
LongHeader == <<"w", "w", "w", "/", "a", "/", "b", "/", "b">>
(* The header takes four of the eight tokens, or five and "x" has no room. *)
WideRow == <<"a", "/", "b", "/", "b", "/", "x", "a", "x">>
NoRoom == <<"w", "/", "b", "/", "b", "/", "x", "a">>
NoRows == <<"w", "w", "/", "w", "w", "a", "b">>
EmptyRow == <<"w", "w", "/", "w", "a", "b", "/", "/">>

Seqs(S, n) == UNION {[1..m -> S] : m \in 0..n}
Line(kind, level, text) == [kind |-> kind, level |-> level, text |-> text]

MarkdownLines ==
  {Line("blank", 0, <<>>), Line("text", 0, Short), Line("text", 0, Long)}
    \union {Line("heading", 1, <<"a">>), Line("heading", 2, <<"a">>),
            Line("heading", 2, <<"b">>), Line("heading", 3, <<"b">>), Line("text", 0, EndOfText)}
DocxChildren ==
  {Line("title", 0, <<"w">>), Line("blank", 0, <<>>), Line("text", 0, Short), Line("text", 0, Long)}
    \union {Line("heading", 1, <<"a">>), Line("heading", 2, <<"b">>), Line("heading", 3, <<"b">>)}
    \union {Line("table", 0, t) : t \in {SmallTable, RowsTable, LongRow, LongHeader, WideRow, NoRoom, NoRows, EmptyRow}}

(* Boxes: the first two overlap by three quarters, the fourth covers half  *)
(* of the first, the last is the wrong way round.                          *)
BoxA == <<0, 0, 4, 4>>
BoxA2 == <<0, 0, 4, 3>>
BoxB == <<4, 0, 8, 4>>
BoxC == <<0, 0, 4, 2>>
Inverted == <<4, 4, 0, 0>>

Page(text, tables, blocks, image) ==
  [text |-> text, sparse |-> text = Short, tables |-> tables, blocks |-> blocks,
   width |-> 8, image |-> image]
Table(box, text) == [box |-> box, text |-> text]
Columns == {<<0, 0, 3, 4>>, <<5, 1, 8, 4>>}
Stacked == {<<0, 0, 3, 2>>, <<5, 2, 8, 4>>}
Plain == Page(Long, <<>>, Stacked, FALSE)

Prov(page, box) == [page |-> page, box |-> box]
Entry(label, text, level, prov) == [label |-> label, text |-> text, level |-> level, prov |-> prov]
Entries ==
  {Entry("text", Short, 1, <<Prov(1, None)>>), Entry("text", Short, 1, <<Prov(1, BoxC)>>),
   Entry("text", Long, 1, <<Prov(1, BoxB), Prov(2, BoxB)>>), Entry("text", Short, 1, <<>>),
   Entry("list_item", Short, 1, <<Prov(2, BoxA)>>), Entry("list_item", Short, 1, <<Prov(2, BoxB), Prov(3, BoxA)>>),
   Entry("picture", <<>>, 1, <<Prov(1, BoxA)>>), Entry("text", Short, 1, <<Prov(4, BoxA)>>),
   Entry("section_header", <<"b">>, 0, <<Prov(3, BoxA)>>), Entry("section_header", <<"a">>, 2, <<Prov(3, BoxA)>>),
   Entry("table", <<>>, 1, <<Prov(1, BoxA2)>>), Entry("table", SmallTable, 1, <<Prov(1, BoxA)>>),
   Entry("table", <<>>, 1, <<Prov(1, BoxB)>>), Entry("table", <<>>, 1, <<Prov(1, BoxC)>>),
   Entry("text", Long, 1, <<Prov(1, Inverted)>>)}

Result(status, pages, timeout, items) ==
  [status |-> status, pages |-> pages, timeout |-> timeout, items |-> items]
Results ==
  {None} \union {Result("success", 3, FALSE, items) : items \in Seqs(Entries, 3)}
    \union {Result(status, pages, timeout, items) :
              status \in {"success", "partial_success"}, pages \in {2, 3},
              timeout \in BOOLEAN, items \in [1..2 -> Entries]}

Pdf(valid, encrypted, pages, docling) ==
  [valid |-> valid, encrypted |-> encrypted, pages |-> pages, docling |-> docling]
FirstPages ==
  {Page(Long, tables, {}, TRUE) :
     tables \in {<<>>, <<Table(BoxA, SmallTable)>>,
                 <<Table(BoxA, SmallTable), Table(BoxB, RowsTable)>>}}
Pdfs ==
  {Pdf(FALSE, FALSE, <<>>, None), Pdf(TRUE, TRUE, <<Plain>>, None), Pdf(TRUE, FALSE, <<>>, None),
   Pdf(TRUE, FALSE, <<Plain>>, None), Pdf(TRUE, FALSE, <<Plain, Plain>>, None),
   Pdf(TRUE, FALSE, <<Plain, Page(Short, <<>>, {}, FALSE)>>, None),
   Pdf(TRUE, FALSE, <<Plain, Page(Long, <<>>, Columns, FALSE)>>, None)}
    \union {Pdf(TRUE, FALSE, <<first, Plain, Plain>>, result) : first \in FirstPages, result \in Results}

File(suffix, body) == [suffix |-> suffix, body |-> body]
MCFiles ==
  {File("md", body) : body \in Seqs(MarkdownLines, 4)}
    \union {File("docx", body) : body \in Seqs(DocxChildren, 3)}
    \union {File("xlsx", body) : body \in Seqs({<<>>, SmallTable, RowsTable, EndOfText}, 2)}
    \union {File("pdf", body) : body \in Pdfs}
    \union {File("doc", <<>>)}
=============================================================================
