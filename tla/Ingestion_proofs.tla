--------------------------- MODULE Ingestion_proofs ---------------------------
(***************************************************************************)
(* What the parsers compute is a loop over the lines, items, pages or      *)
(* sheets of a file.  The loops are recursive functions, and an induction  *)
(* over the natural numbers, stated for a set of numbers, shows that they  *)
(* are what their equations say and what they keep.                        *)
(***************************************************************************)
EXTENDS Ingestion, SequenceTheorems, FiniteSetTheorems, WellFoundedInduction, TLAPS

(* Induction: a set that holds 0 and with each number below N the next one *)
(* holds all numbers up to N.                                              *)
LEMMA SetInduction ==
  ASSUME NEW N \in Nat, NEW S, 0 \in S, \A n \in 0..(N - 1) : n \in S => n + 1 \in S
  PROVE  \A n \in 0..N : n \in S
<1>1. SUFFICES ASSUME {n \in 0..N : n \notin S} # {} PROVE FALSE
  OBVIOUS
<1> DEFINE T == {n \in 0..N : n \notin S}
<1>2. PICK x \in T : \A y \in T : ~ (<<y, x>> \in OpToRel(<, Nat))
  <2>1. T \subseteq Nat /\ T # {}
    BY <1>1
  <2> QED BY <2>1, WFMin, NatLessThanWellFounded
<1>3. \A y \in T : ~(y < x)
  <2>1. \A y \in T : y \in Nat /\ x \in Nat OBVIOUS
  <2> QED BY <1>2, <2>1 DEF OpToRel
<1>4. x # 0 OBVIOUS
<1>5. x - 1 \in 0..(N - 1) /\ x - 1 \notin T
  BY <1>3, <1>4
<1> QED BY <1>5

(* The run of a loop for N rounds over a state in A. *)
Run(f, A, a, g, N) ==
  /\ f \in [0..N -> A]
  /\ f = [n \in 0..N |-> IF n = 0 THEN a ELSE g[<<f[n - 1], n>>]]

(* A loop that folds a step over 1..N, as a recursive function, exists and *)
(* stays in its set of states.                                             *)
LEMMA LoopRuns ==
  ASSUME NEW N \in Nat, NEW A, NEW a \in A, NEW g \in [A \X (1..N) -> A]
  PROVE  \E f : Run(f, A, a, g, N)
<1> DEFINE S == {m \in 0..N : \E f : Run(f, A, a, g, m)}
<1>1. 0 \in S
  <2>1. Run([n \in 0..0 |-> a], A, a, g, 0)
    BY DEF Run
  <2>2. 0 \in 0..N OBVIOUS
  <2> QED BY <2>1, <2>2
<1>2. ASSUME NEW m \in 0..(N - 1), m \in S PROVE m + 1 \in S
  <2>1. PICK f : Run(f, A, a, g, m)
    BY <1>2
  <2>2. PICK h : h = [n \in 0..(m + 1) |-> IF n = m + 1 THEN g[<<f[m], m + 1>>] ELSE f[n]]
    OBVIOUS
  <2>3. f[m] \in A /\ g[<<f[m], m + 1>>] \in A
    BY <2>1 DEF Run
  <2>4. h \in [0..(m + 1) -> A]
    BY <2>1, <2>2, <2>3 DEF Run
  <2>5. ASSUME NEW n \in 0..(m + 1)
        PROVE  h[n] = IF n = 0 THEN a ELSE g[<<h[n - 1], n>>]
    <3>1. CASE n = m + 1
      <4>1. n # 0 /\ n - 1 = m /\ h[m] = f[m] BY <2>2, <3>1
      <4> QED BY <2>2, <3>1, <4>1
    <3>2. CASE n # m + 1
      <4>1. n \in 0..m /\ (n # 0 => n - 1 \in 0..m) BY <3>2
      <4>2. h[n] = f[n] /\ (n # 0 => h[n - 1] = f[n - 1]) BY <2>2, <4>1
      <4>3. f[n] = IF n = 0 THEN a ELSE g[<<f[n - 1], n>>] BY <2>1, <4>1 DEF Run
      <4> QED BY <4>2, <4>3
    <3> QED BY <3>1, <3>2
  <2>6. h = [n \in 0..(m + 1) |-> IF n = 0 THEN a ELSE g[<<h[n - 1], n>>]]
    BY <2>4, <2>5
  <2>7. Run(h, A, a, g, m + 1) /\ m + 1 \in 0..N
    BY <2>4, <2>6 DEF Run
  <2> QED BY <2>7
<1>3. N \in S
  <2> HIDE DEF S
  <2>1. N \in 0..N OBVIOUS
  <2> QED BY <1>1, <1>2, <2>1, SetInduction
<1> QED BY <1>3

(* What each round of a loop keeps holds after all of them. *)
LEMMA LoopKeeps ==
  ASSUME NEW N \in Nat, NEW f, NEW S, f[0] \in S,
         \A n \in 1..N : f[n - 1] \in S => f[n] \in S
  PROVE  \A n \in 0..N : f[n] \in S
<1> DEFINE T == {n \in 0..N : f[n] \in S}
<1>1. 0 \in T
  <2>1. 0 \in 0..N OBVIOUS
  <2> QED BY <2>1
<1>2. ASSUME NEW n \in 0..(N - 1), n \in T PROVE n + 1 \in T
  <2>1. n + 1 \in 1..N /\ n + 1 \in 0..N /\ (n + 1) - 1 = n OBVIOUS
  <2> QED BY <1>2, <2>1
<1>3. \A n \in 0..N : n \in T
  <2> HIDE DEF T
  <2> QED BY <1>1, <1>2, SetInduction
<1> QED BY <1>3

----------------------------------------------------------------------------
(* Texts are sequences of characters, and so is what is joined of them. *)
IsJoined(f, lines) ==
  f = [n \in 0..Len(lines) |->
         IF n = 0 THEN <<>> ELSE IF n = 1 THEN lines[1] ELSE Under(f[n - 1], lines[n])]

(* What is joined of lines grows with each line. *)
JoinsUp(f, lines) ==
  /\ f[0] = <<>> /\ Joined(lines) = f[Len(lines)]
  /\ \A n \in 1..Len(lines) : f[n] = IF n = 1 THEN lines[1] ELSE Under(f[n - 1], lines[n])
  /\ \A n \in 0..Len(lines) : f[n] \in Text

(* Joined adds its lines one by one. *)
LEMMA JoinedIs ==
  ASSUME NEW lines \in Seq(Text)
  PROVE  \E f : JoinsUp(f, lines)
<1> DEFINE N == Len(lines)
           g == [p \in Text \X (1..N) |-> IF p[2] = 1 THEN lines[1] ELSE Under(p[1], lines[p[2]])]
<1>1. N \in Nat /\ <<>> \in Text
  BY DEF Text
<1>2. \A s \in Text, n \in 1..N : lines[n] \in Text /\ Under(s, lines[n]) \in Text
  <2>1. \A n \in 1..N : lines[n] \in Text OBVIOUS
  <2>2. \A s, t \in Text : s \o <<"/">> \in Text /\ s \o t \in Text
    BY ChunkAssumption DEF Text
  <2> QED BY <2>1, <2>2 DEF Under
<1>3. \A n \in 1..N : 1 \in 1..N OBVIOUS
<1>4. g \in [Text \X (1..N) -> Text]
  BY <1>2, <1>3
<1>5. PICK f : Run(f, Text, <<>>, g, N)
  <2> HIDE DEF N, g
  <2> QED BY <1>1, <1>4, LoopRuns
<1>6. ASSUME NEW n \in 0..N
      PROVE  f[n] = IF n = 0 THEN <<>> ELSE IF n = 1 THEN lines[1] ELSE Under(f[n - 1], lines[n])
  <2>1. n # 0 => n - 1 \in 0..N /\ n \in 1..N BY <1>1
  <2>2. n # 0 => f[n - 1] \in Text BY <1>5, <2>1 DEF Run
  <2>3. f[n] = IF n = 0 THEN <<>> ELSE g[<<f[n - 1], n>>] BY <1>5 DEF Run
  <2> QED BY <2>1, <2>2, <2>3
<1>7. IsJoined(f, lines)
  <2>1. f = [n \in 0..N |-> f[n]] BY <1>5 DEF Run
  <2> QED BY <1>6, <2>1 DEF IsJoined
<1>8. PICK u : IsJoined(u, lines) /\ Joined(lines) = u[N]
  BY <1>7 DEF IsJoined, Joined
<1>9. u[0] = <<>> /\ \A n \in 1..N : u[n] = IF n = 1 THEN lines[1] ELSE Under(u[n - 1], lines[n])
  BY <1>1, <1>8 DEF IsJoined
<1>10. \A n \in 1..N : u[n - 1] \in Text => u[n] \in Text
  BY <1>2, <1>3, <1>9
<1>11. \A n \in 0..N : u[n] \in Text
  <2> HIDE DEF N
  <2> QED BY <1>1, <1>9, <1>10, LoopKeeps
<1> QED BY <1>8, <1>9, <1>11 DEF JoinsUp

(* Joined lines are a text. *)
LEMMA JoinedType ==
  ASSUME NEW lines \in Seq(Text)
  PROVE  Joined(lines) \in Text
<1>1. PICK f : JoinsUp(f, lines) BY JoinedIs
<1>2. Len(lines) \in 0..Len(lines) OBVIOUS
<1> QED BY <1>1, <1>2 DEF JoinsUp

----------------------------------------------------------------------------
(* The loops of the parsers. *)
LEMMA NestedType ==
  ASSUME NEW path \in Seq(Text), NEW level \in Nat \ {0}, NEW title \in Text
  PROVE  Nested(path, level, title) \in Seq(Text)
<1>1. Smaller(level - 1, Len(path)) \in 0..Len(path)
  BY DEF Smaller
<1>2. SubSeq(path, 1, Smaller(level - 1, Len(path))) \in Seq(Text)
  BY <1>1
<1> QED BY <1>2 DEF Nested

(* Element makes a well-formed element. *)
LEMMA ElementIsTyped ==
  ASSUME NEW type \in {"title", "heading", "paragraph", "list", "table", "image"},
         NEW text \in Text, NEW path \in Seq(Text), NEW level \in Nat
  PROVE  Element(type, text, path, level) \in ElementType
BY DEF Element, ElementType, Types

(* Markdown and text *)
TextState == [elements : Seq(ElementType), path : Seq(Text), lines : Seq(Text)]
TextStart == [elements |-> <<>>, path |-> <<>>, lines |-> <<>>]
IsTextRead(f, lines) ==
  f = [n \in 0..Len(lines) |-> IF n = 0 THEN TextStart ELSE TextLine(f[n - 1], lines[n])]

MarkdownLine == {line \in LineType({"blank", "text", "heading"}) : line.kind = "heading" => line.level > 0}

(* Closing a paragraph keeps the state of the Markdown loop well formed. *)
LEMMA AddParagraphType ==
  ASSUME NEW acc \in TextState
  PROVE  AddParagraph(acc) \in TextState
<1>1. /\ acc.elements \in Seq(ElementType)
      /\ acc.path \in Seq(Text)
      /\ acc.lines \in Seq(Text)
  BY DEF TextState
<1>2. Element("paragraph", Joined(acc.lines), acc.path, 0) \in ElementType
  BY <1>1, JoinedType, ElementIsTyped
<1>3. Append(acc.elements, Element("paragraph", Joined(acc.lines), acc.path, 0)) \in Seq(ElementType)
  BY <1>1, <1>2
<1>4. \A e \in Seq(ElementType), l \in Seq(Text) :
        [acc EXCEPT !.elements = e, !.lines = l] \in TextState
  BY DEF TextState
<1>5. <<>> \in Seq(Text)
  OBVIOUS
<1> QED BY <1>3, <1>4, <1>5 DEF AddParagraph

(* So does a line. *)
LEMMA TextLineType ==
  ASSUME NEW acc \in TextState, NEW line \in MarkdownLine
  PROVE  TextLine(acc, line) \in TextState
<1>1. line.kind \in {"blank", "text", "heading"} /\ line.text \in Text /\ line.level \in Nat
  BY DEF MarkdownLine, LineType
<1>2. AddParagraph(acc) \in TextState
  BY AddParagraphType
<1>3. acc.path \in Seq(Text) /\ acc.lines \in Seq(Text)
  BY DEF TextState
<1>4. CASE line.kind = "heading"
  <2>1. line.level \in Nat \ {0}
    BY <1>1, <1>4 DEF MarkdownLine
  <2>2. Nested(acc.path, line.level, line.text) \in Seq(Text)
    BY <1>1, <1>3, <2>1, NestedType
  <2>3. Element("heading", line.text, Nested(acc.path, line.level, line.text), line.level) \in ElementType
    BY <1>1, <2>2, ElementIsTyped
  <2> DEFINE element == Element("heading", line.text, Nested(acc.path, line.level, line.text), line.level)
  <2>4. Append(AddParagraph(acc).elements, element) \in Seq(ElementType)
    <3>1. AddParagraph(acc).elements \in Seq(ElementType) BY <1>2 DEF TextState
    <3> QED BY <2>3, <3>1
  <2>5. \A a \in TextState, e \in Seq(ElementType), p \in Seq(Text) :
          [a EXCEPT !.path = p, !.elements = e] \in TextState
    BY DEF TextState
  <2> QED BY <1>2, <1>4, <2>2, <2>4, <2>5 DEF TextLine
<1>5. CASE line.kind = "text"
  <2>1. Append(acc.lines, line.text) \in Seq(Text)
    BY <1>1, <1>3
  <2>2. \A l \in Seq(Text) : [acc EXCEPT !.lines = l] \in TextState
    BY DEF TextState
  <2> QED BY <1>5, <2>1, <2>2 DEF TextLine
<1>6. CASE line.kind = "blank"
  BY <1>2, <1>6 DEF TextLine
<1> QED BY <1>1, <1>4, <1>5, <1>6

(* The Markdown loop runs line by line over well-formed states. *)
LEMMA TextReadRuns ==
  ASSUME NEW lines \in Seq(MarkdownLine)
  PROVE  /\ TextRead(lines)[0] = TextStart
         /\ \A n \in 1..Len(lines) : TextRead(lines)[n] = TextLine(TextRead(lines)[n - 1], lines[n])
         /\ \A n \in 0..Len(lines) : TextRead(lines)[n] \in TextState
<1> DEFINE N == Len(lines)
           g == [p \in TextState \X (1..N) |-> TextLine(p[1], lines[p[2]])]
<1>1. N \in Nat /\ TextStart \in TextState
  BY DEF TextStart, TextState
<1>2. \A acc \in TextState, n \in 1..N : TextLine(acc, lines[n]) \in TextState
  BY TextLineType
<1>3. g \in [TextState \X (1..N) -> TextState]
  BY <1>2
<1>4. PICK f : Run(f, TextState, TextStart, g, N)
  <2> HIDE DEF N, g
  <2> QED BY <1>1, <1>3, LoopRuns
<1>5. ASSUME NEW n \in 0..N
      PROVE  f[n] = IF n = 0 THEN TextStart ELSE TextLine(f[n - 1], lines[n])
  <2>1. n # 0 => n - 1 \in 0..N /\ n \in 1..N BY <1>1
  <2>2. n # 0 => f[n - 1] \in TextState BY <1>4, <2>1 DEF Run
  <2>3. f[n] = IF n = 0 THEN TextStart ELSE g[<<f[n - 1], n>>] BY <1>4 DEF Run
  <2> QED BY <2>1, <2>2, <2>3
<1>6. IsTextRead(f, lines)
  <2>1. f = [n \in 0..N |-> f[n]] BY <1>4 DEF Run
  <2> QED BY <1>5, <2>1 DEF IsTextRead
<1>7. IsTextRead(TextRead(lines), lines)
  BY <1>6 DEF IsTextRead, TextRead, TextStart
<1> DEFINE u == TextRead(lines)
<1>8. u[0] = TextStart /\ \A n \in 1..N : u[n] = TextLine(u[n - 1], lines[n])
  BY <1>1, <1>7 DEF IsTextRead
<1>9. \A n \in 0..N : u[n] \in TextState
  <2> HIDE DEF N, u
  <2>1. \A n \in 1..N : u[n - 1] \in TextState => u[n] \in TextState
    BY <1>2, <1>8
  <2> QED BY <1>1, <1>8, <2>1, LoopKeeps
<1> QED BY <1>8, <1>9

(* Word *)
DocxState == [elements : Seq(ElementType), path : Seq(Text)]
DocxStart == [elements |-> <<>>, path |-> <<>>]
IsDocxRead(f, body) ==
  f = [n \in 0..Len(body) |-> IF n = 0 THEN DocxStart ELSE DocxChild(f[n - 1], body[n])]

DocxBody ==
  {child \in LineType({"blank", "text", "heading", "title", "table"}) :
     child.kind = "heading" => child.level > 0}

(* A child of a Word body keeps the state of its loop well formed. *)
LEMMA DocxChildType ==
  ASSUME NEW acc \in DocxState, NEW child \in DocxBody
  PROVE  DocxChild(acc, child) \in DocxState
<1>1. /\ child.kind \in {"blank", "text", "heading", "title", "table"}
      /\ child.text \in Text /\ child.level \in Nat
  BY DEF DocxBody, LineType
<1>2. acc.path \in Seq(Text) /\ acc.elements \in Seq(ElementType) /\ <<>> \in Seq(Text)
  BY DEF DocxState
<1>3. \A e \in ElementType : Append(acc.elements, e) \in Seq(ElementType)
  BY <1>2
<1>4. \A e \in Seq(ElementType) : [acc EXCEPT !.elements = e] \in DocxState
  BY DEF DocxState
<1>5. \A a \in DocxState, p \in Seq(Text) : [a EXCEPT !.path = p] \in DocxState
  BY DEF DocxState
<1>6. CASE child.kind = "heading"
  <2> DEFINE path == Nested(acc.path, child.level, child.text)
  <2>1. child.level \in Nat \ {0}
    BY <1>1, <1>6 DEF DocxBody
  <2>2. path \in Seq(Text)
    BY <1>1, <1>2, <2>1, NestedType
  <2>3. Element("heading", child.text, path, child.level) \in ElementType
    BY <1>1, <2>2, ElementIsTyped
  <2> HIDE DEF path
  <2>4. [acc EXCEPT !.elements = Append(@, Element("heading", child.text, path, child.level))] \in DocxState
    BY <1>3, <1>4, <2>3
  <2> USE DEF path
  <2> QED BY <1>5, <1>6, <2>2, <2>4 DEF DocxChild
<1>7. CASE child.kind = "title"
  <2>1. Element("title", child.text, <<>>, 0) \in ElementType
    BY <1>1, <1>2, ElementIsTyped
  <2> QED BY <1>3, <1>4, <1>7, <2>1 DEF DocxChild
<1>8. CASE child.kind = "text"
  <2>1. Element("paragraph", child.text, acc.path, 0) \in ElementType
    BY <1>1, <1>2, ElementIsTyped
  <2> QED BY <1>3, <1>4, <1>8, <2>1 DEF DocxChild
<1>9. CASE child.kind = "table"
  <2>1. Element("table", child.text, acc.path, 0) \in ElementType
    BY <1>1, <1>2, ElementIsTyped
  <2> QED BY <1>3, <1>4, <1>9, <2>1 DEF DocxChild
<1>10. CASE child.kind = "blank"
  BY <1>10 DEF DocxChild
<1> QED BY <1>1, <1>6, <1>7, <1>8, <1>9, <1>10

(* The Word loop runs child by child over well-formed states. *)
LEMMA DocxReadRuns ==
  ASSUME NEW body \in Seq(DocxBody)
  PROVE  /\ DocxRead(body)[0] = DocxStart
         /\ \A n \in 1..Len(body) : DocxRead(body)[n] = DocxChild(DocxRead(body)[n - 1], body[n])
         /\ \A n \in 0..Len(body) : DocxRead(body)[n] \in DocxState
<1> DEFINE N == Len(body)
           g == [p \in DocxState \X (1..N) |-> DocxChild(p[1], body[p[2]])]
<1>1. N \in Nat /\ DocxStart \in DocxState
  BY DEF DocxStart, DocxState
<1>2. \A acc \in DocxState, n \in 1..N : DocxChild(acc, body[n]) \in DocxState
  BY DocxChildType
<1>3. g \in [DocxState \X (1..N) -> DocxState]
  BY <1>2
<1>4. PICK f : Run(f, DocxState, DocxStart, g, N)
  <2> HIDE DEF N, g
  <2> QED BY <1>1, <1>3, LoopRuns
<1>5. ASSUME NEW n \in 0..N
      PROVE  f[n] = IF n = 0 THEN DocxStart ELSE DocxChild(f[n - 1], body[n])
  <2>1. n # 0 => n - 1 \in 0..N /\ n \in 1..N BY <1>1
  <2>2. n # 0 => f[n - 1] \in DocxState BY <1>4, <2>1 DEF Run
  <2>3. f[n] = IF n = 0 THEN DocxStart ELSE g[<<f[n - 1], n>>] BY <1>4 DEF Run
  <2> QED BY <2>1, <2>2, <2>3
<1>6. IsDocxRead(f, body)
  <2>1. f = [n \in 0..N |-> f[n]] BY <1>4 DEF Run
  <2> QED BY <1>5, <2>1 DEF IsDocxRead
<1>7. IsDocxRead(DocxRead(body), body)
  BY <1>6 DEF IsDocxRead, DocxRead, DocxStart
<1> DEFINE u == DocxRead(body)
<1>8. u[0] = DocxStart /\ \A n \in 1..N : u[n] = DocxChild(u[n - 1], body[n])
  BY <1>1, <1>7 DEF IsDocxRead
<1>9. \A n \in 0..N : u[n] \in DocxState
  <2> HIDE DEF N, u
  <2>1. \A n \in 1..N : u[n - 1] \in DocxState => u[n] \in DocxState
    BY <1>2, <1>8
  <2> QED BY <1>1, <1>8, <2>1, LoopKeeps
<1> QED BY <1>8, <1>9

(* Workbooks *)
SheetStep(elements, sheet) ==
  IF sheet = <<>> THEN elements ELSE Append(elements, Element("table", sheet, <<>>, 0))
IsSheetsRead(f, sheets) ==
  f = [n \in 0..Len(sheets) |-> IF n = 0 THEN <<>> ELSE SheetStep(f[n - 1], sheets[n])]

(* A sheet adds at most a well-formed table. *)
LEMMA SheetStepType ==
  ASSUME NEW elements \in Seq(ElementType), NEW sheet \in Text
  PROVE  SheetStep(elements, sheet) \in Seq(ElementType)
<1>1. Element("table", sheet, <<>>, 0) \in ElementType
  <2>1. <<>> \in Seq(Text) OBVIOUS
  <2> QED BY <2>1, ElementIsTyped
<1> QED BY <1>1 DEF SheetStep

(* The loop over the sheets of a workbook runs sheet by sheet. *)
LEMMA SheetsReadRuns ==
  ASSUME NEW sheets \in Seq(Text)
  PROVE  /\ SheetsRead(sheets)[0] = <<>>
         /\ \A n \in 1..Len(sheets) : SheetsRead(sheets)[n] = SheetStep(SheetsRead(sheets)[n - 1], sheets[n])
         /\ \A n \in 0..Len(sheets) : SheetsRead(sheets)[n] \in Seq(ElementType)
<1> DEFINE N == Len(sheets)
           g == [p \in Seq(ElementType) \X (1..N) |-> SheetStep(p[1], sheets[p[2]])]
<1>1. N \in Nat /\ <<>> \in Seq(ElementType)
  BY DEF Text
<1>2. \A acc \in Seq(ElementType), n \in 1..N : SheetStep(acc, sheets[n]) \in Seq(ElementType)
  BY SheetStepType
<1>3. g \in [Seq(ElementType) \X (1..N) -> Seq(ElementType)]
  BY <1>2
<1>4. PICK f : Run(f, Seq(ElementType), <<>>, g, N)
  <2> HIDE DEF N, g
  <2> QED BY <1>1, <1>3, LoopRuns
<1>5. ASSUME NEW n \in 0..N
      PROVE  f[n] = IF n = 0 THEN <<>> ELSE SheetStep(f[n - 1], sheets[n])
  <2>1. n # 0 => n - 1 \in 0..N /\ n \in 1..N BY <1>1
  <2>2. n # 0 => f[n - 1] \in Seq(ElementType) BY <1>4, <2>1 DEF Run
  <2>3. f[n] = IF n = 0 THEN <<>> ELSE g[<<f[n - 1], n>>] BY <1>4 DEF Run
  <2> QED BY <2>1, <2>2, <2>3
<1>6. IsSheetsRead(f, sheets)
  <2>1. f = [n \in 0..N |-> f[n]] BY <1>4 DEF Run
  <2> QED BY <1>5, <2>1 DEF IsSheetsRead
<1>7. IsSheetsRead(SheetsRead(sheets), sheets)
  BY <1>6 DEF IsSheetsRead, SheetsRead, SheetStep
<1> DEFINE u == SheetsRead(sheets)
<1>8. u[0] = <<>> /\ \A n \in 1..N : u[n] = SheetStep(u[n - 1], sheets[n])
  BY <1>1, <1>7 DEF IsSheetsRead
<1>9. \A n \in 0..N : u[n] \in Seq(ElementType)
  <2> HIDE DEF N, u
  <2>1. \A n \in 1..N : u[n - 1] \in Seq(ElementType) => u[n] \in Seq(ElementType)
    BY <1>2, <1>8
  <2> QED BY <1>1, <1>8, <2>1, LoopKeeps
<1> QED BY <1>8, <1>9

(* The tables of a PDF *)
NativeTable == [page : Nat, box : Box, text : Text \ {<<>>}]
TableStep(tables, table, number) ==
  IF table.text = <<>> THEN tables
  ELSE Append(tables, [page |-> number, box |-> table.box, text |-> table.text])
IsTablesRead(f, page, number) ==
  f = [k \in 0..Len(page.tables) |->
         IF k = 0 THEN <<>> ELSE TableStep(f[k - 1], page.tables[k], number)]
PageStep(tables, page, number) == tables \o TablesRead(page, number)[Len(page.tables)]
IsPagesRead(f, pdf) ==
  f = [n \in 0..Len(pdf.pages) |-> IF n = 0 THEN <<>> ELSE PageStep(f[n - 1], pdf.pages[n], n)]

(* A table that PyMuPDF finds is added to the native tables of its page if *)
(* it has text.                                                            *)
LEMMA TableStepType ==
  ASSUME NEW tables \in Seq(NativeTable), NEW table \in TableType, NEW number \in Nat
  PROVE  TableStep(tables, table, number) \in Seq(NativeTable)
<1>1. CASE table.text = <<>>
  BY <1>1 DEF TableStep
<1>2. CASE table.text # <<>>
  <2>1. [page |-> number, box |-> table.box, text |-> table.text] \in NativeTable
    BY <1>2 DEF NativeTable, TableType
  <2> QED BY <1>2, <2>1 DEF TableStep
<1> QED BY <1>1, <1>2

(* The loop over the tables of a page runs table by table. *)
LEMMA TablesReadRuns ==
  ASSUME NEW page \in PageType, NEW number \in Nat
  PROVE  /\ TablesRead(page, number)[0] = <<>>
         /\ \A n \in 1..Len(page.tables) : TablesRead(page, number)[n] = TableStep(TablesRead(page, number)[n - 1], page.tables[n], number)
         /\ \A n \in 0..Len(page.tables) : TablesRead(page, number)[n] \in Seq(NativeTable)
<1> DEFINE N == Len(page.tables)
           g == [p \in Seq(NativeTable) \X (1..N) |-> TableStep(p[1], page.tables[p[2]], number)]
<1>1. N \in Nat /\ <<>> \in Seq(NativeTable)
  BY DEF PageType
<1>2. \A acc \in Seq(NativeTable), n \in 1..N : TableStep(acc, page.tables[n], number) \in Seq(NativeTable)
  <2>1. \A n \in 1..N : page.tables[n] \in TableType BY DEF PageType
  <2> QED BY <2>1, TableStepType
<1>3. g \in [Seq(NativeTable) \X (1..N) -> Seq(NativeTable)]
  BY <1>2
<1>4. PICK f : Run(f, Seq(NativeTable), <<>>, g, N)
  <2> HIDE DEF N, g
  <2> QED BY <1>1, <1>3, LoopRuns
<1>5. ASSUME NEW n \in 0..N
      PROVE  f[n] = IF n = 0 THEN <<>> ELSE TableStep(f[n - 1], page.tables[n], number)
  <2>1. n # 0 => n - 1 \in 0..N /\ n \in 1..N BY <1>1
  <2>2. n # 0 => f[n - 1] \in Seq(NativeTable) BY <1>4, <2>1 DEF Run
  <2>3. f[n] = IF n = 0 THEN <<>> ELSE g[<<f[n - 1], n>>] BY <1>4 DEF Run
  <2> QED BY <2>1, <2>2, <2>3
<1>6. IsTablesRead(f, page, number)
  <2>1. f = [n \in 0..N |-> f[n]] BY <1>4 DEF Run
  <2> QED BY <1>5, <2>1 DEF IsTablesRead
<1>7. IsTablesRead(TablesRead(page, number), page, number)
  BY <1>6 DEF IsTablesRead, TablesRead, TableStep
<1> DEFINE u == TablesRead(page, number)
<1>8. u[0] = <<>> /\ \A n \in 1..N : u[n] = TableStep(u[n - 1], page.tables[n], number)
  BY <1>1, <1>7 DEF IsTablesRead
<1>9. \A n \in 0..N : u[n] \in Seq(NativeTable)
  <2> HIDE DEF N, u
  <2>1. \A n \in 1..N : u[n - 1] \in Seq(NativeTable) => u[n] \in Seq(NativeTable)
    BY <1>2, <1>8
  <2> QED BY <1>1, <1>8, <2>1, LoopKeeps
<1> QED BY <1>8, <1>9

(* The native tables of a page are added to those of the pages before. *)
LEMMA PageStepType ==
  ASSUME NEW tables \in Seq(NativeTable), NEW page \in PageType, NEW number \in Nat
  PROVE  PageStep(tables, page, number) \in Seq(NativeTable)
<1>1. Len(page.tables) \in Nat /\ Len(page.tables) \in 0..Len(page.tables)
  BY DEF PageType
<1>2. TablesRead(page, number)[Len(page.tables)] \in Seq(NativeTable)
  BY <1>1, TablesReadRuns
<1> QED BY <1>2 DEF PageStep

(* The loop over the pages of a PDF runs page by page. *)
LEMMA PagesReadRuns ==
  ASSUME NEW pdf \in PdfType
  PROVE  /\ PagesRead(pdf)[0] = <<>>
         /\ \A n \in 1..Len(pdf.pages) : PagesRead(pdf)[n] = PageStep(PagesRead(pdf)[n - 1], pdf.pages[n], n)
         /\ \A n \in 0..Len(pdf.pages) : PagesRead(pdf)[n] \in Seq(NativeTable)
<1> DEFINE N == Len(pdf.pages)
           g == [p \in Seq(NativeTable) \X (1..N) |-> PageStep(p[1], pdf.pages[p[2]], p[2])]
<1>1. N \in Nat /\ <<>> \in Seq(NativeTable)
  BY DEF PdfType
<1>2. \A acc \in Seq(NativeTable), n \in 1..N : PageStep(acc, pdf.pages[n], n) \in Seq(NativeTable)
  <2>1. \A n \in 1..N : pdf.pages[n] \in PageType /\ n \in Nat BY DEF PdfType
  <2> QED BY <2>1, PageStepType
<1>3. g \in [Seq(NativeTable) \X (1..N) -> Seq(NativeTable)]
  BY <1>2
<1>4. PICK f : Run(f, Seq(NativeTable), <<>>, g, N)
  <2> HIDE DEF N, g
  <2> QED BY <1>1, <1>3, LoopRuns
<1>5. ASSUME NEW n \in 0..N
      PROVE  f[n] = IF n = 0 THEN <<>> ELSE PageStep(f[n - 1], pdf.pages[n], n)
  <2>1. n # 0 => n - 1 \in 0..N /\ n \in 1..N BY <1>1
  <2>2. n # 0 => f[n - 1] \in Seq(NativeTable) BY <1>4, <2>1 DEF Run
  <2>3. f[n] = IF n = 0 THEN <<>> ELSE g[<<f[n - 1], n>>] BY <1>4 DEF Run
  <2> QED BY <2>1, <2>2, <2>3
<1>6. IsPagesRead(f, pdf)
  <2>1. f = [n \in 0..N |-> f[n]] BY <1>4 DEF Run
  <2> QED BY <1>5, <2>1 DEF IsPagesRead
<1>7. IsPagesRead(PagesRead(pdf), pdf)
  BY <1>6 DEF IsPagesRead, PagesRead, PageStep
<1> DEFINE u == PagesRead(pdf)
<1>8. u[0] = <<>> /\ \A n \in 1..N : u[n] = PageStep(u[n - 1], pdf.pages[n], n)
  BY <1>1, <1>7 DEF IsPagesRead
<1>9. \A n \in 0..N : u[n] \in Seq(NativeTable)
  <2> HIDE DEF N, u
  <2>1. \A n \in 1..N : u[n - 1] \in Seq(NativeTable) => u[n] \in Seq(NativeTable)
    BY <1>2, <1>8
  <2> QED BY <1>1, <1>8, <2>1, LoopKeeps
<1> QED BY <1>8, <1>9

(* The native tables are a sequence of tables. *)
LEMMA NativeTablesType ==
  ASSUME NEW pdf \in PdfType
  PROVE  NativeTables(pdf) \in Seq(NativeTable)
<1>1. Len(pdf.pages) \in Nat /\ Len(pdf.pages) \in 0..Len(pdf.pages)
  BY DEF PdfType
<1> QED BY <1>1, PagesReadRuns DEF NativeTables

(* What Docling returns *)
ProvType == [page : Nat \ {0}, box : {None} \union Box]
ReadState ==
  [elements : Seq(ElementType), path : Seq(Text), tables : Seq(NativeTable),
   texts : SUBSET ProvType, recovered : SUBSET NativeTable, incomplete : BOOLEAN]
ReadStart(tables) ==
  [elements |-> <<>>, path |-> <<>>, tables |-> tables, texts |-> {}, recovered |-> {},
   incomplete |-> FALSE]
IsRead(f, result, tables) ==
  f = [n \in 0..Len(result.items) |->
         IF n = 0 THEN ReadStart(tables)
         ELSE Item(f[n - 1], Located(result.items[n], result.pages))]

(* Losing boxes leaves an item an item, with its label. *)
LEMMA LocatedType ==
  ASSUME NEW item \in ItemType, NEW pages \in Nat
  PROVE  /\ Located(item, pages) \in ItemType
         /\ Located(item, pages).label = item.label
<1> DEFINE moved == [k \in DOMAIN item.prov |-> Placed(item.prov[k], pages)]
<1>1. item.prov \in Seq(ProvType)
  BY DEF ItemType, ProvType
<1>2. \A k \in DOMAIN item.prov : moved[k] \in ProvType
  <2>1. \A p \in ProvType : [p EXCEPT !.box = None] \in ProvType BY DEF ProvType
  <2>2. \A k \in DOMAIN item.prov : item.prov[k] \in ProvType BY <1>1
  <2> QED BY <2>1, <2>2 DEF Placed
<1>3. moved \in Seq(ProvType)
  <2>1. DOMAIN item.prov = 1..Len(item.prov) /\ Len(item.prov) \in Nat BY <1>1
  <2>2. moved \in [1..Len(item.prov) -> ProvType] BY <1>2, <2>1
  <2> HIDE DEF moved
  <2> QED BY <2>1, <2>2
<1>4. \A m \in Seq(ProvType) : /\ [item EXCEPT !.prov = m] \in ItemType
                            /\ [item EXCEPT !.prov = m].label = item.label
  BY DEF ItemType, ProvType
<1> QED BY <1>3, <1>4 DEF Located

(* What _matching_native_table_index returns is a table that is left, or   *)
(* none.                                                                   *)
LEMMA MatchType ==
  ASSUME NEW item \in ItemType, NEW tables \in Seq(NativeTable)
  PROVE  Match(item, tables) \in 0..Len(tables)
<1> DEFINE good == {p \in Best(item, tables) : ~Less(Overlap(item, tables, p), <<7, 10>>)}
<1>1. Best(item, tables) \subseteq (DOMAIN item.prov) \X (DOMAIN tables)
  BY DEF Best, Candidates
<1>2. CASE good = {}
  BY <1>2 DEF Match
<1>3. CASE good # {}
  <2>1. PICK p \in good : Match(item, tables) = p[2]
    BY <1>3 DEF Match
  <2>2. p[2] \in DOMAIN tables
    BY <1>1
  <2> QED BY <2>1, <2>2
<1> QED BY <1>2, <1>3

(* The span of an item is a pair of page numbers, 0 if it is on no page. *)
LEMMA SpanType ==
  ASSUME NEW item \in ItemType
  PROVE  /\ SpanStart(item) \in Nat /\ SpanEnd(item) \in Nat
         /\ SpanStart(item) = 0 => SpanEnd(item) = 0
<1>1. item.prov \in Seq(ProvType)
  BY DEF ItemType, ProvType
<1>2. Pages(item) \subseteq Nat \ {0}
  <2>1. \A k \in DOMAIN item.prov : item.prov[k] \in ProvType BY <1>1
  <2> QED BY <2>1 DEF Pages, ProvType
<1>3. CASE Pages(item) = {}
  BY <1>3 DEF SpanStart, SpanEnd
<1>4. CASE Pages(item) # {}
  <2>1. PICK m \in Pages(item) : \A n \in Pages(item) : ~ (<<n, m>> \in OpToRel(<, Nat))
    BY <1>2, <1>4, WFMin, NatLessThanWellFounded
  <2>2. \A n \in Pages(item) : m <= n
    <3>1. \A n \in Pages(item) : n \in Nat /\ m \in Nat BY <1>2
    <3>2. \A n \in Pages(item) : ~(n < m) BY <2>1, <3>1 DEF OpToRel
    <3> QED BY <3>1, <3>2
  <2>3. \E n \in Pages(item) : \A k \in Pages(item) : n >= k
    <3> DEFINE N == Len(item.prov)
               page(k) == item.prov[k].page
               S == {n \in 0..N : n = 0 \/ \E l \in 1..n : \A k \in 1..n : page(l) >= page(k)}
    <3>1. N \in Nat /\ \A k \in 1..N : page(k) \in Nat
      <4>1. \A k \in 1..N : item.prov[k] \in ProvType BY <1>1
      <4> QED BY <1>1, <4>1 DEF ProvType
    <3> HIDE DEF N, page
    <3>2. 0 \in S
      BY <3>1
    <3>3. ASSUME NEW n \in 0..(N - 1), n \in S PROVE n + 1 \in S
      <4>1. n + 1 \in 0..N /\ n + 1 \in 1..(n + 1) /\ 1..n \subseteq 1..N /\ n + 1 \in 1..N BY <3>1
      <4>2. CASE n = 0
        <5>1. \A k \in 1..(n + 1) : k = n + 1 BY <4>2
        <5>2. page(n + 1) >= page(n + 1) BY <3>1, <4>1
        <5> QED BY <4>1, <5>1, <5>2
      <4>3. CASE n # 0
        <5>1. PICK l \in 1..n : \A k \in 1..n : page(l) >= page(k)
          BY <3>3, <4>3
        <5>2. CASE page(l) >= page(n + 1)
          <6>1. \A k \in 1..(n + 1) : page(l) >= page(k) BY <5>1, <5>2
          <6>2. l \in 1..(n + 1) OBVIOUS
          <6> QED BY <4>1, <6>1, <6>2
        <5>3. CASE ~(page(l) >= page(n + 1))
          <6>1. \A k \in 1..(n + 1) : page(n + 1) >= page(k)
            <7>1. \A k \in 1..(n + 1) : k \in 1..N /\ (k = n + 1 \/ k \in 1..n) BY <4>1
            <7>2. page(l) \in Nat /\ page(n + 1) \in Nat BY <3>1, <4>1
            <7> QED BY <3>1, <5>1, <5>3, <7>1, <7>2
          <6> QED BY <4>1, <6>1
        <5> QED BY <5>2, <5>3
      <4> QED BY <4>2, <4>3
    <3>4. N \in S
      <4> HIDE DEF S
      <4>1. N \in 0..N BY <3>1
      <4> QED BY <3>1, <3>2, <3>3, <4>1, SetInduction
    <3>5. N # 0
      <4>1. \E k \in DOMAIN item.prov : TRUE BY <1>4 DEF Pages
      <4> QED BY <1>1, <4>1 DEF N
    <3>6. PICK l \in 1..N : \A k \in 1..N : page(l) >= page(k)
      BY <3>4, <3>5
    <3>7. DOMAIN item.prov = 1..N BY <1>1 DEF N
    <3>8. page(l) \in Pages(item) /\ \A n \in Pages(item) : \E k \in 1..N : n = page(k)
      BY <3>7 DEF Pages, page
    <3> QED BY <3>6, <3>8
  <2>4. SpanStart(item) \in Pages(item)
    BY <1>4, <2>2 DEF SpanStart
  <2>5. SpanEnd(item) \in Pages(item)
    BY <1>4, <2>3 DEF SpanEnd
  <2> QED BY <1>2, <2>4, <2>5
<1> QED BY <1>3, <1>4

(* _element_type knows every label. *)
LEMMA TypeIsType == \A label : Type(label) \in Types
BY DEF Type, Types

(* The pop takes one table out and keeps the order of the others. *)
LEMMA DroppedType ==
  ASSUME NEW tables \in Seq(NativeTable), NEW k \in 0..Len(tables)
  PROVE  /\ Dropped(tables, k) \in Seq(NativeTable)
         /\ Len(Dropped(tables, k)) = IF k = 0 THEN Len(tables) ELSE Len(tables) - 1
         /\ \A j \in 1..Len(Dropped(tables, k)) :
              Dropped(tables, k)[j] = IF k = 0 \/ j < k THEN tables[j] ELSE tables[j + 1]
<1>1. CASE k = 0
  BY <1>1 DEF Dropped
<1>2. CASE k # 0
  <2>1. Dropped(tables, k) = SubSeq(tables, 1, k - 1) \o SubSeq(tables, k + 1, Len(tables))
    BY <1>2 DEF Dropped, RemoveAt
  <2>2. /\ SubSeq(tables, 1, k - 1) \in Seq(NativeTable)
        /\ Len(SubSeq(tables, 1, k - 1)) = k - 1
        /\ \A j \in 1..(k - 1) : SubSeq(tables, 1, k - 1)[j] = tables[j]
    BY <1>2
  <2>3. /\ SubSeq(tables, k + 1, Len(tables)) \in Seq(NativeTable)
        /\ Len(SubSeq(tables, k + 1, Len(tables))) = Len(tables) - k
        /\ \A j \in 1..(Len(tables) - k) : SubSeq(tables, k + 1, Len(tables))[j] = tables[j + k]
    BY <1>2
  <2>4. PICK s \in Seq(NativeTable), t \in Seq(NativeTable) :
           /\ Dropped(tables, k) = s \o t
           /\ Len(s) = k - 1 /\ \A j \in 1..(k - 1) : s[j] = tables[j]
           /\ Len(t) = Len(tables) - k /\ \A j \in 1..(Len(tables) - k) : t[j] = tables[j + k]
    BY <2>1, <2>2, <2>3
  <2>5. /\ s \o t \in Seq(NativeTable)
        /\ Len(s \o t) = Len(tables) - 1
        /\ \A j \in 1..(k - 1) : (s \o t)[j] = tables[j]
        /\ \A j \in k..(Len(tables) - 1) : (s \o t)[j] = tables[j + 1]
    <3>1. s \o t \in Seq(NativeTable) /\ Len(s \o t) = Len(s) + Len(t) /\ Len(tables) \in Nat /\ k \in Nat
      <4>1. s \o t \in Seq(NativeTable) /\ Len(s \o t) = Len(s) + Len(t) OBVIOUS
      <4>2. Len(tables) \in Nat OBVIOUS
      <4> QED BY <4>1, <4>2
    <3>2. \A j \in 1..(Len(s) + Len(t)) : (s \o t)[j] = IF j <= Len(s) THEN s[j] ELSE t[j - Len(s)]
      OBVIOUS
    <3>3. ASSUME NEW j \in 1..(k - 1) PROVE (s \o t)[j] = tables[j]
      BY <1>2, <2>4, <3>1, <3>2
    <3>4. ASSUME NEW j \in k..(Len(tables) - 1) PROVE (s \o t)[j] = tables[j + 1]
      <4>1. j - (k - 1) \in 1..(Len(tables) - k) /\ (j - (k - 1)) + k = j + 1 BY <3>1
      <4>2. (s \o t)[j] = t[j - (k - 1)] BY <1>2, <2>4, <3>1, <3>2
      <4>3. t[j - (k - 1)] = tables[(j - (k - 1)) + k] BY <2>4, <4>1
      <4> QED BY <4>1, <4>2, <4>3
    <3> QED BY <1>2, <2>4, <3>1, <3>3, <3>4
  <2> QED BY <1>2, <2>4, <2>5
<1> QED BY <1>1, <1>2

(* Item, as the new state it builds and the element it may add. *)
Recovers(acc, item) == item.label = "table" /\ item.text = <<>> /\ Match(item, acc.tables) # 0
Matched(acc, item) == IF item.label = "table" THEN Match(item, acc.tables) ELSE 0
TextOf(acc, item) == IF Recovers(acc, item) THEN acc.tables[Matched(acc, item)].text ELSE item.text
PathAfter(acc, item) ==
  IF Type(item.label) = "heading" /\ TextOf(acc, item) # <<>>
  THEN Nested(acc.path, Bigger(1, item.level), TextOf(acc, item)) ELSE acc.path
ElementOf(acc, item) ==
  [type |-> Type(item.label), text |-> TextOf(acc, item),
   path |-> IF Type(item.label) = "title" THEN <<>> ELSE PathAfter(acc, item),
   start |-> SpanStart(item), end |-> SpanEnd(item),
   level |-> IF Type(item.label) = "heading" THEN Bigger(1, item.level) ELSE 0,
   native |-> Recovers(acc, item)]

Moved(acc, tables, texts, recovered, incomplete) ==
  [acc EXCEPT !.texts = texts, !.tables = tables, !.recovered = recovered, !.incomplete = incomplete]
Grown(acc, path, elements) == [acc EXCEPT !.path = path, !.elements = elements]

(* The bookkeeping of map_docling_result keeps the state of its loop well  *)
(* formed.                                                                 *)
LEMMA MovedType ==
  ASSUME NEW acc \in ReadState, NEW t \in Seq(NativeTable), NEW x \in SUBSET ProvType,
         NEW r \in SUBSET NativeTable, NEW i \in BOOLEAN
  PROVE  /\ Moved(acc, t, x, r, i) \in ReadState
         /\ Moved(acc, t, x, r, i).elements = acc.elements
         /\ Moved(acc, t, x, r, i).path = acc.path
         /\ Moved(acc, t, x, r, i).tables = t
         /\ Moved(acc, t, x, r, i).incomplete = i
<1> DEFINE a == Moved(acc, t, x, r, i)
<1>1. a \in ReadState BY DEF ReadState, Moved
<1>2. a.elements = acc.elements /\ a.path = acc.path /\ a.tables = t BY DEF ReadState, Moved
<1>3. a.incomplete = i BY DEF ReadState, Moved
<1> QED BY <1>1, <1>2, <1>3

(* So does a new element with its section path. *)
LEMMA GrownType ==
  ASSUME NEW acc \in ReadState, NEW p \in Seq(Text), NEW e \in Seq(ElementType)
  PROVE  /\ Grown(acc, p, e) \in ReadState
         /\ Grown(acc, p, e).elements = e /\ Grown(acc, p, e).path = p
         /\ Grown(acc, p, e).tables = acc.tables
         /\ Grown(acc, p, e).incomplete = acc.incomplete
<1> DEFINE b == Grown(acc, p, e)
<1>1. b \in ReadState BY DEF ReadState, Grown
<1>2. b.elements = e /\ b.path = p /\ b.tables = acc.tables BY DEF ReadState, Grown
<1>3. b.incomplete = acc.incomplete BY DEF ReadState, Grown
<1> QED BY <1>1, <1>2, <1>3

(* What one round of map_docling_result does: at most one element more, at *)
(* most one native table less.                                             *)
LEMMA ItemStep ==
  ASSUME NEW acc \in ReadState, NEW item \in ItemType
  PROVE  /\ Item(acc, item) \in ReadState
         /\ Item(acc, item).elements =
              IF TextOf(acc, item) = <<>> THEN acc.elements
              ELSE Append(acc.elements, ElementOf(acc, item))
         /\ Item(acc, item).path = PathAfter(acc, item)
         /\ Item(acc, item).tables = Dropped(acc.tables, Matched(acc, item))
         /\ Item(acc, item).incomplete <=>
              acc.incomplete \/ (item.label = "table" /\ TextOf(acc, item) = <<>>)
         /\ ElementOf(acc, item) \in ElementType
         /\ Matched(acc, item) \in 0..Len(acc.tables)
<1>1. /\ acc.elements \in Seq(ElementType) /\ acc.path \in Seq(Text)
      /\ acc.tables \in Seq(NativeTable) /\ acc.texts \in SUBSET ProvType
      /\ acc.recovered \in SUBSET NativeTable /\ acc.incomplete \in BOOLEAN
  BY DEF ReadState
<1>2. item.label \in STRING /\ item.text \in Text /\ item.level \in Int /\ item.prov \in Seq(ProvType)
  BY DEF ItemType, ProvType
<1> DEFINE k == Matched(acc, item)
           text == TextOf(acc, item)
           path == PathAfter(acc, item)
<1>3. k \in 0..Len(acc.tables)
  <2>1. 0 \in 0..Len(acc.tables) BY <1>1
  <2> QED BY <1>1, <2>1, MatchType DEF Matched
<1>4. k # 0 => acc.tables[k] \in NativeTable
  <2> HIDE DEF k
  <2> QED BY <1>1, <1>3
<1>5. Recovers(acc, item) <=> k # 0 /\ item.text = <<>>
  BY DEF Recovers, Matched
<1>6. text \in Text
  <2> HIDE DEF k
  <2>1. k # 0 => acc.tables[k].text \in Text BY <1>4 DEF NativeTable
  <2> QED BY <1>2, <1>5, <2>1 DEF TextOf, k
<1>7. Bigger(1, item.level) \in Nat \ {0}
  BY <1>2 DEF Bigger
<1>8. path \in Seq(Text)
  BY <1>1, <1>6, <1>7, NestedType DEF PathAfter
<1>9. ElementOf(acc, item) \in ElementType
  <2>1. SpanStart(item) \in Nat /\ SpanEnd(item) \in Nat
    BY SpanType
  <2>2. Recovers(acc, item) \in BOOLEAN
    BY DEF Recovers
  <2>3. <<>> \in Seq(Text) OBVIOUS
  <2>4. Type(item.label) \in Types BY TypeIsType
  <2> HIDE DEF text, path
  <2> QED BY <1>6, <1>7, <1>8, <2>1, <2>2, <2>3, <2>4 DEF ElementOf, ElementType, Types, text, path
<1> DEFINE texts == IF item.label = "table" THEN acc.texts
                    ELSE acc.texts \union {item.prov[j] : j \in DOMAIN item.prov}
           recovered == IF Recovers(acc, item) THEN acc.recovered \union {acc.tables[k]} ELSE acc.recovered
           incomplete == acc.incomplete \/ (item.label = "table" /\ k = 0 /\ item.text = <<>>)
           next == Moved(acc, Dropped(acc.tables, k), texts, recovered, incomplete)
<1>12. texts \in SUBSET ProvType
  <2>1. \A j \in DOMAIN item.prov : item.prov[j] \in ProvType BY <1>2
  <2> QED BY <1>1, <2>1
<1>13. recovered \in SUBSET NativeTable
  <2> HIDE DEF k
  <2> QED BY <1>1, <1>4, <1>5
<1>14. incomplete \in BOOLEAN /\ Dropped(acc.tables, k) \in Seq(NativeTable)
  <2> HIDE DEF k
  <2> QED BY <1>1, <1>3, DroppedType
<1>15. /\ next \in ReadState /\ next.elements = acc.elements /\ next.path = acc.path
       /\ next.tables = Dropped(acc.tables, k) /\ next.incomplete = incomplete
  <2> HIDE DEF texts, recovered, incomplete, k
  <2> QED BY <1>12, <1>13, <1>14, MovedType
<1>16. Item(acc, item) = Add(next, item, text, Recovers(acc, item))
  BY DEF Item, Recovers, Matched, TextOf, Moved
<1>17. incomplete <=> acc.incomplete \/ (item.label = "table" /\ text = <<>>)
  <2>1. k # 0 => acc.tables[k].text # <<>>
    <3> HIDE DEF k
    <3> QED BY <1>4 DEF NativeTable
  <2> QED BY <1>1, <2>1 DEF Recovers, Matched, TextOf
<1>18. CASE text = <<>>
  <2>1. Item(acc, item) = next
    BY <1>16, <1>18 DEF Add
  <2>2. path = acc.path
    BY <1>18 DEF PathAfter
  <2> HIDE DEF next, incomplete, text, path
  <2> QED BY <1>3, <1>9, <1>15, <1>17, <1>18, <2>1, <2>2 DEF text, path
<1>19. CASE text # <<>>
  <2>1. path = IF Type(item.label) = "heading" THEN Nested(next.path, Bigger(1, item.level), text) ELSE next.path
    <3> HIDE DEF next
    <3> QED BY <1>15, <1>19 DEF PathAfter
  <2>2. Append(acc.elements, ElementOf(acc, item)) \in Seq(ElementType)
    BY <1>1, <1>9
  <2>4. Item(acc, item) = Grown(next, path, Append(acc.elements, ElementOf(acc, item)))
    <3>1. next.elements = acc.elements BY <1>15
    <3> HIDE DEF next, text, path
    <3>2. Item(acc, item) = Grown(next, path, Append(next.elements, ElementOf(acc, item)))
      BY <1>16, <1>19, <2>1, Zenon DEF Add, ElementOf, Grown, text, path
    <3> QED BY <3>1, <3>2
  <2>5. /\ Item(acc, item) \in ReadState
        /\ Item(acc, item).elements = Append(acc.elements, ElementOf(acc, item))
        /\ Item(acc, item).path = path
        /\ Item(acc, item).tables = next.tables
        /\ Item(acc, item).incomplete = next.incomplete
    <3>1. next \in ReadState BY <1>15
    <3> HIDE DEF next, text, path
    <3> DEFINE e == Append(acc.elements, ElementOf(acc, item))
    <3>2. e \in Seq(ElementType) /\ path \in Seq(Text) BY <1>8, <2>2
    <3> HIDE DEF e
    <3>3. /\ Grown(next, path, e) \in ReadState
          /\ Grown(next, path, e).elements = e /\ Grown(next, path, e).path = path
          /\ Grown(next, path, e).tables = next.tables
          /\ Grown(next, path, e).incomplete = next.incomplete
      BY <3>1, <3>2, GrownType
    <3> QED BY <2>4, <3>3, Zenon DEF e
  <2> HIDE DEF next, incomplete, text, path, k
  <2> QED BY <1>3, <1>9, <1>15, <1>17, <1>19, <2>5 DEF text, path, k
<1> QED BY <1>18, <1>19

(* The loop of map_docling_result runs item by item over well-formed       *)
(* states.                                                                 *)
LEMMA ReadRuns ==
  ASSUME NEW result \in ResultType, NEW tables \in Seq(NativeTable)
  PROVE  /\ Read(result, tables)[0] = ReadStart(tables)
         /\ \A n \in 1..Len(result.items) : Read(result, tables)[n] = Item(Read(result, tables)[n - 1], Located(result.items[n], result.pages))
         /\ \A n \in 0..Len(result.items) : Read(result, tables)[n] \in ReadState
<1> DEFINE N == Len(result.items)
           g == [p \in ReadState \X (1..N) |-> Item(p[1], Located(result.items[p[2]], result.pages))]
<1>1. N \in Nat /\ ReadStart(tables) \in ReadState
  BY DEF ResultType, ReadStart, ReadState
<1>2. \A acc \in ReadState, n \in 1..N : Item(acc, Located(result.items[n], result.pages)) \in ReadState
  <2>1. \A n \in 1..N : result.items[n] \in ItemType /\ result.pages \in Nat BY DEF ResultType
  <2> QED BY <2>1, ItemStep, LocatedType
<1>3. g \in [ReadState \X (1..N) -> ReadState]
  BY <1>2
<1>4. PICK f : Run(f, ReadState, ReadStart(tables), g, N)
  <2> HIDE DEF N, g
  <2> QED BY <1>1, <1>3, LoopRuns
<1>5. ASSUME NEW n \in 0..N
      PROVE  f[n] = IF n = 0 THEN ReadStart(tables) ELSE Item(f[n - 1], Located(result.items[n], result.pages))
  <2>1. n # 0 => n - 1 \in 0..N /\ n \in 1..N BY <1>1
  <2>2. n # 0 => f[n - 1] \in ReadState BY <1>4, <2>1 DEF Run
  <2>3. f[n] = IF n = 0 THEN ReadStart(tables) ELSE g[<<f[n - 1], n>>] BY <1>4 DEF Run
  <2> QED BY <2>1, <2>2, <2>3
<1>6. IsRead(f, result, tables)
  <2>1. f = [n \in 0..N |-> f[n]] BY <1>4 DEF Run
  <2> QED BY <1>5, <2>1 DEF IsRead
<1>7. IsRead(Read(result, tables), result, tables)
  BY <1>6 DEF IsRead, Read, ReadStart
<1> DEFINE u == Read(result, tables)
<1>8. u[0] = ReadStart(tables) /\ \A n \in 1..N : u[n] = Item(u[n - 1], Located(result.items[n], result.pages))
  BY SMTT(20), <1>1, <1>7 DEF IsRead
<1>9. \A n \in 0..N : u[n] \in ReadState
  <2> HIDE DEF N, u
  <2>1. \A n \in 1..N : u[n - 1] \in ReadState => u[n] \in ReadState
    BY <1>2, <1>8
  <2> QED BY <1>1, <1>8, <2>1, LoopKeeps
<1> QED BY <1>8, <1>9

----------------------------------------------------------------------------
(* Section paths: cur[i] is the section after element i, which a heading   *)
(* changes and every element but a title carries.  An element whose first  *)
(* page is not known has no last page either.                              *)
Sections(cur, elements) ==
  /\ cur \in [0..Len(elements) -> Seq(Text)]
  /\ cur[0] = <<>>
  /\ \A i \in 1..Len(elements) :
       /\ cur[i] = IF elements[i].level > 0 THEN Nested(cur[i - 1], elements[i].level, elements[i].text)
                   ELSE cur[i - 1]
       /\ elements[i].type # "title" => elements[i].path = cur[i]
       /\ elements[i].start = 0 => elements[i].end = 0
Follows(elements, last) == \E cur : Sections(cur, elements) /\ cur[Len(elements)] = last

(* Without elements there is nothing to follow. *)
LEMMA NothingFollows == Follows(<<>>, <<>>)
<1> DEFINE cur == [n \in 0..0 |-> <<>>]
<1>1. <<>> \in Seq(Text) /\ Len(<<>>) = 0
  OBVIOUS
<1>2. cur \in [0..0 -> Seq(Text)] /\ cur[0] = <<>>
  BY <1>1
<1> HIDE DEF cur
<1>3. Sections(cur, <<>>) /\ cur[Len(<<>>)] = <<>>
  BY <1>1, <1>2 DEF Sections
<1> QED BY <1>3 DEF Follows

(* An element with the section it stands in, or the one it begins.         *)
LEMMA FollowsAppend ==
  ASSUME NEW elements \in Seq(ElementType), NEW last \in Seq(Text), Follows(elements, last),
         NEW e \in ElementType, NEW path \in Seq(Text),
         path = IF e.level > 0 THEN Nested(last, e.level, e.text) ELSE last,
         e.type # "title" => e.path = path, e.start = 0 => e.end = 0
  PROVE  Follows(Append(elements, e), path)
<1>1. PICK cur : Sections(cur, elements) /\ cur[Len(elements)] = last
  BY DEF Follows
<1> DEFINE N == Len(elements)
<1>2. PICK both : both = Append(elements, e)
  OBVIOUS
<1>3. PICK new : new = [n \in 0..(N + 1) |-> IF n = N + 1 THEN path ELSE cur[n]]
  OBVIOUS
<1>4. N \in Nat /\ Len(both) = N + 1 /\ both[N + 1] = e /\ \A i \in 1..N : both[i] = elements[i]
  BY <1>2
<1> HIDE DEF N
<1>5. cur \in [0..N -> Seq(Text)] /\ cur[0] = <<>> /\ cur[N] = last
  BY <1>1 DEF Sections, N
<1>6. \A n \in 0..N : new[n] = cur[n] /\ new[n] \in Seq(Text)
  BY <1>3, <1>4, <1>5
<1>7. new[N + 1] = path
  BY <1>3, <1>4
<1>8. new \in [0..(N + 1) -> Seq(Text)]
  BY <1>3, <1>4, <1>5
<1>9. ASSUME NEW i \in 1..(N + 1)
      PROVE  /\ new[i] = IF both[i].level > 0 THEN Nested(new[i - 1], both[i].level, both[i].text)
                         ELSE new[i - 1]
             /\ both[i].type # "title" => both[i].path = new[i]
             /\ both[i].start = 0 => both[i].end = 0
  <2>1. CASE i = N + 1
    <3>1. i - 1 = N /\ N \in 0..N /\ both[i] = e /\ new[i] = path BY <1>4, <1>7, <2>1
    <3>2. new[i - 1] = last BY <1>5, <1>6, <3>1
    <3> QED BY <3>1, <3>2
  <2>2. CASE i # N + 1
    <3>1. i \in 1..N /\ i \in 0..N /\ i - 1 \in 0..N BY <1>4, <2>2
    <3>2. both[i] = elements[i] /\ new[i] = cur[i] /\ new[i - 1] = cur[i - 1] BY <1>4, <1>6, <3>1
    <3> QED BY <1>1, <3>1, <3>2 DEF Sections, N
  <2> QED BY <2>1, <2>2
<1>10. 0 \in 0..N /\ new[0] = <<>>
  <2>1. 0 \in 0..N BY <1>4
  <2> QED BY <1>5, <1>6, <2>1
<1>11. Sections(new, both)
  <2>1. new \in [0..Len(both) -> Seq(Text)] BY <1>4, <1>8
  <2>2. \A i \in 1..Len(both) :
          /\ new[i] = IF both[i].level > 0 THEN Nested(new[i - 1], both[i].level, both[i].text)
                      ELSE new[i - 1]
          /\ both[i].type # "title" => both[i].path = new[i]
          /\ both[i].start = 0 => both[i].end = 0
    <3>1. Len(both) = N + 1 BY <1>4
    <3> QED BY <1>9, <3>1
  <2> QED BY <1>10, <2>1, <2>2 DEF Sections
<1> QED BY <1>2, <1>4, <1>7, <1>11 DEF Follows

(* The loops keep that. *)
LEMMA AddParagraphFollows ==
  ASSUME NEW acc \in TextState, Follows(acc.elements, acc.path)
  PROVE  /\ Follows(AddParagraph(acc).elements, acc.path)
         /\ AddParagraph(acc).path = acc.path
<1>1. /\ acc.elements \in Seq(ElementType) /\ acc.path \in Seq(Text) /\ acc.lines \in Seq(Text)
  BY DEF TextState
<1>2. CASE acc.lines = <<>>
  BY <1>2 DEF AddParagraph
<1>3. CASE acc.lines # <<>>
  <2>1. PICK e : e = Element("paragraph", Joined(acc.lines), acc.path, 0)
    OBVIOUS
  <2>2. e \in ElementType
    BY <1>1, <2>1, JoinedType, ElementIsTyped
  <2>3. e.level = 0 /\ e.path = acc.path /\ e.end = 0
    BY <2>1 DEF Element
  <2>4. Follows(Append(acc.elements, e), acc.path)
    BY <1>1, <2>2, <2>3, FollowsAppend
  <2>5. \A es, ls : [acc EXCEPT !.elements = es, !.lines = ls].elements = es
    BY DEF TextState
  <2>6. \A es, ls : [acc EXCEPT !.elements = es, !.lines = ls].path = acc.path
    BY DEF TextState
  <2>7. AddParagraph(acc) = [acc EXCEPT !.elements = Append(acc.elements, e), !.lines = <<>>]
    BY <1>3, <2>1 DEF AddParagraph
  <2> QED BY <2>4, <2>5, <2>6, <2>7
<1> QED BY <1>2, <1>3

(* A line of Markdown puts its element into the current section. *)
LEMMA TextLineFollows ==
  ASSUME NEW acc \in TextState, NEW line \in MarkdownLine, Follows(acc.elements, acc.path)
  PROVE  Follows(TextLine(acc, line).elements, TextLine(acc, line).path)
<1>1. line.kind \in {"blank", "text", "heading"} /\ line.text \in Text /\ line.level \in Nat
  BY DEF MarkdownLine, LineType
<1>2. PICK closed \in TextState : closed = AddParagraph(acc)
  BY AddParagraphType
<1>3. Follows(closed.elements, acc.path) /\ closed.path = acc.path
  BY <1>2, AddParagraphFollows
<1>4. acc.path \in Seq(Text) /\ closed.elements \in Seq(ElementType)
  BY DEF TextState
<1>5. CASE line.kind = "heading"
  <2>1. line.level \in Nat \ {0}
    BY <1>1, <1>5 DEF MarkdownLine
  <2>2. PICK path \in Seq(Text) : path = Nested(acc.path, line.level, line.text)
    BY <1>1, <1>4, <2>1, NestedType
  <2>3. PICK e \in ElementType : e = Element("heading", line.text, path, line.level)
    BY <1>1, <2>2, ElementIsTyped
  <2>4. e.level = line.level /\ e.path = path /\ e.text = line.text /\ e.end = 0
    BY <2>3 DEF Element
  <2>5. Follows(Append(closed.elements, e), path)
    BY <1>3, <1>4, <2>1, <2>2, <2>4, FollowsAppend
  <2>6. \A es, ps : /\ [closed EXCEPT !.path = ps, !.elements = es].elements = es
                    /\ [closed EXCEPT !.path = ps, !.elements = es].path = ps
    BY DEF TextState
  <2>7. TextLine(acc, line) = [closed EXCEPT !.path = path, !.elements = Append(closed.elements, e)]
    BY <1>2, <1>5, <2>2, <2>3 DEF TextLine
  <2> QED BY <2>5, <2>6, <2>7
<1>6. CASE line.kind = "text"
  <2>1. \A l : /\ [acc EXCEPT !.lines = l].elements = acc.elements
               /\ [acc EXCEPT !.lines = l].path = acc.path
    BY DEF TextState
  <2> QED BY <1>6, <2>1 DEF TextLine
<1>7. CASE line.kind = "blank"
  BY <1>2, <1>3, <1>7 DEF TextLine
<1> QED BY <1>1, <1>5, <1>6, <1>7

(* So does a child of a Word body. *)
LEMMA DocxChildFollows ==
  ASSUME NEW acc \in DocxState, NEW child \in DocxBody, Follows(acc.elements, acc.path)
  PROVE  Follows(DocxChild(acc, child).elements, DocxChild(acc, child).path)
<1>1. /\ child.kind \in {"blank", "text", "heading", "title", "table"}
      /\ child.text \in Text /\ child.level \in Nat
  BY DEF DocxBody, LineType
<1>2. acc.path \in Seq(Text) /\ acc.elements \in Seq(ElementType) /\ <<>> \in Seq(Text)
  BY DEF DocxState
<1>3. \A es : [acc EXCEPT !.elements = es].elements = es /\ [acc EXCEPT !.elements = es].path = acc.path
  BY DEF DocxState
<1>4. CASE child.kind = "heading"
  <2>1. child.level \in Nat \ {0}
    BY <1>1, <1>4 DEF DocxBody
  <2>2. PICK path \in Seq(Text) : path = Nested(acc.path, child.level, child.text)
    BY <1>1, <1>2, <2>1, NestedType
  <2>3. PICK e \in ElementType : e = Element("heading", child.text, path, child.level)
    BY <1>1, <2>2, ElementIsTyped
  <2>4. e.level = child.level /\ e.path = path /\ e.text = child.text /\ e.end = 0
    BY <2>3 DEF Element
  <2>5. Follows(Append(acc.elements, e), path)
    BY <1>2, <2>1, <2>2, <2>4, FollowsAppend
  <2>6. \A es, ps : /\ [[acc EXCEPT !.elements = es] EXCEPT !.path = ps].elements = es
                    /\ [[acc EXCEPT !.elements = es] EXCEPT !.path = ps].path = ps
    BY DEF DocxState
  <2>7. DocxChild(acc, child) = [[acc EXCEPT !.elements = Append(acc.elements, e)] EXCEPT !.path = path]
    BY <1>4, <2>2, <2>3 DEF DocxChild
  <2> QED BY <2>5, <2>6, <2>7
<1>5. ASSUME NEW type \in {"title", "paragraph", "table"}, NEW path \in Seq(Text),
             type # "title" => path = acc.path,
             DocxChild(acc, child) = [acc EXCEPT !.elements = Append(acc.elements, Element(type, child.text, path, 0))]
      PROVE  Follows(DocxChild(acc, child).elements, DocxChild(acc, child).path)
  <2>1. PICK e \in ElementType : e = Element(type, child.text, path, 0)
    BY <1>1, ElementIsTyped
  <2>2. e.level = 0 /\ e.path = path /\ e.type = type /\ e.end = 0
    BY <2>1 DEF Element
  <2>3. Follows(Append(acc.elements, e), acc.path)
    BY <1>2, <1>5, <2>2, FollowsAppend
  <2> QED BY <1>3, <1>5, <2>1, <2>3
<1>6. CASE child.kind = "title"
  <2>1. DocxChild(acc, child) = [acc EXCEPT !.elements = Append(acc.elements, Element("title", child.text, <<>>, 0))]
    BY <1>6 DEF DocxChild
  <2> QED BY <1>2, <1>5, <2>1
<1>7. CASE child.kind = "text"
  <2>1. DocxChild(acc, child) = [acc EXCEPT !.elements = Append(acc.elements, Element("paragraph", child.text, acc.path, 0))]
    BY <1>7 DEF DocxChild
  <2> QED BY <1>2, <1>5, <2>1
<1>8. CASE child.kind = "table"
  <2>1. DocxChild(acc, child) = [acc EXCEPT !.elements = Append(acc.elements, Element("table", child.text, acc.path, 0))]
    BY <1>8 DEF DocxChild
  <2> QED BY <1>2, <1>5, <2>1
<1>9. CASE child.kind = "blank"
  BY <1>9 DEF DocxChild
<1> QED BY <1>1, <1>4, <1>6, <1>7, <1>8, <1>9

(* And a sheet of a workbook, which has no sections. *)
LEMMA SheetStepFollows ==
  ASSUME NEW elements \in Seq(ElementType), NEW sheet \in Text, Follows(elements, <<>>)
  PROVE  Follows(SheetStep(elements, sheet), <<>>)
<1>1. <<>> \in Seq(Text)
  OBVIOUS
<1>2. PICK e \in ElementType : e = Element("table", sheet, <<>>, 0)
  BY <1>1, ElementIsTyped
<1>3. e.level = 0 /\ e.path = <<>> /\ e.end = 0
  BY <1>2 DEF Element
<1>4. PICK path \in Seq(Text) : path = <<>>
  BY <1>1
<1>5. Follows(Append(elements, e), path)
  <2>1. Follows(elements, path) BY <1>4
  <2>2. e.level = 0 /\ e.path = path /\ e.end = 0 BY <1>3, <1>4
  <2> QED BY <2>1, <2>2, FollowsAppend
<1> QED BY <1>2, <1>4, <1>5 DEF SheetStep

(* And an item of a Docling result. *)
LEMMA ItemFollows ==
  ASSUME NEW acc \in ReadState, NEW item \in ItemType, Follows(acc.elements, acc.path)
  PROVE  Follows(Item(acc, item).elements, Item(acc, item).path)
<1>1. acc.elements \in Seq(ElementType) /\ acc.path \in Seq(Text)
  BY DEF ReadState
<1>2. Item(acc, item) \in ReadState /\ Item(acc, item).path = PathAfter(acc, item)
  BY ItemStep
<1>3. PathAfter(acc, item) \in Seq(Text)
  BY <1>2 DEF ReadState
<1>4. CASE TextOf(acc, item) = <<>>
  <2>1. PathAfter(acc, item) = acc.path BY <1>4 DEF PathAfter
  <2>2. Item(acc, item).elements = acc.elements BY <1>4, ItemStep
  <2> QED BY <1>2, <2>1, <2>2
<1>5. CASE TextOf(acc, item) # <<>>
  <2>1. PICK e \in ElementType : e = ElementOf(acc, item)
    BY ItemStep
  <2>2. /\ e.level = IF Type(item.label) = "heading" THEN Bigger(1, item.level) ELSE 0
        /\ e.type = Type(item.label) /\ e.text = TextOf(acc, item)
        /\ e.path = IF Type(item.label) = "title" THEN <<>> ELSE PathAfter(acc, item)
        /\ e.start = SpanStart(item) /\ e.end = SpanEnd(item)
    BY <2>1 DEF ElementOf
  <2>3. Bigger(1, item.level) > 0
    BY DEF Bigger, ItemType
  <2>4. PathAfter(acc, item) = IF e.level > 0 THEN Nested(acc.path, e.level, e.text) ELSE acc.path
    BY <1>5, <2>2, <2>3 DEF PathAfter
  <2>5. Follows(Append(acc.elements, e), PathAfter(acc, item))
    <3>1. e.start = 0 => e.end = 0 BY <2>2, SpanType
    <3> QED BY <1>1, <1>3, <2>2, <2>4, <3>1, FollowsAppend
  <2>6. Item(acc, item).elements = Append(acc.elements, e)
    BY <1>5, <2>1, ItemStep
  <2> QED BY <1>2, <2>5, <2>6
<1> QED BY <1>4, <1>5

----------------------------------------------------------------------------
(* The documents the parsers return *)
DocumentType == [pages : Nat, elements : Seq(ElementType), warnings : SUBSET Warnings]
Written(elements) == \A i \in DOMAIN elements : elements[i].text # <<>>
Sound(d) == d \in DocumentType /\ Written(d.elements) /\ \E last : Follows(d.elements, last)

(* A document without elements has none without text. *)
LEMMA NothingWritten == Written(<<>>)
BY DEF Written

(* What ParsedDocument accepts: texts that are not empty, on pages that    *)
(* exist.                                                                  *)
LEMMA DocumentIs ==
  ASSUME NEW pages \in Nat, NEW elements \in Seq(ElementType), Document(pages, elements) # None
  PROVE  /\ Document(pages, elements) = [pages |-> pages, elements |-> elements, warnings |-> {}]
         /\ Document(pages, elements) \in DocumentType
         /\ Written(elements)
         /\ \A i \in DOMAIN elements : elements[i].end <= pages
<1>1. (\A i \in DOMAIN elements : ~(elements[i].end > pages)) /\ Written(elements)
  BY DEF Document, Written
<1>2. \A i \in DOMAIN elements : elements[i].end \in Nat
  <2>1. \A i \in DOMAIN elements : elements[i] \in ElementType OBVIOUS
  <2> QED BY <2>1 DEF ElementType
<1>3. Document(pages, elements) = [pages |-> pages, elements |-> elements, warnings |-> {}]
  BY DEF Document
<1>4. [pages |-> pages, elements |-> elements, warnings |-> {}] \in DocumentType
  BY DEF DocumentType
<1> QED BY <1>1, <1>2, <1>3, <1>4

(* A document that ParsedDocument accepts is sound if its elements follow  *)
(* their headings.                                                         *)
LEMMA DocumentIsSound ==
  ASSUME NEW pages \in Nat, NEW elements \in Seq(ElementType), NEW last, Follows(elements, last),
         Document(pages, elements) # None
  PROVE  Sound(Document(pages, elements))
<1>1. /\ Document(pages, elements) = [pages |-> pages, elements |-> elements, warnings |-> {}]
      /\ Document(pages, elements) \in DocumentType /\ Written(elements)
  BY DocumentIs
<1>2. Document(pages, elements).elements = elements
  BY <1>1
<1> QED BY <1>1, <1>2 DEF Sound

(* Markdown and text files give sound documents. *)
LEMMA TextDocumentIsSound ==
  ASSUME NEW lines \in Seq(MarkdownLine), TextDocument(lines) # None
  PROVE  Sound(TextDocument(lines))
<1> DEFINE acc == TextRead(lines)
           S == {a \in TextState : Follows(a.elements, a.path)}
<1>1. Len(lines) \in Nat /\ \A n \in 1..Len(lines) : lines[n] \in MarkdownLine
  OBVIOUS
<1>2. acc[0] \in S
  <2>1. TextStart.elements = <<>> /\ TextStart.path = <<>> BY DEF TextStart
  <2>2. TextStart \in TextState BY DEF TextStart, TextState
  <2> QED BY <2>1, <2>2, TextReadRuns, NothingFollows
<1>3. \A n \in 1..Len(lines) : acc[n - 1] \in S => acc[n] \in S
  <2> SUFFICES ASSUME NEW n \in 1..Len(lines), acc[n - 1] \in S PROVE acc[n] \in S
    OBVIOUS
  <2>1. acc[n] = TextLine(acc[n - 1], lines[n]) BY TextReadRuns
  <2> HIDE DEF acc
  <2> QED BY <1>1, <2>1, TextLineType, TextLineFollows
<1>4. acc[Len(lines)] \in S
  <2> HIDE DEF acc, S
  <2>1. Len(lines) \in 0..Len(lines) BY <1>1
  <2> QED BY <1>1, <1>2, <1>3, <2>1, LoopKeeps
<1>5. PICK a \in TextState : a = acc[Len(lines)] /\ Follows(a.elements, a.path)
  BY <1>4
<1>6. Follows(AddParagraph(a).elements, a.path)
  BY <1>5, AddParagraphFollows
<1>7. AddParagraph(a).elements \in Seq(ElementType)
  BY AddParagraphType DEF TextState
<1>8. TextDocument(lines) = Document(0, AddParagraph(a).elements)
  BY <1>5 DEF TextDocument
<1>9. 0 \in Nat OBVIOUS
<1> QED BY <1>6, <1>7, <1>8, <1>9, DocumentIsSound

(* Word files give sound documents. *)
LEMMA DocxDocumentIsSound ==
  ASSUME NEW body \in Seq(DocxBody), DocxDocument(body) # None
  PROVE  Sound(DocxDocument(body))
<1> DEFINE acc == DocxRead(body)
           S == {a \in DocxState : Follows(a.elements, a.path)}
<1>1. Len(body) \in Nat /\ \A n \in 1..Len(body) : body[n] \in DocxBody
  OBVIOUS
<1>2. acc[0] \in S
  <2>1. DocxStart.elements = <<>> /\ DocxStart.path = <<>> BY DEF DocxStart
  <2>2. DocxStart \in DocxState BY DEF DocxStart, DocxState
  <2> QED BY <2>1, <2>2, DocxReadRuns, NothingFollows
<1>3. \A n \in 1..Len(body) : acc[n - 1] \in S => acc[n] \in S
  <2> SUFFICES ASSUME NEW n \in 1..Len(body), acc[n - 1] \in S PROVE acc[n] \in S
    OBVIOUS
  <2>1. acc[n] = DocxChild(acc[n - 1], body[n]) BY DocxReadRuns
  <2> HIDE DEF acc
  <2> QED BY <1>1, <2>1, DocxChildType, DocxChildFollows
<1>4. acc[Len(body)] \in S
  <2> HIDE DEF acc, S
  <2>1. Len(body) \in 0..Len(body) BY <1>1
  <2> QED BY <1>1, <1>2, <1>3, <2>1, LoopKeeps
<1>5. PICK a \in DocxState : a = acc[Len(body)] /\ Follows(a.elements, a.path)
  BY <1>4
<1>6. a.elements \in Seq(ElementType)
  BY DEF DocxState
<1>7. DocxDocument(body) = Document(0, a.elements)
  BY <1>5 DEF DocxDocument
<1>8. 0 \in Nat OBVIOUS
<1> QED BY <1>5, <1>6, <1>7, <1>8, DocumentIsSound

(* Workbooks give sound documents. *)
LEMMA XlsxDocumentIsSound ==
  ASSUME NEW sheets \in Seq(Text), XlsxDocument(sheets) # None
  PROVE  Sound(XlsxDocument(sheets))
<1> DEFINE acc == SheetsRead(sheets)
           S == {a \in Seq(ElementType) : Follows(a, <<>>)}
<1>1. Len(sheets) \in Nat /\ \A n \in 1..Len(sheets) : sheets[n] \in Text
  OBVIOUS
<1>2. acc[0] \in S
  <2>1. <<>> \in Seq(ElementType) OBVIOUS
  <2> QED BY <2>1, SheetsReadRuns, NothingFollows
<1>3. \A n \in 1..Len(sheets) : acc[n - 1] \in S => acc[n] \in S
  <2> SUFFICES ASSUME NEW n \in 1..Len(sheets), acc[n - 1] \in S PROVE acc[n] \in S
    OBVIOUS
  <2>1. acc[n] = SheetStep(acc[n - 1], sheets[n]) BY SheetsReadRuns
  <2> HIDE DEF acc
  <2> QED BY <1>1, <2>1, SheetStepType, SheetStepFollows
<1>4. acc[Len(sheets)] \in S
  <2> HIDE DEF acc, S
  <2>1. Len(sheets) \in 0..Len(sheets) BY <1>1
  <2> QED BY <1>1, <1>2, <1>3, <2>1, LoopKeeps
<1>5. PICK a \in Seq(ElementType) : a = acc[Len(sheets)] /\ Follows(a, <<>>)
  BY <1>4
<1>6. XlsxDocument(sheets) = Document(0, a)
  BY <1>5 DEF XlsxDocument
<1>7. 0 \in Nat OBVIOUS
<1> QED BY <1>5, <1>6, <1>7, DocumentIsSound

(* One paragraph a page, which is where it starts and ends.                *)
PageParagraph(page, n) == [Element("paragraph", page.text, <<>>, 0) EXCEPT !.start = n, !.end = n]
PageParagraphs(pages) == [n \in DOMAIN pages |-> PageParagraph(pages[n], n)]

(* The paragraph of a page of a clean PDF is well formed and on this page. *)
LEMMA PageParagraphIs ==
  ASSUME NEW page \in PageType, NEW n \in Nat
  PROVE  /\ PageParagraph(page, n) \in ElementType
         /\ PageParagraph(page, n).start = n /\ PageParagraph(page, n).end = n
         /\ PageParagraph(page, n).level = 0 /\ PageParagraph(page, n).path = <<>>
         /\ ~PageParagraph(page, n).native
<1>1. PICK e \in ElementType : e = Element("paragraph", page.text, <<>>, 0)
  <2>1. <<>> \in Seq(Text) /\ page.text \in Text BY DEF PageType
  <2> QED BY <2>1, ElementIsTyped
<1>2. e.level = 0 /\ e.path = <<>> /\ ~e.native
  BY <1>1 DEF Element
<1>3. [e EXCEPT !.start = n, !.end = n] \in ElementType
  BY DEF ElementType
<1>4. /\ [e EXCEPT !.start = n, !.end = n].start = n
      /\ [e EXCEPT !.start = n, !.end = n].end = n
      /\ [e EXCEPT !.start = n, !.end = n].level = e.level
      /\ [e EXCEPT !.start = n, !.end = n].path = e.path
      /\ [e EXCEPT !.start = n, !.end = n].native = e.native
  BY DEF ElementType
<1> QED BY <1>1, <1>2, <1>3, <1>4 DEF PageParagraph

(* A clean PDF has one paragraph for each page. *)
LEMMA PageParagraphsAre ==
  ASSUME NEW pages \in Seq(PageType)
  PROVE  /\ PageParagraphs(pages) \in Seq(ElementType)
         /\ Len(PageParagraphs(pages)) = Len(pages)
         /\ \A n \in 1..Len(pages) : PageParagraphs(pages)[n] = PageParagraph(pages[n], n)
         /\ Follows(PageParagraphs(pages), <<>>)
<1> DEFINE s == PageParagraphs(pages)
<1>1. DOMAIN pages = 1..Len(pages) /\ Len(pages) \in Nat
  OBVIOUS
<1>2. \A n \in 1..Len(pages) : pages[n] \in PageType /\ n \in Nat
  OBVIOUS
<1>3. \A n \in 1..Len(pages) : s[n] = PageParagraph(pages[n], n) /\ s[n] \in ElementType
  BY <1>1, <1>2, PageParagraphIs DEF PageParagraphs
<1>4. s \in [1..Len(pages) -> ElementType]
  <2>1. s = [n \in 1..Len(pages) |-> s[n]] BY <1>1 DEF PageParagraphs
  <2> HIDE DEF s
  <2> QED BY <1>3, <2>1
<1> HIDE DEF s
<1>5. s \in Seq(ElementType) /\ Len(s) = Len(pages)
  BY <1>1, <1>4
<1>6. PICK cur : cur = [n \in 0..Len(pages) |-> <<>>]
  OBVIOUS
<1>7. cur \in [0..Len(pages) -> Seq(Text)] /\ \A n \in 0..Len(pages) : cur[n] = <<>>
  <2>1. <<>> \in Seq(Text) OBVIOUS
  <2> QED BY <1>6, <2>1
<1>8. ASSUME NEW n \in 1..Len(pages)
      PROVE  /\ cur[n] = IF s[n].level > 0 THEN Nested(cur[n - 1], s[n].level, s[n].text) ELSE cur[n - 1]
             /\ s[n].type # "title" => s[n].path = cur[n]
             /\ s[n].start = 0 => s[n].end = 0
  <2>1. s[n].level = 0 /\ s[n].path = <<>> /\ s[n].start = n /\ s[n].end = n
    BY <1>2, <1>3, PageParagraphIs
  <2>2. n \in 0..Len(pages) /\ n - 1 \in 0..Len(pages) BY <1>1
  <2> QED BY <1>7, <2>1, <2>2
<1>9. 0 \in 0..Len(pages) /\ Len(pages) \in 0..Len(pages) BY <1>1
<1>10. Sections(cur, s) /\ cur[Len(s)] = <<>>
  BY <1>5, <1>7, <1>8, <1>9 DEF Sections
<1>11. Follows(s, <<>>)
  BY <1>10 DEF Follows
<1> QED BY <1>3, <1>5, <1>11 DEF s

(* Clean PDFs give sound documents of these paragraphs. *)
LEMMA PdfDocumentIsSound ==
  ASSUME NEW pages \in Seq(PageType), PdfDocument(pages) # None
  PROVE  /\ Sound(PdfDocument(pages))
         /\ PdfDocument(pages).elements = PageParagraphs(pages)
         /\ PdfDocument(pages).pages = Len(pages)
<1>1. PdfDocument(pages) = Document(Len(pages), PageParagraphs(pages))
  BY DEF PdfDocument, PageParagraphs, PageParagraph
<1>2. Len(pages) \in Nat OBVIOUS
<1>3. Sound(PdfDocument(pages))
  BY <1>1, <1>2, PageParagraphsAre, DocumentIsSound
<1>4. PdfDocument(pages) = [pages |-> Len(pages), elements |-> PageParagraphs(pages), warnings |-> {}]
  BY <1>1, <1>2, PageParagraphsAre, DocumentIs
<1> QED BY <1>3, <1>4

(* What Docling returns, mapped.                                           *)
LEMMA AssessedWarnings ==
  ASSUME NEW d \in DocumentType, NEW warnings \in SUBSET Warnings
  PROVE  /\ Assessed(d, warnings).warnings \in SUBSET Warnings
         /\ warnings \subseteq Assessed(d, warnings).warnings
BY DEF Assessed, Warnings

(* The verdict of evaluate_parse_quality: what has not failed has elements,*)
(* and without warnings all pages are covered.                             *)
LEMMA AssessedIs ==
  ASSUME NEW d, NEW warnings
  PROVE  /\ Assessed(d, warnings).status # "failed" =>
              /\ Assessed(d, warnings).status =
                   IF Assessed(d, warnings).warnings = {} THEN "passed" ELSE "review_required"
              /\ d.elements # <<>>
         /\ Assessed(d, warnings).warnings = {} => warnings = {} /\ d.pages = Cardinality(Covered(d))
<1> DEFINE all == warnings \union
             IF d.pages # Cardinality(Covered(d)) THEN {"missing_page_coverage"} ELSE {}
           status == IF "parser_exception" \in all \/ d.elements = <<>> THEN "failed"
                     ELSE IF all # {} THEN "review_required" ELSE "passed"
<1>1. Assessed(d, warnings) = [status |-> status, warnings |-> all]
  BY DEF Assessed
<1>2. Assessed(d, warnings).status = status /\ Assessed(d, warnings).warnings = all
  <2> HIDE DEF status, all
  <2> QED BY <1>1
<1>3. all = {} => warnings = {} /\ d.pages = Cardinality(Covered(d))
  OBVIOUS
<1> HIDE DEF all
<1> QED BY <1>2, <1>3

(* The elements of a Docling result follow its headings. *)
LEMMA ReadFollows ==
  ASSUME NEW result \in ResultType, NEW tables \in Seq(NativeTable)
  PROVE  /\ Read(result, tables)[Len(result.items)] \in ReadState
         /\ Follows(Read(result, tables)[Len(result.items)].elements, Read(result, tables)[Len(result.items)].path)
<1> DEFINE acc == Read(result, tables)
           S == {a \in ReadState : Follows(a.elements, a.path)}
<1>1. /\ Len(result.items) \in Nat /\ result.pages \in Nat
      /\ \A n \in 1..Len(result.items) : result.items[n] \in ItemType
  BY DEF ResultType
<1>2. acc[0] \in S
  <2>1. ReadStart(tables).elements = <<>> /\ ReadStart(tables).path = <<>> BY DEF ReadStart
  <2>2. ReadStart(tables) \in ReadState BY DEF ReadStart, ReadState
  <2> QED BY <2>1, <2>2, ReadRuns, NothingFollows
<1>3. \A n \in 1..Len(result.items) : acc[n - 1] \in S => acc[n] \in S
  <2> SUFFICES ASSUME NEW n \in 1..Len(result.items), acc[n - 1] \in S PROVE acc[n] \in S
    OBVIOUS
  <2>1. PICK item \in ItemType : item = Located(result.items[n], result.pages)
    BY <1>1, LocatedType
  <2>2. acc[n] = Item(acc[n - 1], item) BY <2>1, ReadRuns
  <2> HIDE DEF acc
  <2> QED BY <2>2, ItemStep, ItemFollows
<1>4. acc[Len(result.items)] \in S
  <2> HIDE DEF acc, S
  <2>1. Len(result.items) \in 0..Len(result.items) BY <1>1
  <2> QED BY <1>1, <1>2, <1>3, <2>1, LoopKeeps
<1> QED BY <1>4

(* What map_docling_result returns: the elements of its loop, and without a*)
(* warning a complete result.                                              *)
LEMMA MappedIs ==
  ASSUME NEW result \in ResultType, NEW tables \in Seq(NativeTable), NEW pages \in Nat,
         Mapped(result, tables, pages) # None
  PROVE  LET acc == Read(result, tables)[Len(result.items)]
             m == Mapped(result, tables, pages) IN
         /\ Sound(m)
         /\ m.elements = acc.elements
         /\ m.pages = pages
         /\ \A i \in DOMAIN m.elements : m.elements[i].end <= pages
         /\ m.warnings = {} =>
              /\ ~acc.incomplete /\ acc.tables = <<>>
              /\ result.status = "success" /\ result.pages = pages /\ ~result.timeout
<1> DEFINE acc == Read(result, tables)[Len(result.items)]
           d == Document(pages, acc.elements)
           incomplete == \/ acc.incomplete
                         \/ acc.tables # <<>>
                         \/ ContentOverlap(acc.recovered, acc.texts)
                         \/ result.status # "success" \/ result.pages # pages \/ result.timeout
           warned == IF incomplete THEN {Incomplete} ELSE {}
           m == Mapped(result, tables, pages)
<1>1. acc \in ReadState /\ Follows(acc.elements, acc.path)
  BY ReadFollows
<1>2. acc.elements \in Seq(ElementType)
  <2> HIDE DEF acc
  <2> QED BY <1>1 DEF ReadState
<1>3. d # None /\ m = [d EXCEPT !.warnings = Assessed(d, warned).warnings]
  <2> HIDE DEF ContentOverlap
  <2> QED BY DEF Mapped, Collected, Warned, Doubtful
<1> HIDE DEF acc, incomplete
<1>4. Sound(d) /\ d \in DocumentType
  BY <1>1, <1>2, <1>3, DocumentIsSound, DocumentIs
<1>5. d.elements = acc.elements /\ d.pages = pages /\ \A i \in DOMAIN acc.elements : acc.elements[i].end <= pages
  BY <1>2, <1>3, DocumentIs
<1>6. warned \in SUBSET Warnings
  BY DEF Warnings, Incomplete
<1>7. PICK w \in SUBSET Warnings : w = Assessed(d, warned).warnings /\ warned \subseteq w
  <2> HIDE DEF d, warned
  <2> QED BY <1>4, <1>6, AssessedWarnings
<1> HIDE DEF d
<1>8. /\ [d EXCEPT !.warnings = w] \in DocumentType
      /\ [d EXCEPT !.warnings = w].elements = d.elements
      /\ [d EXCEPT !.warnings = w].pages = d.pages
      /\ [d EXCEPT !.warnings = w].warnings = w
  BY <1>4 DEF DocumentType
<1>9. m = [d EXCEPT !.warnings = w]
  BY <1>3, <1>7
<1> HIDE DEF m
<1>10. Sound(m)
  BY <1>4, <1>8, <1>9 DEF Sound
<1>11. m.warnings = {} => ~incomplete
  BY <1>7, <1>8, <1>9
<1>12. m.warnings = {} =>
              /\ ~acc.incomplete /\ acc.tables = <<>>
              /\ result.status = "success" /\ result.pages = pages /\ ~result.timeout
  BY <1>11 DEF incomplete
<1> QED BY <1>5, <1>8, <1>9, <1>10, <1>12 DEF m, acc

(* What parse_docling_pdf returns: a mapped result, or a document that has *)
(* failed.                                                                 *)
LEMMA AdvancedIs ==
  ASSUME NEW pdf \in PdfType
  PROVE  /\ Sound(Advanced(pdf))
         /\ \/ /\ pdf.docling \in ResultType
               /\ Mapped(pdf.docling, NativeTables(pdf), Len(pdf.pages)) # None
               /\ Advanced(pdf) = Mapped(pdf.docling, NativeTables(pdf), Len(pdf.pages))
            \/ Advanced(pdf) = [pages |-> Len(pdf.pages), elements |-> <<>>, warnings |-> {"parser_exception"}]
<1>1. Len(pdf.pages) \in Nat /\ pdf.docling \in {None} \union ResultType /\ NativeTables(pdf) \in Seq(NativeTable)
  BY NativeTablesType DEF PdfType
<1> DEFINE failed == [pages |-> Len(pdf.pages), elements |-> <<>>, warnings |-> {"parser_exception"}]
           mapped == Mapped(pdf.docling, NativeTables(pdf), Len(pdf.pages))
<1>2. Sound(failed)
  <2>1. <<>> \in Seq(ElementType) OBVIOUS
  <2>2. failed \in DocumentType BY <1>1, <2>1 DEF DocumentType, Warnings
  <2>3. failed.elements = <<>> OBVIOUS
  <2> QED BY <2>2, <2>3, NothingFollows, NothingWritten DEF Sound
<1>3. CASE pdf.docling = None \/ mapped = None
  <2>1. Advanced(pdf) = failed BY <1>3 DEF Advanced
  <2> QED BY <1>2, <2>1
<1>4. CASE pdf.docling # None /\ mapped # None
  <2>1. Advanced(pdf) = mapped BY <1>4 DEF Advanced
  <2>2. pdf.docling \in ResultType BY <1>1, <1>4
  <2>3. Sound(mapped) BY <1>1, <1>4, <2>2, MappedIs
  <2> QED BY <1>4, <2>1, <2>2, <2>3
<1> QED BY <1>3, <1>4

(* The bodies of the files, and what is parsed of them.                    *)
LEMMA BodyIs ==
  ASSUME NEW f \in Files
  PROVE  /\ f.suffix = "md" => f.body \in Seq(MarkdownLine)
         /\ f.suffix = "docx" => f.body \in Seq(DocxBody)
         /\ f.suffix = "xlsx" => f.body \in Seq(Text)
         /\ f.suffix = "pdf" => f.body \in PdfType
<1>1. ASSUME f.suffix = "md" PROVE f.body \in Seq(MarkdownLine)
  <2>1. f.body \in Seq(LineType({"blank", "text", "heading"}))
    BY <1>1, FilesAssumption
  <2>2. \A n \in DOMAIN f.body : f.body[n].kind = "heading" => f.body[n].level > 0
    BY <1>1, FilesAssumption
  <2>3. \A n \in 1..Len(f.body) : f.body[n] \in MarkdownLine
    <3> DEFINE T == LineType({"blank", "text", "heading"})
    <3>1. f.body \in Seq(T) BY <2>1
    <3> HIDE DEF T
    <3>2. \A n \in 1..Len(f.body) : f.body[n] \in T /\ n \in DOMAIN f.body BY <3>1
    <3> QED BY <2>2, <3>2 DEF MarkdownLine, T
  <2>4. f.body = [n \in 1..Len(f.body) |-> f.body[n]] /\ Len(f.body) \in Nat
    BY <2>1
  <2> QED BY <2>3, <2>4
<1>2. ASSUME f.suffix = "docx" PROVE f.body \in Seq(DocxBody)
  <2>1. f.body \in Seq(LineType({"blank", "text", "heading", "title", "table"}))
    BY <1>2, FilesAssumption
  <2>2. \A n \in DOMAIN f.body : f.body[n].kind = "heading" => f.body[n].level > 0
    BY <1>2, FilesAssumption
  <2>3. \A n \in 1..Len(f.body) : f.body[n] \in DocxBody
    <3> DEFINE T == LineType({"blank", "text", "heading", "title", "table"})
    <3>1. f.body \in Seq(T) BY <2>1
    <3> HIDE DEF T
    <3>2. \A n \in 1..Len(f.body) : f.body[n] \in T /\ n \in DOMAIN f.body BY <3>1
    <3> QED BY <2>2, <3>2 DEF DocxBody, T
  <2>4. f.body = [n \in 1..Len(f.body) |-> f.body[n]] /\ Len(f.body) \in Nat
    BY <2>1
  <2> QED BY <2>3, <2>4
<1> QED BY <1>1, <1>2, FilesAssumption

(* PDFs give sound documents, whatever their route. *)
LEMMA ParsedPdfIsSound ==
  ASSUME NEW pdf \in PdfType, ParsedPdf(pdf) # None
  PROVE  Sound(ParsedPdf(pdf))
<1>1. Len(pdf.pages) \in Nat /\ pdf.pages \in Seq(PageType)
  BY DEF PdfType
<1>2. CASE Inspected(pdf) \in {"invalid_pdf", "zero_pages"}
  BY <1>2 DEF ParsedPdf
<1>3. CASE Inspected(pdf) = "encrypted"
  <2> DEFINE locked == [pages |-> Len(pdf.pages), elements |-> <<>>, warnings |-> {"encrypted_input"}]
  <2>1. <<>> \in Seq(ElementType) OBVIOUS
  <2>2. locked \in DocumentType BY <1>1, <2>1 DEF DocumentType, Warnings
  <2>3. locked.elements = <<>> OBVIOUS
  <2>4. ParsedPdf(pdf) = locked BY <1>3 DEF ParsedPdf
  <2> QED BY <2>2, <2>3, <2>4, NothingFollows, NothingWritten DEF Sound
<1>4. CASE Inspected(pdf) = "clean_text"
  <2>1. ParsedPdf(pdf) = PdfDocument(pdf.pages) BY <1>4 DEF ParsedPdf
  <2> QED BY <1>1, <2>1, PdfDocumentIsSound
<1>5. CASE Inspected(pdf) \notin {"invalid_pdf", "zero_pages", "encrypted", "clean_text"}
  <2>1. ParsedPdf(pdf) = Advanced(pdf) BY <1>5 DEF ParsedPdf
  <2> QED BY <2>1, AdvancedIs
<1> QED BY <1>2, <1>3, <1>4, <1>5

(* Every file that can be parsed gives a sound document. *)
LEMMA ParsedIsSound ==
  ASSUME NEW f \in Files, Parsed(f) # None
  PROVE  Sound(Parsed(f))
<1>1. CASE f.suffix = "md"
  <2>1. Parsed(f) = TextDocument(f.body) BY <1>1 DEF Parsed
  <2> QED BY <1>1, <2>1, BodyIs, TextDocumentIsSound
<1>2. CASE f.suffix = "docx"
  <2>1. Parsed(f) = DocxDocument(f.body) BY <1>2 DEF Parsed
  <2> QED BY <1>2, <2>1, BodyIs, DocxDocumentIsSound
<1>3. CASE f.suffix = "xlsx"
  <2>1. Parsed(f) = XlsxDocument(f.body) BY <1>3 DEF Parsed
  <2> QED BY <1>3, <2>1, BodyIs, XlsxDocumentIsSound
<1>4. CASE f.suffix = "pdf"
  <2>1. Parsed(f) = ParsedPdf(f.body) BY <1>4 DEF Parsed
  <2> QED BY <1>4, <2>1, BodyIs, ParsedPdfIsSound
<1>5. CASE f.suffix \notin {"md", "docx", "xlsx", "pdf"}
  BY <1>5 DEF Parsed
<1> QED BY <1>1, <1>2, <1>3, <1>4, <1>5

----------------------------------------------------------------------------
(* The letters of a text, and texts joined of lines. *)

(* Induction over sequences: a set that holds the empty one and with each  *)
(* sequence the longer ones holds all sequences.                           *)
LEMMA SeqInduction ==
  ASSUME NEW A, NEW S, <<>> \in S, \A q \in Seq(A), e \in A : q \in S => Append(q, e) \in S
  PROVE  \A q \in Seq(A) : q \in S
<1> SUFFICES ASSUME NEW s \in Seq(A) PROVE s \in S
  OBVIOUS
<1> DEFINE N == Len(s)
           T == {n \in 0..N : \A q \in Seq(A) : Len(q) = n => q \in S}
<1>1. N \in Nat
  OBVIOUS
<1>2. 0 \in T
  <2>1. \A q \in Seq(A) : Len(q) = 0 => q = <<>> OBVIOUS
  <2> QED BY <1>1, <2>1
<1>3. ASSUME NEW n \in 0..(N - 1), n \in T PROVE n + 1 \in T
  <2>1. ASSUME NEW q \in Seq(A), Len(q) = n + 1 PROVE q \in S
    <3>1. q # <<>> BY <2>1
    <3>2. PICK p \in Seq(A), e \in A : q = Append(p, e)
      BY <3>1, SequenceEmptyOrAppend
    <3>3. Len(p) = n
      <4>1. Len(q) = Len(p) + 1 /\ Len(p) \in Nat BY <3>2, AppendProperties
      <4> QED BY <2>1, <4>1
    <3> QED BY <1>3, <3>2, <3>3
  <2>2. n + 1 \in 0..N BY <1>1
  <2> QED BY <2>1, <2>2
<1>4. N \in T
  <2>1. \A n \in 0..N : n \in T
    <3> HIDE DEF T, N
    <3> QED BY <1>1, <1>2, <1>3, SetInduction
  <2> QED BY <1>1, <2>1
<1> QED BY <1>4

Letter(c) == IF c = "/" THEN <<>> ELSE <<c>>
Spells(f, s) ==
  /\ f[0] = <<>>
  /\ \A n \in 1..Len(s) : f[n] = IF s[n] = "/" THEN f[n - 1] ELSE Append(f[n - 1], s[n])
  /\ \A n \in 0..Len(s) : f[n] \in Text
  /\ Letters(s) = f[Len(s)]
IsLetters(f, s) ==
  f = [n \in 0..Len(s) |->
         IF n = 0 THEN <<>> ELSE IF s[n] = "/" THEN f[n - 1] ELSE Append(f[n - 1], s[n])]

(* Letters reads a text character by character. *)
LEMMA LettersSpelt ==
  ASSUME NEW s \in Text
  PROVE  \E f : Spells(f, s)
<1> DEFINE N == Len(s)
           g == [p \in Text \X (1..N) |-> IF s[p[2]] = "/" THEN p[1] ELSE Append(p[1], s[p[2]])]
<1>1. N \in Nat /\ <<>> \in Text /\ \A n \in 1..N : s[n] \in Char
  BY DEF Text
<1>2. \A t \in Text, n \in 1..N : (IF s[n] = "/" THEN t ELSE Append(t, s[n])) \in Text
  <2>1. \A t \in Text, c \in Char : Append(t, c) \in Text BY DEF Text
  <2> HIDE DEF N
  <2> QED BY <1>1, <2>1
<1>3. g \in [Text \X (1..N) -> Text]
  BY <1>2
<1>4. PICK f : Run(f, Text, <<>>, g, N)
  <2> HIDE DEF N, g
  <2> QED BY <1>1, <1>3, LoopRuns
<1>5. ASSUME NEW n \in 0..N
      PROVE  f[n] = IF n = 0 THEN <<>> ELSE IF s[n] = "/" THEN f[n - 1] ELSE Append(f[n - 1], s[n])
  <2>1. n # 0 => n - 1 \in 0..N /\ n \in 1..N BY <1>1
  <2>2. n # 0 => f[n - 1] \in Text BY <1>4, <2>1 DEF Run
  <2>3. f[n] = IF n = 0 THEN <<>> ELSE g[<<f[n - 1], n>>] BY <1>4 DEF Run
  <2> QED BY <2>1, <2>2, <2>3
<1>6. IsLetters(f, s)
  <2>1. f = [n \in 0..N |-> f[n]] BY <1>4 DEF Run
  <2> QED BY <1>5, <2>1 DEF IsLetters
<1>7. PICK u : IsLetters(u, s) /\ Letters(s) = u[N]
  BY <1>6, Zenon DEF IsLetters, Letters
<1>8. u[0] = <<>> /\ \A n \in 1..N : u[n] = IF s[n] = "/" THEN u[n - 1] ELSE Append(u[n - 1], s[n])
  <2>1. \A n \in 0..N : u[n] = IF n = 0 THEN <<>> ELSE IF s[n] = "/" THEN u[n - 1] ELSE Append(u[n - 1], s[n])
    BY <1>7, Zenon DEF IsLetters
  <2>2. 0 \in 0..N /\ \A n \in 1..N : n \in 0..N /\ n # 0
    BY <1>1
  <2> QED BY <2>1, <2>2
<1>9. \A n \in 0..N : u[n] \in Text
  <2> HIDE DEF N
  <2>1. \A n \in 1..N : u[n - 1] \in Text => u[n] \in Text
    BY <1>2, <1>8
  <2> QED BY <1>1, <1>8, <2>1, LoopKeeps
<1> QED BY <1>7, <1>8, <1>9 DEF Spells

(* The letters of a text are a text. *)
LEMMA LettersType ==
  ASSUME NEW s \in Text
  PROVE  Letters(s) \in Text
<1>1. PICK f : Spells(f, s) BY LettersSpelt
<1>2. Len(s) \in 0..Len(s) BY DEF Text
<1> QED BY <1>1, <1>2 DEF Spells

(* One character more adds itself, or nothing if it is a line feed. *)
LEMMA LettersAppend ==
  ASSUME NEW s \in Text, NEW c \in Char
  PROVE  Letters(Append(s, c)) = Letters(s) \o Letter(c)
<1> DEFINE N == Len(s)
<1>1. PICK t \in Text : /\ t = Append(s, c) /\ Len(t) = N + 1 /\ t[N + 1] = c /\ N \in Nat
                        /\ \A n \in 1..N : t[n] = s[n]
  <2>1. s \in Seq(Char) BY DEF Text
  <2>2. /\ Append(s, c) \in Seq(Char) /\ Len(Append(s, c)) = N + 1 /\ Append(s, c)[N + 1] = c /\ N \in Nat
        /\ \A n \in 1..N : Append(s, c)[n] = s[n]
    BY <2>1, AppendProperties
  <2> QED BY <2>2 DEF Text
<1>2. PICK f : Spells(f, s) BY LettersSpelt
<1>3. PICK g : Spells(g, t) BY LettersSpelt
<1> HIDE DEF N
<1> DEFINE S == {n \in 0..N : g[n] = f[n]}
<1>4. 0 \in S BY <1>1, <1>2, <1>3 DEF Spells
<1>5. ASSUME NEW n \in 0..(N - 1), n \in S PROVE n + 1 \in S
  <2>1. n + 1 \in 1..N /\ n + 1 \in 1..(N + 1) /\ (n + 1) - 1 = n /\ n + 1 \in 0..N BY <1>1
  <2>2. /\ f[n + 1] = IF s[n + 1] = "/" THEN f[n] ELSE Append(f[n], s[n + 1])
        /\ g[n + 1] = IF t[n + 1] = "/" THEN g[n] ELSE Append(g[n], t[n + 1])
    BY <1>1, <1>2, <1>3, <2>1 DEF Spells, N
  <2> QED BY <1>1, <1>5, <2>1, <2>2
<1>6. g[N] = f[N]
  <2>1. \A n \in 0..N : n \in S
    <3> HIDE DEF S
    <3> QED BY <1>1, <1>4, <1>5, SetInduction
  <2> QED BY <1>1, <2>1
<1>7. g[N + 1] = IF c = "/" THEN g[N] ELSE Append(g[N], c)
  <2>1. N + 1 \in 1..(N + 1) /\ (N + 1) - 1 = N BY <1>1
  <2> QED BY <1>1, <1>3, <2>1 DEF Spells
<1>8. f[N] \in Text /\ Letters(s) = f[N] /\ Letters(t) = g[N + 1]
  <2>1. N \in 0..N BY <1>1
  <2> QED BY <1>1, <1>2, <1>3, <2>1 DEF Spells, N
<1>9. Append(f[N], c) = f[N] \o <<c>> /\ f[N] \o <<>> = f[N]
  BY <1>8, AppendIsConcat, ConcatEmptySeq DEF Text
<1> QED BY <1>1, <1>6, <1>7, <1>8, <1>9 DEF Letter

(* Neither no text nor a line feed has letters. *)
LEMMA NoLetters == Letters(<<>>) = <<>> /\ <<>> \in Text /\ Letters(<<"/">>) = <<>>
<1>1. <<>> \in Text BY DEF Text
<1>2. PICK f : Spells(f, <<>>) BY <1>1, LettersSpelt
<1>3. Len(<<>>) = 0 OBVIOUS
<1>4. Letters(<<>>) = <<>> BY <1>2, <1>3 DEF Spells
<1>5. Append(<<>>, "/") = <<"/">> OBVIOUS
<1>6. <<>> \o <<>> = <<>> OBVIOUS
<1> QED BY <1>1, <1>4, <1>5, <1>6, LettersAppend, ChunkAssumption DEF Letter

(* The letters of a text are those of its parts. *)
LEMMA LettersConcat ==
  ASSUME NEW s \in Text, NEW t \in Text
  PROVE  Letters(s \o t) = Letters(s) \o Letters(t)
<1> DEFINE S == {q \in Text : Letters(s \o q) = Letters(s) \o Letters(q)}
<1>1. <<>> \in S
  <2>1. s \o <<>> = s /\ Letters(s) \o <<>> = Letters(s)
    BY LettersType, ConcatEmptySeq DEF Text
  <2> QED BY <2>1, NoLetters
<1>2. ASSUME NEW q \in Seq(Char), NEW c \in Char, q \in S PROVE Append(q, c) \in S
  <2>1. q \in Text /\ s \o q \in Text /\ Append(q, c) \in Text /\ s \in Seq(Char)
    BY DEF Text
  <2>2. s \o Append(q, c) = Append(s \o q, c)
    <3>1. Append(q, c) = q \o <<c>> /\ Append(s \o q, c) = (s \o q) \o <<c>>
      BY <2>1, AppendIsConcat DEF Text
    <3>2. <<c>> \in Seq(Char) OBVIOUS
    <3> QED BY <2>1, <3>1, <3>2, ConcatAssociative
  <2>3. Letters(s \o Append(q, c)) = (Letters(s) \o Letters(q)) \o Letter(c)
    BY <1>2, <2>1, <2>2, LettersAppend
  <2>4. Letter(c) \in Seq(Char) /\ Letters(s) \in Seq(Char) /\ Letters(q) \in Seq(Char)
    <3>1. <<c>> \in Seq(Char) /\ <<>> \in Seq(Char) OBVIOUS
    <3> QED BY <2>1, <3>1, LettersType DEF Letter, Text
  <2>5. Letters(s \o Append(q, c)) = Letters(s) \o (Letters(q) \o Letter(c))
    BY <2>3, <2>4, ConcatAssociative
  <2> QED BY <2>1, <2>5, LettersAppend
<1>3. \A q \in Seq(Char) : q \in S
  <2> HIDE DEF S
  <2> QED BY <1>1, <1>2, SeqInduction
<1> QED BY <1>3 DEF Text

----------------------------------------------------------------------------
(* What is flattened grows with each sequence that is added at the end. *)
IsFlat(f, seqs) ==
  f = [i \in 1..Len(seqs) |-> IF i = 1 THEN seqs[i] ELSE f[i - 1] \o seqs[i]]

Flattens(f, seqs, A) ==
  /\ FlattenSeq(seqs) = f[Len(seqs)]
  /\ f[1] = seqs[1]
  /\ \A i \in 2..Len(seqs) : f[i] = f[i - 1] \o seqs[i]
  /\ \A i \in 1..Len(seqs) : f[i] \in Seq(A)

(* Flattening joins its sequences one by one. *)
LEMMA FlattenIs ==
  ASSUME NEW A, NEW seqs \in Seq(Seq(A)), seqs # <<>>
  PROVE  \E f : Flattens(f, seqs, A)
<1> DEFINE N == Len(seqs)
           g == [p \in Seq(A) \X (1..N) |-> IF p[2] = 1 THEN seqs[1] ELSE p[1] \o seqs[p[2]]]
<1>1. N \in Nat \ {0} /\ <<>> \in Seq(A) /\ \A i \in 1..N : seqs[i] \in Seq(A)
  OBVIOUS
<1>2. \A s \in Seq(A), i \in 1..N : s \o seqs[i] \in Seq(A)
  <2>1. \A s, t \in Seq(A) : s \o t \in Seq(A) OBVIOUS
  <2> HIDE DEF N
  <2> QED BY <1>1, <2>1
<1>3. g \in [Seq(A) \X (1..N) -> Seq(A)]
  <2>1. 1 \in 1..N BY <1>1
  <2> QED BY <1>1, <1>2, <2>1
<1>4. PICK h : Run(h, Seq(A), <<>>, g, N)
  <2> HIDE DEF N, g
  <2> QED BY <1>1, <1>3, LoopRuns
<1>5. PICK f : f = [i \in 1..N |-> h[i]]
  OBVIOUS
<1>6. ASSUME NEW i \in 1..N PROVE f[i] = IF i = 1 THEN seqs[i] ELSE f[i - 1] \o seqs[i]
  <2>1. i - 1 \in 0..N /\ i \in 0..N /\ i # 0 BY <1>1
  <2>2. h[i - 1] \in Seq(A) /\ h[i] = g[<<h[i - 1], i>>] BY <1>4, <2>1 DEF Run
  <2>3. h[i] = IF i = 1 THEN seqs[i] ELSE h[i - 1] \o seqs[i] BY <2>2
  <2>4. i # 1 => i - 1 \in 1..N BY <1>1
  <2> QED BY <1>5, <2>3, <2>4
<1>7. IsFlat(f, seqs)
  <2>1. f = [i \in 1..N |-> f[i]] BY <1>5
  <2> QED BY <1>6, <2>1 DEF IsFlat
<1>8. PICK u : IsFlat(u, seqs) /\ FlattenSeq(seqs) = u[N]
  BY <1>1, <1>7 DEF IsFlat, FlattenSeq
<1>9. \A i \in 1..N : u[i] = IF i = 1 THEN seqs[i] ELSE u[i - 1] \o seqs[i]
  BY <1>8 DEF IsFlat
<1>10. u[1] = seqs[1] /\ \A i \in 2..N : u[i] = u[i - 1] \o seqs[i]
  <2>1. 1 \in 1..N /\ \A i \in 2..N : i \in 1..N /\ i # 1 BY <1>1
  <2> QED BY <1>9, <2>1
<1>11. \A i \in 1..N : u[i] \in Seq(A)
  <2> DEFINE S == {i \in 0..N : i = 0 \/ u[i] \in Seq(A)}
  <2>1. 0 \in S BY <1>1
  <2>2. ASSUME NEW i \in 0..(N - 1), i \in S PROVE i + 1 \in S
    <3>1. i + 1 \in 1..N /\ (i + 1) - 1 = i /\ i + 1 \in 0..N BY <1>1
    <3>2. CASE i = 0
      BY <1>1, <1>10, <3>1, <3>2
    <3>3. CASE i # 0
      <4>1. u[i + 1] = u[i] \o seqs[i + 1]
        <5>1. i + 1 \in 2..N BY <1>1, <3>3
        <5> QED BY <1>10, <3>1, <5>1
      <4> QED BY <1>2, <2>2, <3>1, <3>3, <4>1
    <3> QED BY <3>2, <3>3
  <2>3. \A i \in 0..N : i \in S
    <3> HIDE DEF S, N
    <3> QED BY <1>1, <2>1, <2>2, SetInduction
  <2> QED BY <1>1, <2>3
<1> QED BY <1>8, <1>10, <1>11 DEF Flattens

(* Flattened sequences are a sequence of their elements. *)
LEMMA FlattenType ==
  ASSUME NEW A, NEW seqs \in Seq(Seq(A))
  PROVE  FlattenSeq(seqs) \in Seq(A) /\ (seqs = <<>> => FlattenSeq(seqs) = <<>>)
<1>1. CASE seqs = <<>>
  <2>1. Len(seqs) = 0 BY <1>1
  <2> QED BY <1>1, <2>1 DEF FlattenSeq
<1>2. CASE seqs # <<>>
  <2>1. Len(seqs) \in 1..Len(seqs) BY <1>2
  <2>2. PICK f : Flattens(f, seqs, A) BY <1>2, FlattenIs
  <2> QED BY <2>1, <2>2, <1>2 DEF Flattens
<1> QED BY <1>1, <1>2

(* One sequence more is flattened behind the others. *)
LEMMA FlattenNext ==
  ASSUME NEW A, NEW few \in Seq(Seq(A)), NEW more \in Seq(Seq(A)), Len(more) = Len(few) + 1,
         \A k \in 1..Len(few) : more[k] = few[k]
  PROVE  FlattenSeq(more) = FlattenSeq(few) \o more[Len(more)]
<1> DEFINE N == Len(few)
<1>1. N \in Nat /\ more # <<>> /\ more[N + 1] \in Seq(A)
  OBVIOUS
<1>2. PICK f : /\ FlattenSeq(more) = f[N + 1] /\ f[1] = more[1]
               /\ \A i \in 2..(N + 1) : f[i] = f[i - 1] \o more[i]
  <2>1. Len(more) = N + 1 OBVIOUS
  <2>2. PICK f : Flattens(f, more, A) BY <1>1, FlattenIs
  <2> HIDE DEF N
  <2> QED BY <2>1, <2>2 DEF Flattens
<1>3. CASE N = 0
  <2>1. few = <<>> BY <1>3
  <2>4. FlattenSeq(few) = <<>> BY <2>1, FlattenType
  <2>2. FlattenSeq(more) = more[1] /\ more[1] \in Seq(A) /\ Len(more) = 1 BY <1>1, <1>2, <1>3
  <2>3. <<>> \o more[1] = more[1] BY <2>2, ConcatEmptySeq
  <2>5. more[Len(more)] = more[1] BY <1>3
  <2> QED BY <2>2, <2>3, <2>4, <2>5
<1>4. CASE N # 0
  <2>1. few # <<>> BY <1>4
  <2>2. PICK h : /\ FlattenSeq(few) = h[N] /\ h[1] = few[1]
                 /\ \A i \in 2..N : h[i] = h[i - 1] \o few[i]
    <3>1. PICK h : Flattens(h, few, A) BY <2>1, FlattenIs
    <3> QED BY <3>1 DEF Flattens
  <2> DEFINE S == {i \in 0..N : i = 0 \/ f[i] = h[i]}
  <2> HIDE DEF N
  <2>3. 0 \in S BY <1>1
  <2>4. ASSUME NEW i \in 0..(N - 1), i \in S PROVE i + 1 \in S
    <3>1. i + 1 \in 1..N /\ (i + 1) - 1 = i /\ i + 1 \in 0..N BY <1>1
    <3>2. more[i + 1] = few[i + 1] BY <3>1 DEF N
    <3>3. CASE i = 0
      BY <1>2, <2>2, <3>1, <3>2, <3>3
    <3>4. CASE i # 0
      <4>1. i + 1 \in 2..N /\ i + 1 \in 2..(N + 1) BY <1>1, <3>4
      <4>2. f[i + 1] = f[i] \o more[i + 1] /\ h[i + 1] = h[i] \o few[i + 1] BY <1>2, <2>2, <3>1, <4>1
      <4>3. f[i] = h[i] BY <2>4, <3>4
      <4> QED BY <3>1, <3>2, <4>2, <4>3
    <3> QED BY <3>3, <3>4
  <2>5. \A i \in 0..N : i \in S
    <3> HIDE DEF S
    <3> QED BY <1>1, <2>3, <2>4, SetInduction
  <2>6. f[N] = h[N] BY <1>1, <1>4, <2>5
  <2>7. N + 1 \in 2..(N + 1) /\ (N + 1) - 1 = N BY <1>1, <1>4
  <2>8. f[N + 1] = f[N] \o more[N + 1] BY <1>2, <2>7
  <2>9. N + 1 = Len(more) BY DEF N
  <2> QED BY <1>2, <2>2, <2>6, <2>8, <2>9
<1> QED BY <1>3, <1>4

(* What is flattened of two sequences is what is flattened of each. *)
LEMMA FlattenAppend ==
  ASSUME NEW A, NEW seqs \in Seq(Seq(A)), NEW s \in Seq(A)
  PROVE  FlattenSeq(Append(seqs, s)) = FlattenSeq(seqs) \o s
<1>1. PICK more \in Seq(Seq(A)) :
        /\ more = Append(seqs, s) /\ Len(more) = Len(seqs) + 1 /\ more[Len(seqs) + 1] = s
        /\ \A k \in 1..Len(seqs) : more[k] = seqs[k]
  <2>1. /\ Append(seqs, s) \in Seq(Seq(A)) /\ Len(Append(seqs, s)) = Len(seqs) + 1
        /\ Append(seqs, s)[Len(seqs) + 1] = s
        /\ \A k \in 1..Len(seqs) : Append(seqs, s)[k] = seqs[k]
    BY AppendProperties
  <2> QED BY <2>1
<1>2. FlattenSeq(more) = FlattenSeq(seqs) \o more[Len(more)]
  BY <1>1, FlattenNext
<1> QED BY <1>1, <1>2

(* Flattening goes over concatenations. *)
LEMMA FlattenConcat ==
  ASSUME NEW A, NEW p \in Seq(Seq(A)), NEW q \in Seq(Seq(A))
  PROVE  FlattenSeq(p \o q) = FlattenSeq(p) \o FlattenSeq(q)
<1> DEFINE S == {s \in Seq(Seq(A)) : FlattenSeq(p \o s) = FlattenSeq(p) \o FlattenSeq(s)}
<1>0. <<>> \in Seq(Seq(A)) /\ FlattenSeq(p) \in Seq(A)
  BY FlattenType
<1>1. <<>> \in S
  <2>1. p \o <<>> = p BY ConcatEmptySeq
  <2>2. FlattenSeq(p) \o <<>> = FlattenSeq(p) BY <1>0, ConcatEmptySeq
  <2>3. FlattenSeq(<<>>) = <<>>
    <3>1. Len(<<>>) = 0 OBVIOUS
    <3> QED BY <3>1 DEF FlattenSeq
  <2> QED BY <1>0, <2>1, <2>2, <2>3
<1>2. ASSUME NEW s \in Seq(Seq(A)), NEW t \in Seq(A), s \in S PROVE Append(s, t) \in S
  <2>1. p \o s \in Seq(Seq(A)) /\ Append(s, t) \in Seq(Seq(A)) /\ FlattenSeq(s) \in Seq(A)
    BY ConcatProperties, AppendProperties, FlattenType
  <2>2. p \o Append(s, t) = Append(p \o s, t)
    <3>1. Append(s, t) = s \o <<t>> /\ Append(p \o s, t) = (p \o s) \o <<t>>
      BY <2>1, AppendIsConcat
    <3>2. <<t>> \in Seq(Seq(A)) OBVIOUS
    <3> QED BY <3>1, <3>2, ConcatAssociative
  <2>3. FlattenSeq(Append(p \o s, t)) = FlattenSeq(p \o s) \o t
    BY <2>1, FlattenAppend
  <2>4. FlattenSeq(Append(s, t)) = FlattenSeq(s) \o t
    BY FlattenAppend
  <2>5. (FlattenSeq(p) \o FlattenSeq(s)) \o t = FlattenSeq(p) \o (FlattenSeq(s) \o t)
    BY SMTT(20), <1>0, <2>1, ConcatAssociative
  <2> QED BY <1>2, <2>1, <2>2, <2>3, <2>4, <2>5
<1>3. \A s \in Seq(Seq(A)) : s \in S
  <2> HIDE DEF S
  <2> QED BY <1>1, <1>2, SeqInduction
<1> QED BY <1>3

(* The letters of several texts. *)
Told(texts) == FlattenSeq([k \in DOMAIN texts |-> Letters(texts[k])])

(* What some texts tell is a text. *)
LEMMA ToldType ==
  ASSUME NEW texts \in Seq(Text)
  PROVE  /\ Told(texts) \in Text
         /\ [k \in DOMAIN texts |-> Letters(texts[k])] \in Seq(Seq(Char))
         /\ Len([k \in DOMAIN texts |-> Letters(texts[k])]) = Len(texts)
<1>1. PICK n \in Nat : n = Len(texts) /\ DOMAIN texts = 1..n /\ \A k \in 1..n : texts[k] \in Text
  OBVIOUS
<1>2. \A k \in 1..n : Letters(texts[k]) \in Seq(Char)
  BY <1>1, LettersType DEF Text
<1>3. PICK f : f = [k \in DOMAIN texts |-> Letters(texts[k])]
  OBVIOUS
<1>4. f \in [1..n -> Seq(Char)]
  BY <1>1, <1>2, <1>3
<1>5. f \in Seq(Seq(Char)) /\ Len(f) = n
  BY <1>4
<1>6. FlattenSeq(f) \in Seq(Char)
  BY <1>5, FlattenType
<1> QED BY <1>1, <1>3, <1>5, <1>6 DEF Told, Text

(* No texts tell nothing. *)
LEMMA ToldNothing == Told(<<>>) = <<>>
<1>1. Len([k \in DOMAIN <<>> |-> Letters(<<>>[k])]) = 0 /\ <<>> \in Seq(Text)
  BY ToldType
<1>2. [k \in DOMAIN <<>> |-> Letters(<<>>[k])] \in Seq(Seq(Char))
  BY <1>1, ToldType
<1>3. [k \in DOMAIN <<>> |-> Letters(<<>>[k])] = <<>>
  BY <1>1, <1>2
<1> QED BY <1>3, FlattenType, <1>2 DEF Told

(* One text more tells its letters after the others. *)
LEMMA ToldAppend ==
  ASSUME NEW texts \in Seq(Text), NEW t \in Text
  PROVE  Told(Append(texts, t)) = Told(texts) \o Letters(t)
<1>1. PICK more \in Seq(Text) :
        /\ more = Append(texts, t) /\ Len(more) = Len(texts) + 1 /\ more[Len(texts) + 1] = t
        /\ \A k \in 1..Len(texts) : more[k] = texts[k]
  <2>1. /\ Append(texts, t) \in Seq(Text) /\ Len(Append(texts, t)) = Len(texts) + 1
        /\ Append(texts, t)[Len(texts) + 1] = t
        /\ \A k \in 1..Len(texts) : Append(texts, t)[k] = texts[k]
    BY AppendProperties
  <2> QED BY <2>1
<1>2. PICK f : f = [k \in DOMAIN texts |-> Letters(texts[k])] OBVIOUS
<1>3. PICK g : g = [k \in DOMAIN more |-> Letters(more[k])] OBVIOUS
<1>4. f \in Seq(Seq(Char)) /\ g \in Seq(Seq(Char)) /\ Len(f) = Len(texts) /\ Len(g) = Len(more)
  BY <1>2, <1>3, ToldType
<1>5. DOMAIN texts = 1..Len(texts) /\ DOMAIN more = 1..(Len(texts) + 1) /\ Len(texts) \in Nat
  BY <1>1
<1>6. \A k \in 1..Len(f) : g[k] = f[k]
  BY <1>1, <1>2, <1>3, <1>4, <1>5
<1>7. g[Len(g)] = Letters(t)
  <2>1. Len(g) = Len(texts) + 1 /\ Len(texts) + 1 \in DOMAIN more BY <1>1, <1>4, <1>5
  <2> QED BY <1>1, <1>3, <2>1
<1>8. Len(g) = Len(f) + 1
  BY <1>1, <1>4
<1>9. FlattenSeq(g) = FlattenSeq(f) \o g[Len(g)]
  BY <1>4, <1>6, <1>8, FlattenNext
<1> QED BY <1>1, <1>2, <1>3, <1>7, <1>9 DEF Told

(* Texts after others tell what they tell after the others. *)
LEMMA ToldConcat ==
  ASSUME NEW p \in Seq(Text), NEW q \in Seq(Text)
  PROVE  Told(p \o q) = Told(p) \o Told(q)
<1> DEFINE S == {s \in Seq(Text) : Told(p \o s) = Told(p) \o Told(s)}
<1>1. <<>> \in S
  <2>1. p \o <<>> = p BY ConcatEmptySeq
  <2>2. Told(p) \in Seq(Char) BY ToldType DEF Text
  <2>3. Told(p) \o <<>> = Told(p) BY <2>2, ConcatEmptySeq
  <2>4. <<>> \in Seq(Text) OBVIOUS
  <2> QED BY <2>1, <2>3, <2>4, ToldNothing
<1>2. ASSUME NEW s \in Seq(Text), NEW t \in Text, s \in S PROVE Append(s, t) \in S
  <2>1. p \o s \in Seq(Text) /\ Append(s, t) \in Seq(Text)
    BY ConcatProperties, AppendProperties
  <2>2. p \o Append(s, t) = Append(p \o s, t)
    <3>1. Append(s, t) = s \o <<t>> /\ Append(p \o s, t) = (p \o s) \o <<t>>
      BY <2>1, AppendIsConcat
    <3>2. <<t>> \in Seq(Text) OBVIOUS
    <3> QED BY <3>1, <3>2, ConcatAssociative
  <2>3. Told(Append(p \o s, t)) = Told(p \o s) \o Letters(t)
    BY <2>1, ToldAppend
  <2>4. Told(Append(s, t)) = Told(s) \o Letters(t)
    BY ToldAppend
  <2>5. Told(p) \in Seq(Char) /\ Told(s) \in Seq(Char) /\ Letters(t) \in Seq(Char)
    BY ToldType, LettersType DEF Text
  <2>6. (Told(p) \o Told(s)) \o Letters(t) = Told(p) \o (Told(s) \o Letters(t))
    BY SMTT(20), <2>5, ConcatAssociative
  <2> QED BY <1>2, <2>1, <2>2, <2>3, <2>4, <2>6
<1>3. \A s \in Seq(Text) : s \in S
  <2> HIDE DEF S
  <2> QED BY <1>1, <1>2, SeqInduction
<1> QED BY <1>3

(* The pieces of a text tell what it tells. *)
LEMMA LettersOfFlat ==
  ASSUME NEW texts \in Seq(Text)
  PROVE  Letters(FlattenSeq(texts)) = Told(texts)
<1> DEFINE S == {s \in Seq(Text) : Letters(FlattenSeq(s)) = Told(s)}
<1>1. <<>> \in S
  <2>1. <<>> \in Seq(Seq(Char)) /\ <<>> \in Seq(Text) OBVIOUS
  <2>2. FlattenSeq(<<>>) = <<>>
    <3>1. Len(<<>>) = 0 OBVIOUS
    <3> QED BY <3>1 DEF FlattenSeq
  <2> QED BY <2>1, <2>2, NoLetters, ToldNothing
<1>2. ASSUME NEW s \in Seq(Text), NEW t \in Text, s \in S PROVE Append(s, t) \in S
  <2>1. s \in Seq(Seq(Char)) /\ t \in Seq(Char) BY DEF Text
  <2>2. FlattenSeq(Append(s, t)) = FlattenSeq(s) \o t BY <2>1, FlattenAppend
  <2>3. FlattenSeq(s) \in Text BY <2>1, FlattenType DEF Text
  <2>4. Letters(FlattenSeq(s) \o t) = Letters(FlattenSeq(s)) \o Letters(t) BY <2>3, LettersConcat
  <2>5. Append(s, t) \in Seq(Text) BY AppendProperties
  <2> QED BY <1>2, <2>2, <2>4, <2>5, ToldAppend
<1>3. \A s \in Seq(Text) : s \in S
  <2> HIDE DEF S
  <2> QED BY <1>1, <1>2, SeqInduction
<1> QED BY <1>3

----------------------------------------------------------------------------
(* The tokens of a text. *)
TokenState == [count : Nat, next : Nat]
TokensStart == [count |-> 0, next |-> 1]

(* Reading a token keeps a count and a position. *)
LEMMA TokenType ==
  ASSUME NEW s \in Text, NEW read \in TokenState, NEW n \in 1..Len(s)
  PROVE  Token(s, read, n) \in TokenState
<1>1. read.count \in Nat /\ read.next \in Nat /\ read \in [count : Nat, next : Nat]
  BY DEF TokenState
<1>2. \A c \in Nat, m \in Nat : [count |-> c, next |-> m] \in TokenState
  BY DEF TokenState
<1>3. read.count + 1 \in Nat /\ n + 3 \in Nat /\ n + 1 \in Nat
  BY <1>1
<1>4. (read.count + Width[s[n]]) \in Nat
  <2>1. s[n] \in Char BY DEF Text
  <2>2. Width[s[n]] \in Nat BY <2>1, ChunkAssumption
  <2> QED BY <1>1, <2>2
<1> QED BY <1>2, <1>3, <1>4 DEF Token

(* The loop over the characters *)
IsTokensRead(f, s) ==
  f = [n \in 0..Len(s) |-> IF n = 0 THEN TokensStart ELSE Token(s, f[n - 1], n)]

(* The tokenizer reads character by character. *)
LEMMA TokensReadRuns ==
  ASSUME NEW s \in Text
  PROVE  /\ TokensRead(s)[0] = TokensStart
         /\ \A n \in 1..Len(s) : TokensRead(s)[n] = Token(s, TokensRead(s)[n - 1], n)
         /\ \A n \in 0..Len(s) : TokensRead(s)[n] \in TokenState
<1> DEFINE N == Len(s)
           g == [p \in TokenState \X (1..N) |-> Token(s, p[1], p[2])]
<1>1. N \in Nat /\ TokensStart \in TokenState
  BY DEF TokenState, TokensStart, Text
<1>2. \A acc \in TokenState, n \in 1..N : Token(s, acc, n) \in TokenState
  BY TokenType
<1>3. g \in [TokenState \X (1..N) -> TokenState]
  BY <1>2
<1>4. PICK f : Run(f, TokenState, TokensStart, g, N)
  <2> HIDE DEF N, g
  <2> QED BY <1>1, <1>3, LoopRuns
<1>5. ASSUME NEW n \in 0..N
      PROVE  f[n] = IF n = 0 THEN TokensStart ELSE Token(s, f[n - 1], n)
  <2>1. n # 0 => n - 1 \in 0..N /\ n \in 1..N BY <1>1
  <2>2. n # 0 => f[n - 1] \in TokenState BY <1>4, <2>1 DEF Run
  <2>3. f[n] = IF n = 0 THEN TokensStart ELSE g[<<f[n - 1], n>>] BY <1>4 DEF Run
  <2> QED BY <2>1, <2>2, <2>3
<1>6. IsTokensRead(f, s)
  <2>1. f = [n \in 0..N |-> f[n]] BY <1>4 DEF Run
  <2> QED BY <1>5, <2>1 DEF IsTokensRead
<1>7. IsTokensRead(TokensRead(s), s)
  BY <1>6 DEF IsTokensRead, TokensRead, TokensStart
<1> DEFINE u == TokensRead(s)
<1>8. u[0] = TokensStart /\ \A n \in 1..N : u[n] = Token(s, u[n - 1], n)
  BY <1>1, <1>7 DEF IsTokensRead
<1>9. \A n \in 0..N : u[n] \in TokenState
  <2> HIDE DEF N, u
  <2>1. \A n \in 1..N : u[n - 1] \in TokenState => u[n] \in TokenState
    BY <1>2, <1>8
  <2> QED BY <1>1, <1>8, <2>1, LoopKeeps
<1> QED BY <1>8, <1>9

(* It is never behind the character it was at, nor beyond the text. *)
LEMMA TokensRange ==
  ASSUME NEW s \in Text
  PROVE  \A n \in 0..Len(s) : TokensRead(s)[n].next \in (n + 1)..(Len(s) + 1)
<1> DEFINE N == Len(s)
           u == TokensRead(s)
           S == {n \in 0..N : u[n].next \in (n + 1)..(N + 1)}
<1>1. N \in Nat
  BY DEF Text
<1>2. /\ u[0] = TokensStart
      /\ \A n \in 1..N : u[n] = Token(s, u[n - 1], n)
      /\ \A n \in 0..N : u[n] \in TokenState
  BY TokensReadRuns
<1> HIDE DEF N, u
<1>3. 0 \in S
  BY <1>1, <1>2 DEF TokensStart
<1>4. ASSUME NEW n \in 0..(N - 1), n \in S PROVE n + 1 \in S
  <2>1. PICK m \in 1..N : m = n + 1 /\ m - 1 = n
    BY <1>1
  <2>2. PICK read : read = u[n]
    OBVIOUS
  <2>3. read \in TokenState /\ read.next \in m..(N + 1) /\ u[m] = Token(s, read, m)
    BY <1>2, <1>4, <2>1, <2>2
  <2>4. Token(s, read, m).next = IF read.next > m THEN read.next
          ELSE IF m + 2 <= Len(s) /\ SubSeq(s, m, m + 2) = <<"a", "a", "b">> THEN m + 3 ELSE m + 1
    BY DEF Token
  <2>5. Token(s, read, m).next \in (m + 1)..(N + 1)
    BY <1>1, <2>1, <2>3, <2>4 DEF N
  <2> QED BY <1>1, <2>1, <2>3, <2>5
<1>5. N \in 0..N
  BY <1>1
<1>6. \A n \in 0..N : n \in S
  <2> HIDE DEF S
  <2> QED BY <1>1, <1>3, <1>4, SetInduction
<1> QED BY <1>6 DEF N, u

(* Where two texts meet, no token holds characters of both. *)
Apart(s, t) ==
  \A n \in 1..Len(s) :
    n + 2 > Len(s) /\ n + 2 <= Len(s) + Len(t) => SubSeq(s \o t, n, n + 2) # <<"a", "a", "b">>

(* The tokens of such texts add up. *)
LEMMA TokensAdd ==
  ASSUME NEW s \in Text, NEW t \in Text, Apart(s, t)
  PROVE  Tokens(s \o t) = Tokens(s) + Tokens(t) /\ Tokens(s) \in Nat /\ Tokens(t) \in Nat
<1> DEFINE M == Len(s)
           N == Len(t)
           u == TokensRead(s)
           v == TokensRead(t)
           w == TokensRead(s \o t)
<1>1. /\ M \in Nat /\ N \in Nat /\ s \o t \in Text /\ Len(s \o t) = M + N
      /\ \A n \in 1..M : (s \o t)[n] = s[n]
      /\ \A n \in 1..N : (s \o t)[M + n] = t[n]
  BY DEF Text
<1>2. /\ u[0] = TokensStart
      /\ \A n \in 1..M : u[n] = Token(s, u[n - 1], n)
      /\ \A n \in 0..M : u[n] \in TokenState /\ u[n].next \in (n + 1)..(M + 1)
  BY TokensReadRuns, TokensRange
<1>3. /\ v[0] = TokensStart
      /\ \A n \in 1..N : v[n] = Token(t, v[n - 1], n)
      /\ \A n \in 0..N : v[n] \in TokenState /\ v[n].next \in (n + 1)..(N + 1)
  BY TokensReadRuns, TokensRange
<1>4. /\ w[0] = TokensStart
      /\ \A n \in 1..(M + N) : w[n] = Token(s \o t, w[n - 1], n)
  BY <1>1, TokensReadRuns
<1>5. \A n \in 1..M : n + 2 <= M => SubSeq(s \o t, n, n + 2) = SubSeq(s, n, n + 2)
  <2> SUFFICES ASSUME NEW n \in 1..M, n + 2 <= M PROVE SubSeq(s \o t, n, n + 2) = SubSeq(s, n, n + 2)
    OBVIOUS
  <2>1. n \in 1..Len(s) /\ n + 2 \in 1..Len(s) BY <1>1
  <2> QED BY <2>1, SubSeqOfConcat1 DEF Text
<1>6. \A n \in 1..N : n + 2 <= N => SubSeq(s \o t, M + n, M + n + 2) = SubSeq(t, n, n + 2)
  <2> SUFFICES ASSUME NEW n \in 1..N, n + 2 <= N
               PROVE  SubSeq(s \o t, M + n, M + n + 2) = SubSeq(t, n, n + 2)
    OBVIOUS
  <2>1. M + n \in (Len(s) + 1)..(Len(s) + Len(t)) /\ M + n + 2 \in (Len(s) + 1)..(Len(s) + Len(t))
        /\ M + n - Len(s) = n /\ M + n + 2 - Len(s) = n + 2
    BY <1>1
  <2> QED BY <2>1, SubSeqOfConcat2 DEF Text
<1>7. \A n \in 1..M : n + 2 > M /\ n + 2 <= M + N => SubSeq(s \o t, n, n + 2) # <<"a", "a", "b">>
  BY DEF Apart
<1>8. Tokens(s) = u[M].count /\ Tokens(t) = v[N].count /\ Tokens(s \o t) = w[M + N].count
  BY <1>1 DEF Tokens
<1> HIDE DEF M, N, u, v, w
<1>9. \A n \in 0..M : w[n] = u[n]
  <2> DEFINE S == {n \in 0..M : w[n] = u[n]}
  <2>1. 0 \in S BY <1>1, <1>2, <1>4
  <2>2. ASSUME NEW n \in 0..(M - 1), n \in S PROVE n + 1 \in S
    <3>1. PICK m \in 1..M : m = n + 1 /\ m - 1 = n /\ m \in 1..(M + N)
      BY <1>1
    <3>2. PICK read : read = u[n]
      OBVIOUS
    <3>3. u[m] = Token(s, read, m) /\ w[m] = Token(s \o t, read, m)
      BY <1>2, <1>4, <2>2, <3>1, <3>2
    <3>4. (m + 2 <= M + N /\ SubSeq(s \o t, m, m + 2) = <<"a", "a", "b">>) <=>
            (m + 2 <= M /\ SubSeq(s, m, m + 2) = <<"a", "a", "b">>)
      <4>1. m + 2 <= M => m + 2 <= M + N BY <1>1
      <4>2. m + 2 > M <=> ~(m + 2 <= M) BY <1>1
      <4> QED BY <1>5, <1>7, <4>1, <4>2
    <3>5. (s \o t)[m] = s[m] /\ Len(s) = M /\ Len(s \o t) = M + N
      BY <1>1 DEF M
    <3>6. u[m] = w[m]
      BY <3>3, <3>4, <3>5 DEF Token
    <3> QED BY <3>1, <3>6
  <2>3. \A n \in 0..M : n \in S
    <3> HIDE DEF S
    <3> QED BY <1>1, <2>1, <2>2, SetInduction
  <2> QED BY <2>3
<1>10. PICK before : before = u[M]
  OBVIOUS
<1>11. before.count \in Nat /\ before.next = M + 1 /\ w[M] = before
  <2>1. M \in 0..M BY <1>1
  <2>2. before \in TokenState /\ before.next \in (M + 1)..(M + 1) /\ w[M] = before
    BY <1>2, <1>9, <1>10, <2>1
  <2>3. before.next = M + 1 BY <1>1, <2>2
  <2> QED BY <2>2, <2>3 DEF TokenState
<1> DEFINE Later(read) == [count |-> before.count + read.count, next |-> M + read.next]
<1>12. \A n \in 0..N : w[M + n] = Later(v[n])
  <2> DEFINE S == {n \in 0..N : w[M + n] = Later(v[n])}
  <2>1. 0 \in S
    <3>1. Later(v[0]) = [count |-> before.count, next |-> M + 1]
      BY <1>1, <1>3, <1>11 DEF TokensStart
    <3>2. before = [count |-> before.count, next |-> M + 1]
      <4>1. before \in TokenState BY <1>1, <1>2, <1>10
      <4> QED BY <1>11, <4>1 DEF TokenState
    <3>3. 0 \in 0..N /\ M + 0 = M BY <1>1
    <3> HIDE DEF Later
    <3> QED BY <1>11, <3>1, <3>2, <3>3
  <2>2. ASSUME NEW n \in 0..(N - 1), n \in S PROVE n + 1 \in S
    <3>1. PICK m \in 1..N : /\ m = n + 1 /\ m - 1 = n /\ M + m \in 1..(M + N) /\ (M + m) - 1 = M + n
                            /\ n \in 0..N /\ m \in 0..N
      BY <1>1
    <3>2. PICK read : read = v[n]
      OBVIOUS
    <3>3. read.count \in Nat /\ read.next \in Nat
      BY <1>1, <1>3, <3>1, <3>2 DEF TokenState
    <3>4. v[m] = Token(t, read, m) /\ w[M + m] = Token(s \o t, Later(read), M + m)
      BY <1>3, <1>4, <2>2, <3>1, <3>2
    <3>5. (M + m + 2 <= M + N /\ SubSeq(s \o t, M + m, M + m + 2) = <<"a", "a", "b">>) <=>
            (m + 2 <= N /\ SubSeq(t, m, m + 2) = <<"a", "a", "b">>)
      <4>1. M + m + 2 <= M + N <=> m + 2 <= N BY <1>1
      <4> QED BY <1>6, <4>1
    <3>6. (s \o t)[M + m] = t[m] /\ Len(t) = N /\ Len(s \o t) = M + N
      BY <1>1 DEF N
    <3>7. M \in Nat /\ m \in Nat /\ before.count \in Nat
      BY <1>1, <1>11
    <3>8. CASE read.next > m
      <4>1. v[m] = read BY <3>4, <3>8 DEF Token
      <4>2. Later(read).next > M + m BY <3>3, <3>7, <3>8
      <4>3. w[M + m] = Later(read) BY <3>4, <4>2 DEF Token
      <4> QED BY <3>1, <4>1, <4>3
    <3>9. CASE ~(read.next > m)
      <4>1. ~(Later(read).next > M + m) BY <3>3, <3>7, <3>9
      <4>2. CASE m + 2 <= N /\ SubSeq(t, m, m + 2) = <<"a", "a", "b">>
        <5>1. v[m] = [count |-> read.count + 1, next |-> m + 3]
          BY <3>4, <3>6, <3>9, <4>2 DEF Token
        <5>2. w[M + m] = [count |-> Later(read).count + 1, next |-> M + m + 3]
          BY <3>4, <3>5, <3>6, <4>1, <4>2 DEF Token
        <5>3. Later(v[m]) = [count |-> Later(read).count + 1, next |-> M + m + 3]
          BY <3>3, <3>7, <5>1
        <5> HIDE DEF Later
        <5> QED BY <3>1, <5>2, <5>3
      <4>3. CASE ~(m + 2 <= N /\ SubSeq(t, m, m + 2) = <<"a", "a", "b">>)
        <5> DEFINE c == Width[t[m]]
        <5>1. v[m] = [count |-> read.count + c, next |-> m + 1]
          BY <3>4, <3>6, <3>9, <4>3 DEF Token
        <5>2. w[M + m] = [count |-> Later(read).count + c, next |-> M + m + 1]
          BY <3>4, <3>5, <3>6, <4>1, <4>3 DEF Token
        <5>3. c \in Nat
          <6>1. t[m] \in Char BY <3>1, <3>6 DEF Text
          <6> QED BY <6>1, ChunkAssumption
        <5> HIDE DEF c
        <5>4. Later(v[m]) = [count |-> Later(read).count + c, next |-> M + m + 1]
          BY <3>3, <3>7, <5>1, <5>3
        <5> HIDE DEF Later
        <5> QED BY <3>1, <5>2, <5>4
      <4> QED BY <4>2, <4>3
    <3> QED BY <3>8, <3>9
  <2>3. \A n \in 0..N : n \in S
    <3> HIDE DEF S
    <3> QED BY <1>1, <2>1, <2>2, SetInduction
  <2> QED BY <2>3
<1>13. v[N].count \in Nat /\ u[M].count \in Nat /\ N \in 0..N
  BY <1>1, <1>2, <1>3 DEF TokenState
<1>14. w[M + N].count = before.count + v[N].count
  <2>1. w[M + N] = Later(v[N]) BY <1>12, <1>13
  <2> QED BY <2>1
<1> QED BY <1>8, <1>10, <1>13, <1>14

(* The number of tokens of a text is a natural number. *)
LEMMA TokensType ==
  ASSUME NEW s \in Text
  PROVE  Tokens(s) \in Nat
<1>1. Len(s) \in 0..Len(s)
  BY DEF Text
<1>2. TokensRead(s)[Len(s)] \in TokenState
  BY <1>1, TokensReadRuns
<1> QED BY <1>2 DEF Tokens, TokenState

(* A character that stands alone takes its own tokens, within the budget. *)
LEMMA CharacterTokens ==
  ASSUME NEW c \in Char
  PROVE  /\ <<c>> \in Text /\ Tokens(<<c>>) = Width[c] /\ Tokens(<<c>>) \in 1..MaxTokens
<1>1. <<c>> \in Text /\ Len(<<c>>) = 1 /\ <<c>>[1] = c
  BY DEF Text
<1>2. TokensRead(<<c>>)[1] = Token(<<c>>, TokensRead(<<c>>)[1 - 1], 1) /\ TokensRead(<<c>>)[0] = TokensStart
  <2>1. 1 \in 1..Len(<<c>>) BY <1>1
  <2> QED BY <1>1, <2>1, TokensReadRuns
<1>3. Width[c] \in 1..MaxTokens /\ Width[c] \in Nat /\ 0 + Width[c] = Width[c]
  BY ChunkAssumption
<1>4. TokensRead(<<c>>)[1].count = Width[c]
  BY <1>1, <1>2, <1>3 DEF Token, TokensStart
<1> QED BY <1>1, <1>3, <1>4 DEF Tokens

(* The line feed is a text of one token. *)
LEMMA LineFeed == "/" \in Char /\ <<"/">> \in Text /\ Tokens(<<"/">>) = 1
BY ChunkAssumption, CharacterTokens

(* A line feed parts the tokens before it from those after it. *)
LEMMA TokensOfLines ==
  ASSUME NEW s \in Text, NEW t \in Text
  PROVE  /\ s \o <<"/">> \in Text /\ (s \o <<"/">>) \o t \in Text
         /\ Tokens(s \o <<"/">>) = Tokens(s) + 1
         /\ Tokens((s \o <<"/">>) \o t) = Tokens(s) + 1 + Tokens(t)
<1>1. s \o <<"/">> \in Text /\ (s \o <<"/">>) \o t \in Text
  BY LineFeed DEF Text
<1>2. Apart(s, <<"/">>)
  <2> SUFFICES ASSUME NEW n \in 1..Len(s), n + 2 > Len(s), n + 2 <= Len(s) + Len(<<"/">>),
                      SubSeq(s \o <<"/">>, n, n + 2) = <<"a", "a", "b">>
               PROVE  FALSE
    BY DEF Apart
  <2>1. Len(s) \in Nat /\ Len(<<"/">>) = 1 /\ (s \o <<"/">>)[Len(s) + 1] = "/"
    BY DEF Text
  <2>2. n + 2 = Len(s) + 1 BY <2>1
  <2>3. SubSeq(s \o <<"/">>, n, n + 2)[3] = (s \o <<"/">>)[n + 2]
    <3>1. \A i \in n..(n + 2) : (s \o <<"/">>)[i] \in Char
      <4>1. n..(n + 2) \subseteq 1..Len(s \o <<"/">>) BY <1>1, <2>1, <2>2 DEF Text
      <4> QED BY <1>1, <4>1 DEF Text
    <3> QED BY <3>1, SubSeqProperties
  <2>4. <<"a", "a", "b">>[3] = "b" OBVIOUS
  <2>5. SubSeq(s \o <<"/">>, n, n + 2)[3] = "b" BY <2>4
  <2> QED BY <2>1, <2>2, <2>3, <2>5
<1>3. Apart(s \o <<"/">>, t)
  <2> DEFINE p == s \o <<"/">>
  <2> SUFFICES ASSUME NEW n \in 1..Len(p), n + 2 > Len(p), n + 2 <= Len(p) + Len(t),
                      SubSeq(p \o t, n, n + 2) = <<"a", "a", "b">>
               PROVE  FALSE
    BY DEF Apart
  <2>1. Len(s) \in Nat /\ Len(p) = Len(s) + 1 /\ p[Len(p)] = "/"
    BY DEF Text
  <2>2. p \in Text /\ p \o t \in Text BY <1>1
  <2> HIDE DEF p
  <2>3. (p \o t)[Len(p)] = "/" /\ Len(p \o t) = Len(p) + Len(t) BY <2>1, <2>2 DEF Text
  <2>4. \A i \in 1..3 : SubSeq(p \o t, n, n + 2)[i] = (p \o t)[n + i - 1]
    <3>1. \A i \in n..(n + 2) : (p \o t)[i] \in Char
      <4>1. n..(n + 2) \subseteq 1..Len(p \o t) BY <2>3
      <4> QED BY <2>2, <4>1 DEF Text
    <3> QED BY <3>1, SubSeqProperties
  <2>5. PICK i \in 1..3 : n + i - 1 = Len(p)
    <3>1. Len(p) - n + 1 \in 1..3 /\ n + (Len(p) - n + 1) - 1 = Len(p) BY <2>1
    <3> QED BY <3>1
  <2>6. <<"a", "a", "b">>[i] = "/" BY <2>3, <2>4, <2>5
  <2>7. <<"a", "a", "b">>[1] = "a" /\ <<"a", "a", "b">>[2] = "a" /\ <<"a", "a", "b">>[3] = "b" OBVIOUS
  <2>8. i = 1 \/ i = 2 \/ i = 3 OBVIOUS
  <2> QED BY <2>6, <2>7, <2>8
<1>4. Tokens(s \o <<"/">>) = Tokens(s) + 1
  BY <1>2, LineFeed, TokensAdd
<1>5. Tokens((s \o <<"/">>) \o t) = Tokens(s \o <<"/">>) + Tokens(t)
  BY <1>1, <1>3, TokensAdd
<1> QED BY <1>1, <1>4, <1>5

(* Lines that are added, and lines that stand under another. *)
LEMMA JoinedAppend ==
  ASSUME NEW lines \in Seq(Text), NEW line \in Text
  PROVE  Joined(Append(lines, line)) = IF lines = <<>> THEN line ELSE Under(Joined(lines), line)
<1> DEFINE N == Len(lines)
<1>1. PICK more \in Seq(Text) : /\ more = Append(lines, line) /\ Len(more) = N + 1 /\ more[N + 1] = line
                                /\ N \in Nat /\ \A n \in 1..N : more[n] = lines[n]
  <2>1. /\ Append(lines, line) \in Seq(Text) /\ Len(Append(lines, line)) = N + 1 /\ N \in Nat
        /\ Append(lines, line)[N + 1] = line /\ \A n \in 1..N : Append(lines, line)[n] = lines[n]
    BY AppendProperties
  <2> QED BY <2>1
<1>2. PICK f : JoinsUp(f, lines) BY JoinedIs
<1>3. PICK g : JoinsUp(g, more) BY JoinedIs
<1>4. N = 0 <=> lines = <<>>
  BY <1>1
<1>5. /\ f[0] = <<>> /\ Joined(lines) = f[N]
      /\ \A n \in 1..N : f[n] = IF n = 1 THEN lines[1] ELSE Under(f[n - 1], lines[n])
  BY <1>2 DEF JoinsUp
<1>6. /\ g[0] = <<>> /\ Joined(more) = g[N + 1]
      /\ \A n \in 1..(N + 1) : g[n] = IF n = 1 THEN more[1] ELSE Under(g[n - 1], more[n])
  BY <1>1, <1>3 DEF JoinsUp
<1> HIDE DEF N
<1> DEFINE S == {n \in 0..N : g[n] = f[n]}
<1>7. 0 \in S BY <1>1, <1>5, <1>6
<1>8. ASSUME NEW n \in 0..(N - 1), n \in S PROVE n + 1 \in S
  <2>1. n + 1 \in 1..N /\ n + 1 \in 1..(N + 1) /\ (n + 1) - 1 = n /\ n + 1 \in 0..N /\ 1 \in 1..N BY <1>1
  <2>2. /\ f[n + 1] = IF n + 1 = 1 THEN lines[1] ELSE Under(f[n], lines[n + 1])
        /\ g[n + 1] = IF n + 1 = 1 THEN more[1] ELSE Under(g[n], more[n + 1])
    BY <1>5, <1>6, <2>1
  <2>3. more[1] = lines[1] /\ more[n + 1] = lines[n + 1] /\ g[n] = f[n]
    BY <1>1, <1>8, <2>1
  <2>4. g[n + 1] = f[n + 1]
    BY <2>2, <2>3
  <2> QED BY <2>1, <2>4
<1>9. g[N] = f[N]
  <2>1. \A n \in 0..N : n \in S
    <3> HIDE DEF S
    <3> QED BY <1>1, <1>7, <1>8, SetInduction
  <2> QED BY <1>1, <2>1
<1>10. g[N + 1] = IF N = 0 THEN line ELSE Under(g[N], line)
  <2>1. N + 1 \in 1..(N + 1) /\ (N + 1) - 1 = N /\ (N + 1 = 1 <=> N = 0) BY <1>1
  <2>2. g[N + 1] = IF N + 1 = 1 THEN more[1] ELSE Under(g[N], more[N + 1]) BY <1>6, <2>1
  <2> QED BY <1>1, <2>1, <2>2
<1> QED BY <1>1, <1>4, <1>5, <1>6, <1>9, <1>10

(* A line under a text is a text, with the letters of both. *)
LEMMA UnderType ==
  ASSUME NEW s \in Text, NEW line \in Text
  PROVE  /\ Under(s, line) \in Text /\ Under(s, line) # <<>>
         /\ Letters(Under(s, line)) = Letters(s) \o Letters(line)
<1>1. s \o <<"/">> \in Text /\ (s \o <<"/">>) \o line \in Text
  BY TokensOfLines
<1>2. Letters(s \o <<"/">>) = Letters(s)
  <2>1. Letters(s \o <<"/">>) = Letters(s) \o <<>>
    BY LineFeed, LettersConcat, NoLetters
  <2> QED BY <2>1, LettersType, ConcatEmptySeq DEF Text
<1>3. (s \o <<"/">>) \o line # <<>>
  <2>1. Len(s \o <<"/">>) = Len(s) + 1 /\ Len(s) \in Nat /\ Len(line) \in Nat BY DEF Text
  <2>2. Len((s \o <<"/">>) \o line) = Len(s \o <<"/">>) + Len(line) BY <1>1 DEF Text
  <2>3. Len((s \o <<"/">>) \o line) # 0 BY <2>1, <2>2
  <2> QED BY <2>3
<1> QED BY <1>1, <1>2, <1>3, LettersConcat DEF Under

(* No lines give no text. *)
LEMMA NothingJoined == Joined(<<>>) = <<>>
<1>1. PICK f : JoinsUp(f, <<>>)
  <2>1. <<>> \in Seq(Text) OBVIOUS
  <2> QED BY <2>1, JoinedIs
<1>2. Len(<<>>) = 0 OBVIOUS
<1> QED BY <1>1, <1>2 DEF JoinsUp

(* The rows under a header. *)
Headed(header, s) == (header \o <<"/">>) \o s

(* Texts can be put together in any order. *)
Associate(p, q, r) == (p \o q) \o r = p \o (q \o r)

(* Concatenation of texts is associative, as a named fact. *)
LEMMA TextsAssociate ==
  ASSUME NEW p \in Text, NEW q \in Text, NEW r \in Text
  PROVE  Associate(p, q, r) /\ p \o q \in Text
<1>1. p \in Seq(Char) /\ q \in Seq(Char) /\ r \in Seq(Char)
  BY DEF Text
<1>2. (p \o q) \o r = p \o (q \o r)
  BY <1>1, ConcatAssociative
<1>3. p \o q \in Seq(Char)
  BY <1>1, ConcatProperties
<1> QED BY <1>2, <1>3 DEF Text, Associate

(* A line under a text under a header is the header over both. *)
LEMMA UnderHeaded ==
  ASSUME NEW header \in Text, NEW s \in Text, NEW line \in Text
  PROVE  Under(Headed(header, s), line) = Headed(header, Under(s, line))
<1>1. PICK h \in Text, e \in Text : h = header \o <<"/">> /\ e = <<"/">>
  BY TokensOfLines, LineFeed
<1>2. PICK x \in Text : x = s \o e
  BY TextsAssociate
<1>3. Associate(h, s, e) /\ Associate(h, x, line)
  BY TextsAssociate
<1>4. (h \o s) \o e = h \o x /\ (h \o x) \o line = h \o (x \o line)
  BY <1>2, <1>3 DEF Associate
<1>5. Under(Headed(header, s), line) = ((h \o s) \o e) \o line
  BY <1>1 DEF Under, Headed
<1>6. Headed(header, Under(s, line)) = h \o (x \o line)
  BY <1>1, <1>2 DEF Under, Headed
<1>7. Under(Headed(header, s), line) = (h \o x) \o line
  BY <1>4, <1>5
<1> QED BY <1>4, <1>6, <1>7

(* Rows are joined under a header like the header put over the joined rows. *)
LEMMA JoinedUnder ==
  ASSUME NEW header \in Text, NEW rows \in Seq(Text), rows # <<>>
  PROVE  Joined(<<header>> \o rows) = Headed(header, Joined(rows))
<1> DEFINE S == {q \in Seq(Text) : q = <<>> \/ Joined(<<header>> \o q) = Headed(header, Joined(q))}
<1>0. <<header>> \in Seq(Text) /\ <<>> \in Seq(Text) /\ <<header>> # <<>>
  OBVIOUS
<1>1. <<>> \in S
  BY <1>0
<1>2. ASSUME NEW q \in Seq(Text), NEW l \in Text, q \in S PROVE Append(q, l) \in S
  <2>1. <<header>> \o q \in Seq(Text) /\ <<header>> \o q # <<>> /\ Append(q, l) \in Seq(Text)
    <3>1. Len(<<header>> \o q) = Len(<<header>>) + Len(q) /\ Len(<<header>>) = 1 /\ Len(q) \in Nat
      BY <1>0, ConcatProperties
    <3>2. Len(<<header>> \o q) # 0 BY <3>1
    <3> QED BY <1>0, <3>2, ConcatProperties, AppendProperties
  <2>2. <<header>> \o Append(q, l) = Append(<<header>> \o q, l)
    <3>1. Append(q, l) = q \o <<l>> /\ Append(<<header>> \o q, l) = (<<header>> \o q) \o <<l>>
      BY <2>1, AppendIsConcat
    <3>2. <<l>> \in Seq(Text) OBVIOUS
    <3> QED BY <1>0, <3>1, <3>2, ConcatAssociative
  <2>3. Joined(<<header>> \o Append(q, l)) = Under(Joined(<<header>> \o q), l)
    BY <2>1, <2>2, JoinedAppend
  <2>4. CASE q = <<>>
    <3>1. <<header>> \o q = <<header>> /\ <<header>> = Append(<<>>, header)
      BY <1>0, <2>4, ConcatEmptySeq
    <3>2. Joined(<<header>>) = header
      <4>1. Joined(Append(<<>>, header)) = header BY <1>0, JoinedAppend
      <4> QED BY <3>1, <4>1
    <3>3. Joined(Append(q, l)) = l BY <1>0, <2>4, JoinedAppend
    <3>4. Joined(<<header>> \o Append(q, l)) = Headed(header, Joined(Append(q, l)))
      BY <2>3, <3>1, <3>2, <3>3 DEF Under, Headed
    <3> QED BY <2>1, <3>4
  <2>5. CASE q # <<>>
    <3>1. Joined(<<header>> \o q) = Headed(header, Joined(q)) BY <1>2, <2>5
    <3>2. Joined(Append(q, l)) = Under(Joined(q), l) BY <2>5, JoinedAppend
    <3>3. Under(Headed(header, Joined(q)), l) = Headed(header, Under(Joined(q), l))
      BY JoinedType, UnderHeaded
    <3> QED BY <2>1, <2>3, <3>1, <3>2, <3>3
  <2> QED BY <2>4, <2>5
<1>3. \A q \in Seq(Text) : q \in S
  <2> HIDE DEF S
  <2> QED BY <1>1, <1>2, SeqInduction
<1> QED BY <1>3

(* The lines tell what is joined of them. *)
LEMMA LettersOfJoined ==
  ASSUME NEW lines \in Seq(Text)
  PROVE  Letters(Joined(lines)) = Told(lines)
<1> DEFINE S == {q \in Seq(Text) : Letters(Joined(q)) = Told(q)}
<1>1. <<>> \in S
  <2>1. <<>> \in Seq(Text) OBVIOUS
  <2> QED BY <2>1, NothingJoined, NoLetters, ToldNothing
<1>2. ASSUME NEW q \in Seq(Text), NEW l \in Text, q \in S PROVE Append(q, l) \in S
  <2>1. Append(q, l) \in Seq(Text) BY AppendProperties
  <2>2. Told(Append(q, l)) = Told(q) \o Letters(l) BY ToldAppend
  <2>3. CASE q = <<>>
    <3>1. Joined(Append(q, l)) = l BY <2>3, JoinedAppend
    <3>2. <<>> \o Letters(l) = Letters(l) BY LettersType, ConcatEmptySeq DEF Text
    <3> QED BY <2>1, <2>2, <2>3, <3>1, <3>2, ToldNothing
  <2>4. CASE q # <<>>
    <3>1. Joined(Append(q, l)) = Under(Joined(q), l) BY <2>4, JoinedAppend
    <3>2. Letters(Under(Joined(q), l)) = Letters(Joined(q)) \o Letters(l)
      BY JoinedType, UnderType
    <3> QED BY <1>2, <2>1, <2>2, <3>1, <3>2
  <2> QED BY <2>3, <2>4
<1>3. \A q \in Seq(Text) : q \in S
  <2> HIDE DEF S
  <2> QED BY <1>1, <1>2, SeqInduction
<1> QED BY <1>3

(* The lines of a text, joined, are the text up to a line feed at its end. *)
LinesState == {lines \in Seq(Text) : lines # <<>>}

(* A sequence with elements is its front and its last element. *)
LEMMA FrontAndLast ==
  ASSUME NEW A, NEW s \in Seq(A), s # <<>>
  PROVE  Front(s) \in Seq(A) /\ Last(s) \in A /\ s = Append(Front(s), Last(s))
<1>1. PICK p \in Seq(A), e \in A : s = Append(p, e)
  BY SequenceEmptyOrAppend
<1>2. Len(s) = Len(p) + 1 /\ Len(p) \in Nat /\ s[Len(p) + 1] = e /\ \A k \in 1..Len(p) : s[k] = p[k]
  BY <1>1, AppendProperties
<1>3. Last(s) = e
  BY <1>2 DEF Last
<1>4. Front(s) = SubSeq(s, 1, Len(p))
  BY <1>2 DEF Front
<1>5. PICK q \in Seq(A) : q = SubSeq(s, 1, Len(p)) /\ Len(q) = Len(p) /\ \A k \in 1..Len(q) : q[k] = s[k]
  <2>1. 1 \in Int /\ Len(p) \in Int /\ \A i \in 1..Len(p) : s[i] \in A
    BY <1>2
  <2>2. SubSeq(s, 1, Len(p)) \in Seq(A) BY <2>1, SubSeqProperties
  <2>3. Len(SubSeq(s, 1, Len(p))) = IF 1 <= Len(p) THEN Len(p) - 1 + 1 ELSE 0 BY <2>1, SubSeqProperties
  <2>4. \A i \in 1..(Len(p) - 1 + 1) : SubSeq(s, 1, Len(p))[i] = s[1 + i - 1] BY <2>1, SubSeqProperties
  <2>5. Len(SubSeq(s, 1, Len(p))) = Len(p) BY <1>2, <2>3
  <2>6. \A i \in 1..Len(p) : SubSeq(s, 1, Len(p))[i] = s[i] BY <1>2, <2>4
  <2> QED BY <2>2, <2>5, <2>6
<1>6. q = p
  <2>1. \A k \in 1..Len(q) : q[k] = p[k] BY <1>2, <1>5
  <2> QED BY <1>5, <2>1, SeqEqual
<1> QED BY <1>1, <1>3, <1>4, <1>5, <1>6

(* A character goes to the last line, a line feed begins a new one, and    *)
(* joined they are the text read so far.                                   *)
LEMMA AddLetterIs ==
  ASSUME NEW lines \in LinesState, NEW c \in Char
  PROVE  /\ AddLetter(lines, c) \in LinesState
         /\ Joined(AddLetter(lines, c)) = Append(Joined(lines), c)
<1>1. lines \in Seq(Text) /\ lines # <<>>
  BY DEF LinesState
<1>2. CASE c = "/"
  <2>1. AddLetter(lines, c) = Append(lines, <<>>) BY <1>2 DEF AddLetter
  <2>2. <<>> \in Text BY DEF Text
  <2>3. Append(lines, <<>>) \in LinesState BY <1>1, <2>2, AppendProperties DEF LinesState
  <2>4. Joined(Append(lines, <<>>)) = Under(Joined(lines), <<>>) BY <1>1, <2>2, JoinedAppend
  <2>5. Under(Joined(lines), <<>>) = Append(Joined(lines), c)
    <3>1. Joined(lines) \in Seq(Char) BY <1>1, JoinedType DEF Text
    <3>2. Joined(lines) \o <<"/">> \in Seq(Char) BY <1>1, JoinedType, TokensOfLines DEF Text
    <3>3. Append(Joined(lines), c) = Joined(lines) \o <<c>> BY <3>1, AppendIsConcat
    <3>4. (Joined(lines) \o <<"/">>) \o <<>> = Joined(lines) \o <<"/">> BY <3>2, ConcatEmptySeq
    <3> QED BY <1>2, <3>3, <3>4 DEF Under
  <2> QED BY <2>1, <2>3, <2>4, <2>5
<1>3. CASE c # "/"
  <2>1. PICK front \in Seq(Text), last \in Text : lines = Append(front, last)
    BY <1>1, SequenceEmptyOrAppend
  <2>2. PICK n \in Nat : n = Len(front) BY <2>1
  <2>3. /\ Len(lines) = n + 1 /\ lines[n + 1] = last /\ \A k \in 1..n : lines[k] = front[k]
    BY <2>1, <2>2, AppendProperties
  <2>4. PICK new \in Text : new = Append(last, c)
    BY AppendProperties DEF Text
  <2>5. PICK after \in Seq(Text) : after = AddLetter(lines, c) /\ Len(after) = n + 1
                                  /\ \A k \in 1..(n + 1) : after[k] = IF k = n + 1 THEN new ELSE lines[k]
    <3>1. AddLetter(lines, c) = [lines EXCEPT ![Len(lines)] = Append(@, c)] BY <1>3 DEF AddLetter
    <3>2. Len(lines) \in 1..Len(lines) BY <2>3
    <3>3. AddLetter(lines, c) = [lines EXCEPT ![Len(lines)] = new]
      BY <2>3, <2>4, <3>1, <3>2
    <3>4. /\ [lines EXCEPT ![Len(lines)] = new] \in Seq(Text)
          /\ Len([lines EXCEPT ![Len(lines)] = new]) = Len(lines)
          /\ \A j \in 1..Len(lines) : [lines EXCEPT ![Len(lines)] = new][j] = IF j = Len(lines) THEN new ELSE lines[j]
      BY <1>1, <3>2, ExceptSeq
    <3> QED BY <2>3, <3>3, <3>4
  <2>6. after = Append(front, new)
    <3>1. PICK want \in Seq(Text) : want = Append(front, new) /\ Len(want) = n + 1 /\ want[n + 1] = new
                                   /\ \A k \in 1..n : want[k] = front[k]
      <4>1. /\ Append(front, new) \in Seq(Text) /\ Len(Append(front, new)) = Len(front) + 1
            /\ Append(front, new)[Len(front) + 1] = new
            /\ \A k \in 1..Len(front) : Append(front, new)[k] = front[k]
        BY AppendProperties
      <4> QED BY <2>2, <4>1
    <3>2. \A k \in 1..(n + 1) : after[k] = want[k]
      <4>1. \A k \in 1..(n + 1) : k = n + 1 \/ (k \in 1..n /\ k # n + 1) BY <2>2
      <4> QED BY <2>3, <2>5, <3>1, <4>1
    <3>3. after = want
      <4>1. Len(after) = Len(want) /\ \A k \in 1..Len(after) : after[k] = want[k] BY <2>5, <3>1, <3>2
      <4> QED BY <4>1, SeqEqual
    <3> QED BY <3>1, <3>3
  <2>7. after \in LinesState
    BY <2>2, <2>5 DEF LinesState
  <2>8. Joined(after) = IF front = <<>> THEN new ELSE Under(Joined(front), new)
    BY <2>6, JoinedAppend
  <2>9. Joined(lines) = IF front = <<>> THEN last ELSE Under(Joined(front), last)
    BY <2>1, JoinedAppend
  <2>10. Under(Joined(front), new) = Append(Under(Joined(front), last), c)
    <3>1. PICK h \in Seq(Char) : h = Joined(front) \o <<"/">> BY JoinedType, TokensOfLines DEF Text
    <3>2. last \in Seq(Char) /\ <<c>> \in Seq(Char) /\ h \o last \in Seq(Char) BY DEF Text
    <3>3. new = last \o <<c>> /\ Append(h \o last, c) = (h \o last) \o <<c>> BY <2>4, <3>2, AppendIsConcat
    <3>4. (h \o last) \o <<c>> = h \o (last \o <<c>>) BY <3>2, ConcatAssociative
    <3> QED BY <3>1, <3>3, <3>4 DEF Under
  <2>11. Joined(after) = Append(Joined(lines), c)
    BY <2>4, <2>8, <2>9, <2>10
  <2> QED BY <2>5, <2>7, <2>11
<1> QED BY <1>2, <1>3

(* The lines read so far stay lines. *)
LEMMA AddLetterType ==
  ASSUME NEW lines \in LinesState, NEW c \in Char
  PROVE  AddLetter(lines, c) \in LinesState
BY AddLetterIs

NoLine == << <<>> >>

(* The first line is empty. *)
LEMMA NoLineType == NoLine \in LinesState /\ Joined(NoLine) = <<>>
<1>1. <<>> \in Text /\ <<>> \in Seq(Text) /\ NoLine = Append(<<>>, <<>>)
  BY DEF NoLine, Text
<1>2. NoLine \in Seq(Text) /\ NoLine # <<>>
  BY <1>1, AppendProperties
<1>3. Joined(NoLine) = <<>>
  BY <1>1, JoinedAppend
<1> QED BY <1>2, <1>3 DEF LinesState

(* The loop over the letters of a text *)
IsLinesRead(f, s) ==
  f = [n \in 0..Len(s) |-> IF n = 0 THEN NoLine ELSE AddLetter(f[n - 1], s[n])]

(* splitlines reads character by character. *)
LEMMA LinesReadRuns ==
  ASSUME NEW s \in Text
  PROVE  /\ LinesRead(s)[0] = NoLine
         /\ \A n \in 1..Len(s) : LinesRead(s)[n] = AddLetter(LinesRead(s)[n - 1], s[n])
         /\ \A n \in 0..Len(s) : LinesRead(s)[n] \in LinesState
<1> DEFINE N == Len(s)
           g == [p \in LinesState \X (1..N) |-> AddLetter(p[1], s[p[2]])]
<1>1. N \in Nat /\ NoLine \in LinesState
  BY NoLineType DEF Text
<1>0. \A n \in 1..N : s[n] \in Char
  BY DEF Text
<1>2. \A acc \in LinesState, n \in 1..N : AddLetter(acc, s[n]) \in LinesState
  BY <1>0, AddLetterType
<1>3. g \in [LinesState \X (1..N) -> LinesState]
  BY <1>2
<1>4. PICK f : Run(f, LinesState, NoLine, g, N)
  <2> HIDE DEF N, g
  <2> QED BY <1>1, <1>3, LoopRuns
<1>5. ASSUME NEW n \in 0..N
      PROVE  f[n] = IF n = 0 THEN NoLine ELSE AddLetter(f[n - 1], s[n])
  <2>1. n # 0 => n - 1 \in 0..N /\ n \in 1..N BY <1>1
  <2>2. n # 0 => f[n - 1] \in LinesState BY <1>4, <2>1 DEF Run
  <2>3. f[n] = IF n = 0 THEN NoLine ELSE g[<<f[n - 1], n>>] BY <1>4 DEF Run
  <2> QED BY <2>1, <2>2, <2>3
<1>6. IsLinesRead(f, s)
  <2>1. f = [n \in 0..N |-> f[n]] BY <1>4 DEF Run
  <2> QED BY <1>5, <2>1 DEF IsLinesRead
<1>7. IsLinesRead(LinesRead(s), s)
  BY <1>6 DEF IsLinesRead, LinesRead, NoLine
<1> DEFINE u == LinesRead(s)
<1>8. u[0] = NoLine /\ \A n \in 1..N : u[n] = AddLetter(u[n - 1], s[n])
  BY <1>1, <1>7 DEF IsLinesRead
<1>9. \A n \in 0..N : u[n] \in LinesState
  <2> HIDE DEF N, u
  <2>1. \A n \in 1..N : u[n - 1] \in LinesState => u[n] \in LinesState
    BY <1>2, <1>8
  <2> QED BY <1>1, <1>8, <2>1, LoopKeeps
<1> QED BY <1>8, <1>9

(* A text is its lines joined, but for a line feed at its end. *)
LEMMA LinesAre ==
  ASSUME NEW s \in Text
  PROVE  /\ Lines(s) \in Seq(Text)
         /\ s = Joined(Lines(s)) \/ s = Joined(Lines(s)) \o <<"/">>
<1> DEFINE N == Len(s)
           u == LinesRead(s)
<1>1. N \in Nat /\ \A n \in 1..N : s[n] \in Char
  BY DEF Text
<1>2. /\ u[0] = NoLine /\ \A n \in 1..N : u[n] = AddLetter(u[n - 1], s[n])
      /\ \A n \in 0..N : u[n] \in LinesState
  BY LinesReadRuns
<1>3. Lines(s) = IF Last(u[N]) = <<>> THEN Front(u[N]) ELSE u[N]
  BY DEF Lines
<1> HIDE DEF u
<1> DEFINE S == {n \in 0..N : Joined(u[n]) = SubSeq(s, 1, n)}
<1>4. 0 \in S
  <2>1. SubSeq(s, 1, 0) = <<>> BY SubSeqEmpty
  <2>2. 0 \in 0..N BY <1>1
  <2>3. Joined(u[0]) = <<>> BY <1>2, NoLineType
  <2> QED BY <2>1, <2>2, <2>3
<1>5. ASSUME NEW n \in 0..(N - 1), n \in S PROVE n + 1 \in S
  <2>1. n + 1 \in 1..N /\ (n + 1) - 1 = n /\ n \in 0..N /\ n + 1 \in 0..N /\ 1 \in 1..N BY <1>1
  <2>2. u[n + 1] = AddLetter(u[n], s[n + 1]) /\ u[n] \in LinesState /\ s[n + 1] \in Char BY <1>1, <1>2, <2>1
  <2>3. Joined(u[n + 1]) = Append(Joined(u[n]), s[n + 1]) BY <2>2, AddLetterIs
  <2>4. SubSeq(s, 1, n + 1) = SubSeq(s, 1, n) \o <<s[n + 1]>>
    <3>1. n + 1 \in 1..Len(s) /\ 1 \in 1..Len(s) BY <2>1
    <3>2. SubSeq(s, 1, n + 1) = SubSeq(s, 1, (n + 1) - 1) \o <<s[n + 1]>>
      BY <3>1, SubSeqRecursiveSecond DEF Text
    <3> QED BY <2>1, <3>2
  <2>5. SubSeq(s, 1, n) \in Seq(Char)
    <3>1. Joined(u[n]) \in Text BY <2>2, JoinedType DEF LinesState
    <3> QED BY <1>5, <3>1 DEF Text
  <2>6. Append(SubSeq(s, 1, n), s[n + 1]) = SubSeq(s, 1, n) \o <<s[n + 1]>>
    BY <2>2, <2>5, AppendIsConcat
  <2> QED BY <1>5, <2>1, <2>3, <2>4, <2>6
<1>6. Joined(u[N]) = s /\ u[N] \in Seq(Text) /\ u[N] # <<>>
  <2>1. \A n \in 0..N : n \in S
    <3> HIDE DEF S
    <3> QED BY <1>1, <1>4, <1>5, SetInduction
  <2>2. N \in 0..N BY <1>1
  <2>3. SubSeq(s, 1, N) = s BY SubSeqFull DEF Text
  <2> QED BY <1>2, <2>1, <2>2, <2>3 DEF LinesState
<1>7. PICK all \in Seq(Text) : all = u[N] /\ all # <<>>
  BY <1>6
<1>8. Front(all) \in Seq(Text) /\ Last(all) \in Text /\ all = Append(Front(all), Last(all))
  BY <1>7, FrontAndLast
<1>9. CASE Last(all) = <<>>
  <2>1. Joined(all) = IF Front(all) = <<>> THEN <<>> ELSE Under(Joined(Front(all)), <<>>)
    <3>1. Joined(Append(Front(all), Last(all))) =
            IF Front(all) = <<>> THEN Last(all) ELSE Under(Joined(Front(all)), Last(all))
      BY <1>8, JoinedAppend
    <3> QED BY <1>8, <1>9, <3>1
  <2>2. Under(Joined(Front(all)), <<>>) = Joined(Front(all)) \o <<"/">>
    <3>1. Joined(Front(all)) \o <<"/">> \in Seq(Char) BY <1>8, JoinedType, TokensOfLines DEF Text
    <3> QED BY <3>1, ConcatEmptySeq DEF Under
  <2>3. Lines(s) = Front(all) BY <1>3, <1>7, <1>9
  <2> QED BY <1>6, <1>7, <1>8, <2>1, <2>2, <2>3, NothingJoined
<1>10. CASE Last(all) # <<>>
  BY <1>3, <1>6, <1>7, <1>10
<1> QED BY <1>9, <1>10

----------------------------------------------------------------------------
(* Pieces of a text that is over the budget. *)
Part(s, start, end) == SubSeq(s, start + 1, end)

(* A part of a text is a text of that length. *)
LEMMA PartType ==
  ASSUME NEW s \in Text, NEW start \in 0..Len(s), NEW end \in start..Len(s)
  PROVE  Part(s, start, end) \in Text /\ Len(Part(s, start, end)) = end - start
<1>1. Len(s) \in Nat
  BY DEF Text
<1>2. start + 1 \in Int /\ end \in Int /\ \A i \in (start + 1)..end : s[i] \in Char
  BY <1>1 DEF Text
<1>3. SubSeq(s, start + 1, end) \in Seq(Char)
      /\ Len(SubSeq(s, start + 1, end)) = IF start + 1 <= end THEN end - (start + 1) + 1 ELSE 0
  BY <1>2, SubSeqProperties
<1> QED BY <1>1, <1>3 DEF Part, Text

(* A part of one character is that character. *)
LEMMA PartIsOne ==
  ASSUME NEW s \in Text, NEW i \in 1..Len(s)
  PROVE  SubSeq(s, i, i) = <<s[i]>> /\ s[i] \in Char
<1>1. s[i] \in Char /\ i \in Int
  BY DEF Text
<1>2. \A j \in i..i : s[j] \in Char
  BY <1>1
<1>3. PICK t \in Seq(Char) : t = SubSeq(s, i, i) /\ Len(t) = 1 /\ t[1] = s[i]
  <2>1. i <= i /\ i - i + 1 = 1 /\ 1 \in 1..1 /\ i + 1 - 1 = i BY <1>1
  <2>2. Len(SubSeq(s, i, i)) = IF i <= i THEN i - i + 1 ELSE 0 BY <1>1, <1>2, SubSeqProperties
  <2>3. SubSeq(s, i, i)[1] = s[i + 1 - 1] /\ SubSeq(s, i, i) \in Seq(Char)
    BY <1>1, <1>2, <2>1, SubSeqProperties
  <2> QED BY <2>1, <2>2, <2>3
<1>4. PICK u \in Seq(Char) : u = <<s[i]>> /\ Len(u) = 1 /\ u[1] = s[i]
  <2>1. PICK c \in Char : c = s[i] BY <1>1
  <2>2. <<c>> \in Seq(Char) /\ Len(<<c>>) = 1 /\ <<c>>[1] = c OBVIOUS
  <2> QED BY <2>1, <2>2
<1>5. \A j \in 1..Len(t) : t[j] = u[j]
  BY <1>3, <1>4
<1>6. t = u
  BY <1>3, <1>4, <1>5, SeqEqual
<1> QED BY <1>1, <1>3, <1>4, <1>6

(* The windows end where the text still is in the budget, and the first    *)
(* one holds one character.                                                *)
WindowState(s, start, max) ==
  {loop \in [window : Nat \ {0}, end : start..Len(s)] :
     IF loop.end = start THEN loop.window = 1 ELSE Tokens(Part(s, start, loop.end)) <= max}
WindowStart(start) == [window |-> 1, end |-> start]

(* A window that is widened holds a text within the budget or is the first. *)
LEMMA WidenedType ==
  ASSUME NEW s \in Text, NEW start \in 0..(Len(s) - 1), NEW max \in Int,
         NEW loop \in WindowState(s, start, max)
  PROVE  /\ Candidate(s, start, loop) \in (start + 1)..Len(s)
         /\ Widened(s, start, max, loop) \in WindowState(s, start, max)
<1>1. Len(s) \in Nat /\ loop.window \in Nat \ {0} /\ loop.end \in start..Len(s)
  BY DEF Text, WindowState
<1>2. PICK c \in (start + 1)..Len(s) : c = Candidate(s, start, loop)
  BY <1>1 DEF Candidate, Smaller
<1>3. CASE loop.end < Len(s) /\ Tokens(SubSeq(s, start + 1, c)) <= max
  <2>1. Widened(s, start, max, loop) = [window |-> 2 * loop.window, end |-> c]
    BY <1>2, <1>3 DEF Widened
  <2>2. 2 * loop.window \in Nat \ {0} /\ c \in start..Len(s) /\ c # start
    BY <1>1
  <2>3. \A w \in Nat \ {0} : [window |-> w, end |-> c] \in WindowState(s, start, max)
    BY <1>3, <2>2 DEF WindowState, Part
  <2> QED BY <1>2, <2>1, <2>2, <2>3
<1>4. CASE ~(loop.end < Len(s) /\ Tokens(SubSeq(s, start + 1, c)) <= max)
  <2>1. Widened(s, start, max, loop) = loop
    BY <1>2, <1>4 DEF Widened
  <2> QED BY <1>2, <2>1
<1> QED BY <1>3, <1>4

(* The loop over the windows *)
IsWindows(f, s, start, max) ==
  f = [n \in 0..Len(s) |-> IF n = 0 THEN WindowStart(start) ELSE Widened(s, start, max, f[n - 1])]

(* The loop of doubling windows runs round by round. *)
LEMMA WindowsRuns ==
  ASSUME NEW s \in Text, NEW start \in 0..(Len(s) - 1), NEW max \in Int
  PROVE  /\ Windows(s, start, max)[0] = WindowStart(start)
         /\ \A n \in 1..Len(s) : Windows(s, start, max)[n] = Widened(s, start, max, Windows(s, start, max)[n - 1])
         /\ \A n \in 0..Len(s) : Windows(s, start, max)[n] \in WindowState(s, start, max)
<1> DEFINE N == Len(s)
           g == [p \in WindowState(s, start, max) \X (1..N) |-> Widened(s, start, max, p[1])]
<1>1. N \in Nat /\ WindowStart(start) \in WindowState(s, start, max)
  BY DEF WindowState, WindowStart, Text
<1>2. \A acc \in WindowState(s, start, max), n \in 1..N : Widened(s, start, max, acc) \in WindowState(s, start, max)
  BY WidenedType
<1>3. g \in [WindowState(s, start, max) \X (1..N) -> WindowState(s, start, max)]
  BY <1>2
<1>4. PICK f : Run(f, WindowState(s, start, max), WindowStart(start), g, N)
  <2> HIDE DEF N, g
  <2> QED BY <1>1, <1>3, LoopRuns
<1>5. ASSUME NEW n \in 0..N
      PROVE  f[n] = IF n = 0 THEN WindowStart(start) ELSE Widened(s, start, max, f[n - 1])
  <2>1. n # 0 => n - 1 \in 0..N /\ n \in 1..N BY <1>1
  <2>2. n # 0 => f[n - 1] \in WindowState(s, start, max) BY <1>4, <2>1 DEF Run
  <2>3. f[n] = IF n = 0 THEN WindowStart(start) ELSE g[<<f[n - 1], n>>] BY <1>4 DEF Run
  <2> QED BY <2>1, <2>2, <2>3
<1>6. IsWindows(f, s, start, max)
  <2>1. f = [n \in 0..N |-> f[n]] BY <1>4 DEF Run
  <2> QED BY <1>5, <2>1 DEF IsWindows
<1>7. IsWindows(Windows(s, start, max), s, start, max)
  BY <1>6 DEF IsWindows, Windows, WindowStart
<1> DEFINE u == Windows(s, start, max)
<1>8. u[0] = WindowStart(start) /\ \A n \in 1..N : u[n] = Widened(s, start, max, u[n - 1])
  BY <1>1, <1>7 DEF IsWindows
<1>9. \A n \in 0..N : u[n] \in WindowState(s, start, max)
  <2> HIDE DEF N, u
  <2>1. \A n \in 1..N : u[n - 1] \in WindowState(s, start, max) => u[n] \in WindowState(s, start, max)
    BY <1>2, <1>8
  <2> QED BY <1>1, <1>8, <2>1, LoopKeeps
<1> QED BY <1>8, <1>9

(* The bisection never ends before it began. *)
BisectState(s, start, max, from) ==
  {loop \in [low : Nat, high : Int, end : from..Len(s)] :
     /\ loop.low > from /\ loop.high <= Len(s)
     /\ loop.end # start => Tokens(Part(s, start, loop.end)) <= max}
BisectStart(end, candidate) == [low |-> end + 1, high |-> candidate - 1, end |-> end]

(* A round of the bisection keeps an end whose text is within the budget. *)
LEMMA HalvedType ==
  ASSUME NEW s \in Text, NEW start \in 0..(Len(s) - 1), NEW max \in Int, NEW from \in start..Len(s),
         NEW loop \in BisectState(s, start, max, from)
  PROVE  Halved(s, start, max, loop) \in BisectState(s, start, max, from)
<1>1. /\ Len(s) \in Nat /\ loop.low \in Nat /\ loop.high \in Int /\ loop.end \in from..Len(s)
      /\ loop.low > from /\ loop.high <= Len(s)
  BY DEF Text, BisectState
<1> DEFINE middle == (loop.low + loop.high) \div 2
<1>2. CASE loop.low > loop.high
  BY <1>2 DEF Halved
<1>3. CASE ~(loop.low > loop.high)
  <2>1. PICK m \in loop.low..loop.high : m = middle
    BY <1>1, <1>3
  <2>2. middle \in from..Len(s) /\ middle + 1 \in Nat /\ middle - 1 \in Int
        /\ middle + 1 > from /\ middle - 1 <= Len(s)
    <3> HIDE DEF middle
    <3>1. m \in Nat /\ from \in Nat /\ m > from /\ m <= Len(s) BY <1>1
    <3>2. m \in from..Len(s) /\ m + 1 \in Nat /\ m - 1 \in Int /\ m + 1 > from /\ m - 1 <= Len(s)
      BY <1>1, <3>1
    <3> QED BY <2>1, <3>2
  <2>3. CASE Tokens(SubSeq(s, start + 1, middle)) <= max
    <3>1. Halved(s, start, max, loop) = [low |-> middle + 1, high |-> loop.high, end |-> middle]
      BY <1>3, <2>3 DEF Halved
    <3> HIDE DEF middle
    <3> QED BY <1>1, <2>2, <2>3, <3>1 DEF BisectState, Part
  <2>4. CASE ~(Tokens(SubSeq(s, start + 1, middle)) <= max)
    <3>1. Halved(s, start, max, loop) = [low |-> loop.low, high |-> middle - 1, end |-> loop.end]
      BY <1>3, <2>4 DEF Halved
    <3>2. loop.end # start => Tokens(Part(s, start, loop.end)) <= max
      BY DEF BisectState
    <3> HIDE DEF middle
    <3> QED BY <1>1, <2>2, <3>1, <3>2 DEF BisectState
  <2> QED BY <2>3, <2>4
<1> QED BY <1>2, <1>3

(* The loop of the bisection *)
IsBisect(f, s, start, max, end, candidate) ==
  f = [n \in 0..Len(s) |-> IF n = 0 THEN BisectStart(end, candidate) ELSE Halved(s, start, max, f[n - 1])]

(* The bisection runs round by round. *)
LEMMA BisectRuns ==
  ASSUME NEW s \in Text, NEW start \in 0..(Len(s) - 1), NEW max \in Int, NEW end \in start..Len(s),
         NEW candidate \in Int, candidate - 1 <= Len(s), end # start => Tokens(Part(s, start, end)) <= max
  PROVE  /\ Bisect(s, start, max, end, candidate)[0] = BisectStart(end, candidate)
         /\ \A n \in 1..Len(s) : Bisect(s, start, max, end, candidate)[n] = Halved(s, start, max, Bisect(s, start, max, end, candidate)[n - 1])
         /\ \A n \in 0..Len(s) : Bisect(s, start, max, end, candidate)[n] \in BisectState(s, start, max, end)
<1> DEFINE N == Len(s)
           g == [p \in BisectState(s, start, max, end) \X (1..N) |-> Halved(s, start, max, p[1])]
<1>1. N \in Nat /\ BisectStart(end, candidate) \in BisectState(s, start, max, end)
  BY DEF BisectState, BisectStart, Text
<1>2. \A acc \in BisectState(s, start, max, end), n \in 1..N : Halved(s, start, max, acc) \in BisectState(s, start, max, end)
  BY HalvedType
<1>3. g \in [BisectState(s, start, max, end) \X (1..N) -> BisectState(s, start, max, end)]
  BY <1>2
<1>4. PICK f : Run(f, BisectState(s, start, max, end), BisectStart(end, candidate), g, N)
  <2> HIDE DEF N, g
  <2> QED BY <1>1, <1>3, LoopRuns
<1>5. ASSUME NEW n \in 0..N
      PROVE  f[n] = IF n = 0 THEN BisectStart(end, candidate) ELSE Halved(s, start, max, f[n - 1])
  <2>1. n # 0 => n - 1 \in 0..N /\ n \in 1..N BY <1>1
  <2>2. n # 0 => f[n - 1] \in BisectState(s, start, max, end) BY <1>4, <2>1 DEF Run
  <2>3. f[n] = IF n = 0 THEN BisectStart(end, candidate) ELSE g[<<f[n - 1], n>>] BY <1>4 DEF Run
  <2> QED BY <2>1, <2>2, <2>3
<1>6. IsBisect(f, s, start, max, end, candidate)
  <2>1. f = [n \in 0..N |-> f[n]] BY <1>4 DEF Run
  <2> QED BY <1>5, <2>1 DEF IsBisect
<1>7. IsBisect(Bisect(s, start, max, end, candidate), s, start, max, end, candidate)
  BY <1>6 DEF IsBisect, Bisect, BisectStart
<1> DEFINE u == Bisect(s, start, max, end, candidate)
<1>8. u[0] = BisectStart(end, candidate) /\ \A n \in 1..N : u[n] = Halved(s, start, max, u[n - 1])
  BY <1>1, <1>7 DEF IsBisect
<1>9. \A n \in 0..N : u[n] \in BisectState(s, start, max, end)
  <2> HIDE DEF N, u
  <2>1. \A n \in 1..N : u[n - 1] \in BisectState(s, start, max, end) => u[n] \in BisectState(s, start, max, end)
    BY <1>2, <1>8
  <2> QED BY <1>1, <1>8, <2>1, LoopKeeps
<1> QED BY <1>8, <1>9

(* A piece is in the budget, or it is empty because the first character is *)
(* not.                                                                    *)
LEMMA PieceEndIs ==
  ASSUME NEW s \in Text, NEW start \in 0..(Len(s) - 1), NEW max \in Int
  PROVE  /\ PieceEnd(s, start, max) \in start..Len(s)
         /\ PieceEnd(s, start, max) # start => Tokens(Part(s, start, PieceEnd(s, start, max))) <= max
         /\ PieceEnd(s, start, max) = start => Tokens(<<s[start + 1]>>) > max
<1> DEFINE N == Len(s)
           u == Windows(s, start, max)
           A == WindowState(s, start, max)
<1>1. N \in Nat \ {0} /\ start \in Nat
  BY DEF Text
<1>2. /\ \A n \in 1..N : u[n] = Widened(s, start, max, u[n - 1])
      /\ \A n \in 0..N : u[n] \in A
  BY WindowsRuns
<1> HIDE DEF u, A
<1>3. PICK before \in A, last \in A :
        last = u[N] /\ last = Widened(s, start, max, before)
  <2>1. N \in 1..N /\ N - 1 \in 0..N /\ N \in 0..N BY <1>1
  <2> QED BY <1>2, <2>1
<1>4. /\ before.end \in start..N /\ (before.end = start => before.window = 1)
      /\ last.end \in start..N /\ (last.end # start => Tokens(Part(s, start, last.end)) <= max)
  BY DEF A, WindowState
<1>5. Candidate(s, start, last) \in (start + 1)..N
  BY WidenedType DEF A
<1>6. last.end = start => Tokens(<<s[start + 1]>>) > max
  <2> SUFFICES ASSUME last.end = start PROVE Tokens(<<s[start + 1]>>) > max
    OBVIOUS
  <2>1. PICK c \in (start + 1)..N : c = Candidate(s, start, before)
    BY WidenedType DEF A
  <2>2. ~(before.end < Len(s) /\ Tokens(SubSeq(s, start + 1, c)) <= max)
    <3> SUFFICES ASSUME before.end < Len(s) /\ Tokens(SubSeq(s, start + 1, c)) <= max PROVE FALSE
      OBVIOUS
    <3>1. last = [window |-> 2 * before.window, end |-> c] BY <1>3, <2>1 DEF Widened
    <3>2. last.end = c BY <3>1
    <3> QED BY <1>1, <3>2
  <2>3. last = before
    BY <1>3, <2>1, <2>2 DEF Widened
  <2>4. before.end = start /\ before.window = 1 /\ before.end < Len(s)
    BY <1>1, <1>4, <2>3
  <2>5. c = start + 1
    BY <1>1, <2>1, <2>4 DEF Candidate, Smaller
  <2>6. SubSeq(s, start + 1, start + 1) = <<s[start + 1]>>
    <3>1. start + 1 \in 1..Len(s) BY <1>1
    <3> QED BY <3>1, PartIsOne
  <2>7. s[start + 1] \in Char
    <3>1. start + 1 \in 1..Len(s) BY <1>1
    <3> QED BY <3>1 DEF Text
  <2>8. Tokens(<<s[start + 1]>>) \in Nat
    BY <2>7, CharacterTokens
  <2>9. PICK n \in Nat : n = Tokens(<<s[start + 1]>>)
    BY <2>8
  <2>10. ~(n <= max)
    BY <2>2, <2>4, <2>5, <2>6, <2>9
  <2> QED BY <2>9, <2>10
<1>7. CASE last.end = N
  <2>1. PieceEnd(s, start, max) = last.end
    BY <1>3, <1>7 DEF PieceEnd, u
  <2> QED BY <1>4, <1>6, <2>1
<1>8. CASE last.end # N
  <2> DEFINE c == Candidate(s, start, last)
             b == Bisect(s, start, max, last.end, c)
  <2>1. PieceEnd(s, start, max) = b[N].end
    BY <1>3, <1>8 DEF PieceEnd, u
  <2>2. c \in Int /\ c - 1 <= N
    BY <1>1, <1>5
  <2>3. b[N] \in BisectState(s, start, max, last.end)
    <3> HIDE DEF c
    <3>1. last.end \in start..Len(s) BY <1>4
    <3>2. \A n \in 0..Len(s) : b[n] \in BisectState(s, start, max, last.end)
      BY <1>4, <2>2, <3>1, BisectRuns
    <3> QED BY <1>1, <3>2
  <2> HIDE DEF b, c
  <2>4. b[N].end \in last.end..N /\ (b[N].end # start => Tokens(Part(s, start, b[N].end)) <= max)
    BY <2>3 DEF BisectState
  <2>5. b[N].end \in start..N /\ (b[N].end = start => last.end = start)
    BY <1>1, <1>4, <2>4
  <2> QED BY <1>6, <2>1, <2>4, <2>5
<1> QED BY <1>7, <1>8

(* What becomes of a text: its pieces in their order, none of them over    *)
(* the budget, unless one of its characters is.                            *)
Within(max) == {t \in Text : t # <<>> /\ Tokens(t) <= max}
Piece(max) == {None} \union Within(max)
TooSmall(s, max) == \E n \in DOMAIN s : Tokens(<<s[n]>>) > max

(* Pieces without an exception are texts within the budget. *)
LEMMA NotRaised ==
  ASSUME NEW max \in Int, NEW pieces \in Seq(Piece(max)), ~Raised(pieces)
  PROVE  pieces \in Seq(Within(max)) /\ pieces \in Seq(Text) /\ pieces \in Seq(Seq(Char))
<1>1. \A k \in 1..Len(pieces) : pieces[k] \in Piece(max) /\ pieces[k] # None
  BY DEF Raised
<1>2. \A k \in 1..Len(pieces) : pieces[k] \in Within(max)
  BY <1>1 DEF Piece
<1>3. pieces \in Seq(Within(max))
  <2>1. Len(pieces) \in Nat /\ pieces \in [1..Len(pieces) -> Piece(max)] OBVIOUS
  <2>2. pieces \in [1..Len(pieces) -> Within(max)]
    BY <1>2, <2>1
  <2> QED BY <2>1, <2>2
<1>4. Within(max) \subseteq Text
  BY DEF Within
<1> QED BY <1>3, <1>4, SeqMonotonic DEF Text

PieceState(s, max) ==
  {loop \in [start : 0..Len(s), pieces : Seq(Piece(max))] :
     /\ Raised(loop.pieces) => TooSmall(s, max)
     /\ ~Raised(loop.pieces) => FlattenSeq(loop.pieces) = Part(s, 0, loop.start)}
PiecesStart == [start |-> 0, pieces |-> <<>>]

(* A round of _split_text cuts off a piece within the budget and gets      *)
(* further, or raises because one character is over it.                    *)
LEMMA SplitOffType ==
  ASSUME NEW s \in Text, NEW max \in Int, NEW loop \in PieceState(s, max)
  PROVE  /\ SplitOff(s, max, loop) \in PieceState(s, max)
         /\ loop.start # Len(s) => /\ SplitOff(s, max, loop).start > loop.start
                                   /\ SplitOff(s, max, loop).pieces # <<>>
         /\ loop.start = Len(s) => SplitOff(s, max, loop) = loop
<1> DEFINE N == Len(s)
           end == PieceEnd(s, loop.start, max)
<1>1. /\ N \in Nat /\ loop.start \in 0..N /\ loop.pieces \in Seq(Piece(max))
      /\ Raised(loop.pieces) => TooSmall(s, max)
      /\ ~Raised(loop.pieces) => FlattenSeq(loop.pieces) = Part(s, 0, loop.start)
  BY DEF PieceState, Text
<1>2. CASE loop.start = Len(s)
  <2>1. SplitOff(s, max, loop) = loop
    BY <1>2 DEF SplitOff
  <2> QED BY <1>2, <2>1
<1>3. CASE loop.start # Len(s)
  <2>1. loop.start \in 0..(N - 1) /\ loop.start + 1 \in 1..N
    BY <1>1, <1>3
  <2>2. /\ end \in loop.start..N
        /\ end # loop.start => Tokens(Part(s, loop.start, end)) <= max
        /\ end = loop.start => Tokens(<<s[loop.start + 1]>>) > max
    BY <2>1, PieceEndIs
  <2>3. PICK start \in 0..(N - 1) : start = loop.start
    BY <2>1
  <2> HIDE DEF end
  <2>4. CASE end = start
    <3>1. SplitOff(s, max, loop) = [start |-> N, pieces |-> Append(loop.pieces, None)]
      BY <1>3, <2>3, <2>4 DEF SplitOff, end
    <3>2. None \in Piece(max)
      BY DEF Piece
    <3>3. PICK more \in Seq(Piece(max)) :
            /\ more = Append(loop.pieces, None) /\ Len(more) = Len(loop.pieces) + 1
            /\ more[Len(loop.pieces) + 1] = None /\ Len(loop.pieces) \in Nat
      <4>1. PICK before \in Seq(Piece(max)) : before = loop.pieces BY <1>1
      <4>2. /\ Append(before, None) \in Seq(Piece(max)) /\ Len(Append(before, None)) = Len(before) + 1
            /\ Append(before, None)[Len(before) + 1] = None /\ Len(before) \in Nat
        BY <3>2, AppendProperties
      <4> QED BY <4>1, <4>2
    <3>4. Raised(more) /\ more # <<>>
      <4>1. Len(loop.pieces) + 1 \in DOMAIN more BY <3>3
      <4> QED BY <3>3, <4>1 DEF Raised
    <3>5. TooSmall(s, max)
      <4>1. start + 1 \in DOMAIN s BY <2>1, <2>3 DEF Text
      <4> QED BY <2>2, <2>3, <2>4, <4>1 DEF TooSmall
    <3>6. N \in 0..N /\ N > start
      BY <1>1, <2>3
    <3>7. PICK done : done = [start |-> N, pieces |-> more]
      OBVIOUS
    <3>8. done.start = N /\ done.pieces = more /\ done = SplitOff(s, max, loop)
      BY <3>1, <3>3, <3>7
    <3>9. done \in [start : 0..Len(s), pieces : Seq(Piece(max))]
      BY <3>6, <3>7
    <3>10. done \in PieceState(s, max)
      BY <3>4, <3>5, <3>8, <3>9 DEF PieceState
    <3> QED BY <1>3, <2>3, <3>4, <3>6, <3>8, <3>10
  <2>5. CASE end # start
    <3>1. PICK p : p = Part(s, start, end)
      OBVIOUS
    <3>2. SplitOff(s, max, loop) = [start |-> end, pieces |-> Append(loop.pieces, p)]
      BY <1>3, <2>3, <2>5, <3>1 DEF SplitOff, end, Part
    <3>3. p \in Within(max)
      <4>1. start \in 0..Len(s) /\ end \in start..Len(s) /\ end - start # 0 BY <1>1, <2>2, <2>3, <2>5
      <4>2. p \in Text /\ Len(p) = end - start BY <3>1, <4>1, PartType
      <4>3. p # <<>> BY <4>1, <4>2
      <4> QED BY <2>2, <2>3, <2>5, <3>1, <4>2, <4>3 DEF Within
    <3>4. p \in Piece(max) /\ p # None
      BY <3>3, ChunkAssumption DEF Piece, Within
    <3>5. PICK before \in Seq(Piece(max)), more \in Seq(Piece(max)) :
            /\ before = loop.pieces /\ more = Append(before, p) /\ Len(more) = Len(before) + 1
            /\ more[Len(more)] = p /\ Len(before) \in Nat /\ \A k \in 1..Len(before) : more[k] = before[k]
      <4>1. PICK before \in Seq(Piece(max)) : before = loop.pieces BY <1>1
      <4>2. /\ Append(before, p) \in Seq(Piece(max)) /\ Len(Append(before, p)) = Len(before) + 1
            /\ Append(before, p)[Len(before) + 1] = p /\ Len(before) \in Nat
            /\ \A k \in 1..Len(before) : Append(before, p)[k] = before[k]
        BY <3>4, AppendProperties
      <4> QED BY <4>1, <4>2
    <3>6. Raised(more) <=> Raised(before)
      <4>1. DOMAIN more = 1..(Len(before) + 1) /\ DOMAIN before = 1..Len(before)
        BY <3>5
      <4>2. \A k \in 1..(Len(before) + 1) : k \in 1..Len(before) \/ k = Len(more)
        BY <3>5
      <4>3. \A k \in 1..Len(before) : k \in 1..(Len(before) + 1)
        BY <3>5
      <4> QED BY <3>4, <3>5, <4>1, <4>2, <4>3 DEF Raised
    <3>7. ~Raised(more) => FlattenSeq(more) = Part(s, 0, end)
      <4> SUFFICES ASSUME ~Raised(more) PROVE FlattenSeq(more) = Part(s, 0, end)
        OBVIOUS
      <4>1. before \in Seq(Seq(Char)) /\ more \in Seq(Seq(Char))
        BY <3>6, NotRaised
      <4>2. FlattenSeq(more) = FlattenSeq(before) \o p
        <5>1. Len(more) = Len(before) + 1 /\ \A k \in 1..Len(before) : more[k] = before[k] BY <3>5
        <5>2. FlattenSeq(more) = FlattenSeq(before) \o more[Len(more)] BY <4>1, <5>1, FlattenNext
        <5> QED BY <3>5, <5>2
      <4>3. FlattenSeq(before) = Part(s, 0, start)
        BY <1>1, <2>3, <3>5, <3>6
      <4>4. SubSeq(s, 1, start) \o SubSeq(s, start + 1, end) = SubSeq(s, 1, end)
        <5>1. 1 \in 1..(Len(s) + 1) /\ start \in (1 - 1)..Len(s) /\ end \in start..Len(s)
          BY <1>1, <2>2, <2>3
        <5> QED BY <5>1, ConcatAdjacentSubSeq DEF Text
      <4>5. \A n \in Int : Part(s, 0, n) = SubSeq(s, 1, n)
        <5>1. 0 + 1 = 1 OBVIOUS
        <5> QED BY <5>1 DEF Part
      <4>6. start \in Int /\ end \in Int BY <1>1, <2>2, <2>3
      <4>7. p = SubSeq(s, start + 1, end) BY <3>1 DEF Part
      <4> QED BY <4>2, <4>3, <4>4, <4>5, <4>6, <4>7
    <3>8. end \in 0..N /\ end > start /\ more # <<>>
      BY <1>1, <2>2, <2>3, <2>5, <3>5
    <3>9. SplitOff(s, max, loop) = [start |-> end, pieces |-> more]
      BY <3>2, <3>5
    <3>10. Raised(more) => TooSmall(s, max)
      BY <1>1, <3>5, <3>6
    <3> QED BY <1>3, <2>3, <3>7, <3>8, <3>9, <3>10 DEF PieceState
  <2> QED BY <2>4, <2>5
<1> QED BY <1>2, <1>3

(* At the start nothing is split off. *)
LEMMA NothingSplit ==
  ASSUME NEW s \in Text, NEW max \in Int
  PROVE  PiecesStart \in PieceState(s, max)
<1>1. <<>> \in Seq(Piece(max)) /\ 0 \in 0..Len(s) /\ ~Raised(<<>>)
  BY DEF Raised, Text
<1>2. Part(s, 0, 0) = <<>>
  BY SubSeqEmpty DEF Part
<1>3. FlattenSeq(<<>>) = <<>>
  <2>1. Len(<<>>) = 0 OBVIOUS
  <2> QED BY <2>1 DEF FlattenSeq
<1> QED BY <1>1, <1>2, <1>3 DEF PieceState, PiecesStart

(* The loop over the pieces *)
IsPiecesRead(f, s, max) ==
  f = [n \in 0..Len(s) |-> IF n = 0 THEN PiecesStart ELSE SplitOff(s, max, f[n - 1])]

(* The loop of _split_text runs round by round. *)
LEMMA PiecesReadRuns ==
  ASSUME NEW s \in Text, NEW max \in Int
  PROVE  /\ PiecesRead(s, max)[0] = PiecesStart
         /\ \A n \in 1..Len(s) : PiecesRead(s, max)[n] = SplitOff(s, max, PiecesRead(s, max)[n - 1])
         /\ \A n \in 0..Len(s) : PiecesRead(s, max)[n] \in PieceState(s, max)
<1> DEFINE N == Len(s)
           g == [p \in PieceState(s, max) \X (1..N) |-> SplitOff(s, max, p[1])]
<1>1. N \in Nat /\ PiecesStart \in PieceState(s, max)
  BY NothingSplit DEF Text
<1>2. \A acc \in PieceState(s, max), n \in 1..N : SplitOff(s, max, acc) \in PieceState(s, max)
  BY SplitOffType
<1>3. g \in [PieceState(s, max) \X (1..N) -> PieceState(s, max)]
  BY <1>2
<1>4. PICK f : Run(f, PieceState(s, max), PiecesStart, g, N)
  <2> HIDE DEF N, g
  <2> QED BY <1>1, <1>3, LoopRuns
<1>5. ASSUME NEW n \in 0..N
      PROVE  f[n] = IF n = 0 THEN PiecesStart ELSE SplitOff(s, max, f[n - 1])
  <2>1. n # 0 => n - 1 \in 0..N /\ n \in 1..N BY <1>1
  <2>2. n # 0 => f[n - 1] \in PieceState(s, max) BY <1>4, <2>1 DEF Run
  <2>3. f[n] = IF n = 0 THEN PiecesStart ELSE g[<<f[n - 1], n>>] BY <1>4 DEF Run
  <2> QED BY <2>1, <2>2, <2>3
<1>6. IsPiecesRead(f, s, max)
  <2>1. f = [n \in 0..N |-> f[n]] BY <1>4 DEF Run
  <2> QED BY <1>5, <2>1 DEF IsPiecesRead
<1>7. IsPiecesRead(PiecesRead(s, max), s, max)
  BY <1>6 DEF IsPiecesRead, PiecesRead, PiecesStart
<1> DEFINE u == PiecesRead(s, max)
<1>8. u[0] = PiecesStart /\ \A n \in 1..N : u[n] = SplitOff(s, max, u[n - 1])
  BY <1>1, <1>7 DEF IsPiecesRead
<1>9. \A n \in 0..N : u[n] \in PieceState(s, max)
  <2> HIDE DEF N, u
  <2>1. \A n \in 1..N : u[n - 1] \in PieceState(s, max) => u[n] \in PieceState(s, max)
    BY <1>2, <1>8
  <2> QED BY <1>1, <1>8, <2>1, LoopKeeps
<1> QED BY <1>8, <1>9

(* _split_text returns pieces within the budget that together are the text,*)
(* or raises because one character is over the budget.                     *)
LEMMA PiecesAre ==
  ASSUME NEW s \in Text, NEW max \in Int
  PROVE  /\ Pieces(s, max) \in Seq(Piece(max))
         /\ Raised(Pieces(s, max)) => TooSmall(s, max)
         /\ ~Raised(Pieces(s, max)) => FlattenSeq(Pieces(s, max)) = s
         /\ s # <<>> => Pieces(s, max) # <<>>
<1> DEFINE N == Len(s)
           u == PiecesRead(s, max)
<1>1. N \in Nat /\ Pieces(s, max) = u[N].pieces
  BY DEF Pieces, Text
<1>2. /\ u[0] = PiecesStart
      /\ \A n \in 1..N : u[n] = SplitOff(s, max, u[n - 1])
      /\ \A n \in 0..N : u[n] \in PieceState(s, max)
  BY PiecesReadRuns
<1> HIDE DEF u
<1> DEFINE S == {n \in 0..N : u[n].start >= n /\ (n # 0 => u[n].pieces # <<>>)}
<1>3. 0 \in S
  BY <1>1, <1>2 DEF PiecesStart
<1>4. ASSUME NEW n \in 0..(N - 1), n \in S PROVE n + 1 \in S
  <2>1. n + 1 \in 1..N /\ (n + 1) - 1 = n /\ n \in 0..N /\ n + 1 \in 0..N /\ n \in Nat
    BY <1>1
  <2>2. PICK loop \in PieceState(s, max) : loop = u[n] /\ u[n + 1] = SplitOff(s, max, loop)
    BY <1>2, <2>1
  <2>3. PICK next \in PieceState(s, max) : next = SplitOff(s, max, loop)
    BY SplitOffType
  <2>4. loop.start \in 0..N /\ next.start \in 0..N
    BY DEF PieceState
  <2>5. CASE loop.start # N
    <3>1. next.start > loop.start /\ next.pieces # <<>>
      BY <2>3, <2>5, SplitOffType
    <3>2. loop.start >= n BY <1>4, <2>2
    <3>3. next.start >= n + 1 BY <2>1, <2>4, <3>1, <3>2
    <3> QED BY <2>1, <2>2, <2>3, <3>1, <3>3
  <2>6. CASE loop.start = N
    <3>1. next = loop
      BY <2>3, <2>6, SplitOffType
    <3>2. n # 0
      <4>1. n = 0 => loop.start = 0 BY <1>2, <2>2 DEF PiecesStart
      <4> QED BY <1>1, <1>4, <2>1, <2>6, <4>1
    <3>3. next.pieces # <<>> BY <1>4, <2>2, <3>1, <3>2
    <3>4. next.start >= n + 1 BY <1>1, <2>1, <2>6, <3>1
    <3> QED BY <2>1, <2>2, <2>3, <3>3, <3>4
  <2> QED BY <2>5, <2>6
<1>5. N \in S
  <2>1. \A n \in 0..N : n \in S
    <3> HIDE DEF S, N
    <3> QED BY <1>1, <1>3, <1>4, SetInduction
  <2>2. N \in 0..N BY <1>1
  <2> QED BY <2>1, <2>2
<1>6. u[N] \in PieceState(s, max) /\ u[N].start >= N
  <2>1. N \in 0..N BY <1>1
  <2> QED BY <1>2, <1>5, <2>1
<1>7. u[N].start = N
  <2>1. u[N].start \in 0..N BY <1>6 DEF PieceState
  <2> QED BY <1>1, <1>6, <2>1
<1>8. Part(s, 0, N) = s
  BY SubSeqFull DEF Part, Text
<1>9. s # <<>> => N # 0
  BY DEF Text
<1> HIDE DEF N
<1> QED BY <1>1, <1>5, <1>6, <1>7, <1>8, <1>9 DEF PieceState

----------------------------------------------------------------------------
(* The rows of a table under its repeated header. *)
HeadedChunk(header) == {c \in Text : c # <<>> /\ Fits(c) /\ \E t \in Text : c = Headed(header, t)}
RowPart(header) == {None} \union HeadedChunk(header)
RowState(header) ==
  {acc \in [chunks : Seq(RowPart(header)), rows : Seq(Text)] :
     acc.rows # <<>> => Fits(Joined(<<header>> \o acc.rows))}

(* A row under a header: its tokens are those of the header, of the line   *)
(* feed and of the row.                                                    *)
LEMMA HeadedType ==
  ASSUME NEW header \in Text, NEW t \in Text
  PROVE  /\ header \o <<"/">> \in Text /\ Headed(header, t) \in Text /\ Headed(header, t) # <<>>
         /\ Tokens(Headed(header, t)) = Tokens(header \o <<"/">>) + Tokens(t)
         /\ Tokens(header \o <<"/">>) \in Nat /\ Tokens(t) \in Nat
         /\ RowBudget(header \o <<"/">>) = MaxTokens - Tokens(header \o <<"/">>)
         /\ RowBudget(header \o <<"/">>) \in Int
<1>1. /\ header \o <<"/">> \in Text /\ Headed(header, t) \in Text
      /\ Tokens(Headed(header, t)) = Tokens(header) + 1 + Tokens(t)
      /\ Tokens(header \o <<"/">>) = Tokens(header) + 1
  BY TokensOfLines DEF Headed
<1>2. Tokens(header \o <<"/">>) \in Nat /\ Tokens(t) \in Nat
  BY <1>1, TokensType
<1>3. Headed(header, t) # <<>>
  BY UnderType DEF Under, Headed
<1> QED BY <1>1, <1>2, <1>3, ChunkAssumption DEF RowBudget

(* A part more raises nothing. *)
LEMMA RaisedAppend ==
  ASSUME NEW A, NEW s \in Seq(A), NEW e \in A, e # None
  PROVE  Raised(Append(s, e)) <=> Raised(s)
<1>1. PICK n \in Nat : n = Len(s)
  OBVIOUS
<1>2. PICK t \in Seq(A) : t = Append(s, e) /\ Len(t) = n + 1 /\ t[n + 1] = e /\ \A k \in 1..n : t[k] = s[k]
  <2>1. /\ Append(s, e) \in Seq(A) /\ Len(Append(s, e)) = Len(s) + 1 /\ Append(s, e)[Len(s) + 1] = e
        /\ \A k \in 1..Len(s) : Append(s, e)[k] = s[k]
    BY AppendProperties
  <2> QED BY <1>1, <2>1
<1>3. DOMAIN s = 1..n /\ DOMAIN t = 1..(n + 1) /\ \A k \in 1..n : k \in 1..(n + 1)
  BY <1>1, <1>2
<1>4. \A k \in 1..(n + 1) : k \in 1..n \/ k = n + 1
  BY <1>1
<1> QED BY <1>2, <1>3, <1>4 DEF Raised

(* What raises in a concatenation raises in one of the two. *)
LEMMA RaisedConcat ==
  ASSUME NEW A, NEW s \in Seq(A), NEW t \in Seq(A), Raised(s \o t)
  PROVE  Raised(s) \/ Raised(t)
<1>1. PICK m \in Nat, n \in Nat : m = Len(s) /\ n = Len(t)
  OBVIOUS
<1>2. /\ s \o t \in Seq(A) /\ Len(s \o t) = m + n
      /\ \A i \in 1..(m + n) : (s \o t)[i] = IF i <= m THEN s[i] ELSE t[i - m]
  BY <1>1, ConcatProperties
<1>3. PICK k \in 1..(m + n) : (s \o t)[k] = None
  BY <1>2 DEF Raised
<1>4. CASE k <= m
  <2>1. k \in DOMAIN s /\ s[k] = None BY <1>1, <1>2, <1>3, <1>4
  <2> QED BY <2>1 DEF Raised
<1>5. CASE ~(k <= m)
  <2>1. k - m \in DOMAIN t /\ t[k - m] = None BY <1>1, <1>2, <1>3, <1>5
  <2> QED BY <2>1 DEF Raised
<1> QED BY <1>4, <1>5

(* The chunk of the collected rows is within the budget. *)
LEMMA FlushedType ==
  ASSUME NEW header \in Text, NEW acc \in RowState(header)
  PROVE  /\ Flushed(header, acc) \in Seq(RowPart(header))
         /\ Raised(Flushed(header, acc)) <=> Raised(acc.chunks)
         /\ Flushed(header, acc) = <<>> <=> acc.chunks = <<>> /\ acc.rows = <<>>
<1>1. /\ acc.chunks \in Seq(RowPart(header)) /\ acc.rows \in Seq(Text)
      /\ acc.rows # <<>> => Fits(Joined(<<header>> \o acc.rows))
  BY DEF RowState
<1>2. CASE acc.rows = <<>>
  BY <1>1, <1>2 DEF Flushed
<1>3. CASE acc.rows # <<>>
  <2>1. PICK c : c = Joined(<<header>> \o acc.rows) /\ c = Headed(header, Joined(acc.rows))
    BY <1>1, <1>3, JoinedUnder
  <2>2. c \in HeadedChunk(header)
    <3>1. Joined(acc.rows) \in Text BY <1>1, JoinedType
    <3>2. c \in Text /\ c # <<>> BY <2>1, <3>1, HeadedType
    <3> QED BY <1>1, <1>3, <2>1, <3>1, <3>2 DEF HeadedChunk
  <2>3. c \in RowPart(header) /\ c # None
    BY <2>2, ChunkAssumption DEF RowPart, HeadedChunk
  <2>4. Flushed(header, acc) = Append(acc.chunks, c)
    BY <1>3, <2>1 DEF Flushed
  <2>5. Append(acc.chunks, c) \in Seq(RowPart(header)) /\ Append(acc.chunks, c) # <<>>
    BY <1>1, <2>3, AppendProperties
  <2>6. Raised(Append(acc.chunks, c)) <=> Raised(acc.chunks)
    BY <1>1, <2>3, RaisedAppend
  <2> QED BY <1>3, <2>4, <2>5, <2>6
<1> QED BY <1>2, <1>3

(* So are the pieces of a row under their header, as the row budget leaves *)
(* room for it.                                                            *)
LEMMA RowPartsType ==
  ASSUME NEW header \in Text, NEW pieces \in Seq(Piece(RowBudget(header \o <<"/">>)))
  PROVE  /\ RowParts(header, pieces) \in Seq(RowPart(header))
         /\ Len(RowParts(header, pieces)) = Len(pieces)
         /\ Raised(RowParts(header, pieces)) <=> Raised(pieces)
<1> DEFINE prefix == header \o <<"/">>
           max == RowBudget(prefix)
<1>1. PICK n \in Nat : n = Len(pieces) /\ DOMAIN pieces = 1..n /\ \A k \in 1..n : pieces[k] \in Piece(max)
  OBVIOUS
<1>2. ASSUME NEW p \in Piece(max)
      PROVE  PartOf(header, p) \in RowPart(header) /\ (PartOf(header, p) = None <=> p = None)
  <2>1. CASE p = None
    BY <2>1 DEF RowPart, PartOf
  <2>2. CASE p # None
    <3>1. p \in Text /\ Tokens(p) <= max
      BY <2>2 DEF Piece, Within
    <3>2. PICK c : c = Headed(header, p)
      OBVIOUS
    <3>3. /\ c \in Text /\ c # <<>> /\ Tokens(c) = Tokens(prefix) + Tokens(p)
          /\ Tokens(prefix) \in Nat /\ Tokens(p) \in Nat /\ max = MaxTokens - Tokens(prefix)
      BY <3>1, <3>2, HeadedType
    <3>4. Tokens(c) <= MaxTokens
      <4>1. PICK a \in Nat, b \in Nat : a = Tokens(prefix) /\ b = Tokens(p) BY <3>3
      <4>2. b <= MaxTokens - a /\ Tokens(c) = a + b BY <3>1, <3>3, <4>1
      <4> QED BY <4>2, ChunkAssumption
    <3>5. c \in HeadedChunk(header)
      BY <3>1, <3>2, <3>3, <3>4 DEF HeadedChunk, Fits
    <3>6. c # None
      BY <3>3, ChunkAssumption
    <3> QED BY <2>2, <3>2, <3>5, <3>6 DEF RowPart, PartOf, Headed
  <2> QED BY <2>1, <2>2
<1> HIDE DEF prefix, max
<1>3. PICK f : f = RowParts(header, pieces)
  OBVIOUS
<1>4. /\ f \in [1..n -> RowPart(header)]
      /\ \A k \in 1..n : f[k] = None <=> pieces[k] = None
  <2>1. f = [k \in 1..n |-> PartOf(header, pieces[k])] BY <1>1, <1>3 DEF RowParts
  <2> QED BY <1>1, <1>2, <2>1
<1>5. f \in Seq(RowPart(header)) /\ Len(f) = n /\ DOMAIN f = 1..n
  BY <1>4
<1> QED BY <1>1, <1>3, <1>4, <1>5 DEF Raised

(* The three branches of the loop over the rows: a row that is split, one  *)
(* that begins a new chunk, one that joins the others.                     *)
LEMMA AddRowIs ==
  ASSUME NEW header \in Text, NEW acc \in RowState(header), NEW row \in Text
  PROVE  LET prefix == header \o <<"/">>
             next == AddRow(header, acc, row) IN
         \/ /\ ~Fits(prefix \o row)
            /\ next.rows = <<>>
            /\ next.chunks = Flushed(header, acc) \o RowParts(header, Pieces(row, RowBudget(prefix)))
         \/ /\ Fits(prefix \o row)
            /\ next.rows = <<row>> /\ next.chunks = Flushed(header, acc)
         \/ /\ Fits(prefix \o row)
            /\ next.rows = Append(acc.rows, row) /\ next.chunks = acc.chunks
            /\ acc.rows = <<>> \/ Fits(Joined(<<header>> \o Append(acc.rows, row)))
<1>1. acc = [chunks |-> acc.chunks, rows |-> acc.rows]
  BY DEF RowState
<1>2. [acc EXCEPT !.rows = Append(@, row)] = [chunks |-> acc.chunks, rows |-> Append(acc.rows, row)]
  BY <1>1
<1>3. CASE ~Fits((header \o <<"/">>) \o row)
  BY <1>3 DEF AddRow
<1>4. CASE Fits((header \o <<"/">>) \o row) /\ acc.rows # <<>> /\ ~Fits(Joined(<<header>> \o Append(acc.rows, row)))
  BY <1>4 DEF AddRow
<1>5. CASE Fits((header \o <<"/">>) \o row) /\ ~(acc.rows # <<>> /\ ~Fits(Joined(<<header>> \o Append(acc.rows, row))))
  <2>1. AddRow(header, acc, row) = [acc EXCEPT !.rows = Append(@, row)]
    BY <1>5 DEF AddRow
  <2> QED BY <1>2, <1>5, <2>1
<1> QED BY <1>3, <1>4, <1>5

(* One line joined is that line. *)
LEMMA OneLineJoined ==
  ASSUME NEW line \in Text
  PROVE  /\ <<line>> \in Seq(Text) /\ <<line>> # <<>> /\ Append(<<>>, line) = <<line>>
         /\ Joined(<<line>>) = line /\ Told(<<line>>) = Letters(line)
<1>1. <<>> \in Seq(Text) /\ <<line>> \in Seq(Text) /\ <<line>> # <<>> /\ Append(<<>>, line) = <<line>>
  OBVIOUS
<1>2. Joined(Append(<<>>, line)) = line
  BY <1>1, JoinedAppend
<1>3. Told(Append(<<>>, line)) = <<>> \o Letters(line)
  BY <1>1, ToldAppend, ToldNothing
<1>4. <<>> \o Letters(line) = Letters(line)
  BY LettersType, ConcatEmptySeq DEF Text
<1> QED BY <1>1, <1>2, <1>3, <1>4

(* A row keeps all parts of the table within the budget. *)
LEMMA AddRowType ==
  ASSUME NEW header \in Text, NEW acc \in RowState(header), NEW row \in Text
  PROVE  AddRow(header, acc, row) \in RowState(header)
<1> DEFINE prefix == header \o <<"/">>
           next == AddRow(header, acc, row)
           flushed == Flushed(header, acc)
           pieces == Pieces(row, RowBudget(prefix))
<1>1. acc.chunks \in Seq(RowPart(header)) /\ acc.rows \in Seq(Text)
  BY DEF RowState
<1>2. flushed \in Seq(RowPart(header))
  BY FlushedType
<1>3. pieces \in Seq(Piece(RowBudget(prefix)))
  <2>1. RowBudget(prefix) \in Int BY HeadedType
  <2> QED BY <2>1, PiecesAre
<1>4. RowParts(header, pieces) \in Seq(RowPart(header))
  <2>1. PICK p \in Seq(Piece(RowBudget(header \o <<"/">>))) : p = pieces BY <1>3
  <2>2. RowParts(header, p) \in Seq(RowPart(header))
    BY RowPartsType
  <2> QED BY <2>1, <2>2
<1>5. \/ ~Fits(prefix \o row) /\ next.rows = <<>> /\ next.chunks = flushed \o RowParts(header, pieces)
      \/ Fits(prefix \o row) /\ next.rows = <<row>> /\ next.chunks = flushed
      \/ /\ Fits(prefix \o row)
         /\ next.rows = Append(acc.rows, row) /\ next.chunks = acc.chunks
         /\ acc.rows = <<>> \/ Fits(Joined(<<header>> \o Append(acc.rows, row)))
  BY AddRowIs
<1>6. next = [chunks |-> next.chunks, rows |-> next.rows]
  <2>1. acc = [chunks |-> acc.chunks, rows |-> acc.rows] BY DEF RowState
  <2>2. [acc EXCEPT !.rows = Append(@, row)] = [chunks |-> acc.chunks, rows |-> Append(acc.rows, row)] BY <2>1
  <2> QED BY <2>2 DEF AddRow
<1>7. Joined(<<header>> \o <<row>>) = prefix \o row
  <2>1. Joined(<<header>> \o <<row>>) = Headed(header, row) BY OneLineJoined, JoinedUnder
  <2> QED BY <2>1 DEF Headed
<1> HIDE DEF next, flushed, pieces, prefix
<1>8. ASSUME NEW c \in Seq(RowPart(header)), NEW r \in Seq(Text), next = [chunks |-> c, rows |-> r],
             r # <<>> => Fits(Joined(<<header>> \o r))
      PROVE  next \in RowState(header)
  <2>1. next.chunks = c /\ next.rows = r /\ next \in [chunks : Seq(RowPart(header)), rows : Seq(Text)]
    BY <1>8
  <2> QED BY <1>8, <2>1 DEF RowState
<1>9. CASE ~Fits(prefix \o row) /\ next.rows = <<>> /\ next.chunks = flushed \o RowParts(header, pieces)
  <2>1. PICK c \in Seq(RowPart(header)) : c = flushed \o RowParts(header, pieces)
    BY <1>2, <1>4, ConcatProperties
  <2>2. <<>> \in Seq(Text) OBVIOUS
  <2>3. next = [chunks |-> c, rows |-> <<>>] BY <1>6, <1>9, <2>1
  <2>4. next \in RowState(header) BY <1>8, <2>2, <2>3
  <2> QED BY <2>4 DEF next
<1>10. CASE Fits(prefix \o row) /\ next.rows = <<row>> /\ next.chunks = flushed
  <2>1. next = [chunks |-> flushed, rows |-> <<row>>] BY <1>6, <1>10
  <2>2. next \in RowState(header) BY <1>1, <1>2, <1>7, <1>8, <1>10, <2>1, OneLineJoined
  <2> QED BY <2>2 DEF next
<1>11. CASE /\ Fits(prefix \o row)
            /\ next.rows = Append(acc.rows, row) /\ next.chunks = acc.chunks
            /\ acc.rows = <<>> \/ Fits(Joined(<<header>> \o Append(acc.rows, row)))
  <2>1. PICK r \in Seq(Text) : r = Append(acc.rows, row)
    BY <1>1, AppendProperties
  <2>2. Fits(Joined(<<header>> \o r))
    <3>1. CASE acc.rows = <<>>
      <4>1. r = <<row>> BY <2>1, <3>1, OneLineJoined
      <4> QED BY <1>7, <1>11, <4>1
    <3>2. CASE acc.rows # <<>>
      BY <1>11, <2>1, <3>2
    <3> QED BY <3>1, <3>2
  <2>3. next = [chunks |-> acc.chunks, rows |-> r] BY <1>6, <1>11, <2>1
  <2>4. PICK c \in Seq(RowPart(header)) : c = acc.chunks BY <1>1
  <2>5. next \in RowState(header) BY <1>1, <1>8, <2>2, <2>3, <2>4
  <2> QED BY <2>5 DEF next
<1> QED BY <1>5, <1>9, <1>10, <1>11

RowsStart == [chunks |-> <<>>, rows |-> <<>>]

(* As it is without rows. *)
LEMMA NoRowType ==
  ASSUME NEW header \in Text
  PROVE  RowsStart \in RowState(header)
<1>1. <<>> \in Seq(RowPart(header)) /\ <<>> \in Seq(Text)
  OBVIOUS
<1> QED BY <1>1 DEF RowState, RowsStart

(* The loop over the rows *)
IsRowsRead(f, header, rows) ==
  f = [n \in 0..Len(rows) |-> IF n = 0 THEN RowsStart ELSE AddRow(header, f[n - 1], rows[n])]

(* The loop over the rows of a table runs row by row. *)
LEMMA RowsReadRuns ==
  ASSUME NEW header \in Text, NEW rows \in Seq(Text)
  PROVE  /\ RowsRead(header, rows)[0] = RowsStart
         /\ \A n \in 1..Len(rows) : RowsRead(header, rows)[n] = AddRow(header, RowsRead(header, rows)[n - 1], rows[n])
         /\ \A n \in 0..Len(rows) : RowsRead(header, rows)[n] \in RowState(header)
<1> DEFINE N == Len(rows)
           g == [p \in RowState(header) \X (1..N) |-> AddRow(header, p[1], rows[p[2]])]
<1>1. N \in Nat /\ RowsStart \in RowState(header)
  BY NoRowType
<1>2. \A acc \in RowState(header), n \in 1..N : AddRow(header, acc, rows[n]) \in RowState(header)
  BY AddRowType
<1>3. g \in [RowState(header) \X (1..N) -> RowState(header)]
  BY <1>2
<1>4. PICK f : Run(f, RowState(header), RowsStart, g, N)
  <2> HIDE DEF N, g
  <2> QED BY <1>1, <1>3, LoopRuns
<1>5. ASSUME NEW n \in 0..N
      PROVE  f[n] = IF n = 0 THEN RowsStart ELSE AddRow(header, f[n - 1], rows[n])
  <2>1. n # 0 => n - 1 \in 0..N /\ n \in 1..N BY <1>1
  <2>2. n # 0 => f[n - 1] \in RowState(header) BY <1>4, <2>1 DEF Run
  <2>3. f[n] = IF n = 0 THEN RowsStart ELSE g[<<f[n - 1], n>>] BY <1>4 DEF Run
  <2> QED BY <2>1, <2>2, <2>3
<1>6. IsRowsRead(f, header, rows)
  <2>1. f = [n \in 0..N |-> f[n]] BY <1>4 DEF Run
  <2> QED BY <1>5, <2>1 DEF IsRowsRead
<1>7. IsRowsRead(RowsRead(header, rows), header, rows)
  BY <1>6 DEF IsRowsRead, RowsRead, RowsStart
<1> DEFINE u == RowsRead(header, rows)
<1>8. u[0] = RowsStart /\ \A n \in 1..N : u[n] = AddRow(header, u[n - 1], rows[n])
  BY <1>1, <1>7 DEF IsRowsRead
<1>9. \A n \in 0..N : u[n] \in RowState(header)
  <2> HIDE DEF N, u
  <2>1. \A n \in 1..N : u[n - 1] \in RowState(header) => u[n] \in RowState(header)
    BY <1>2, <1>8
  <2> QED BY <1>1, <1>8, <2>1, LoopKeeps
<1> QED BY <1>8, <1>9

(* A row raises only for a character of its own. *)
LEMMA AddRowRaises ==
  ASSUME NEW header \in Text, NEW acc \in RowState(header), NEW row \in Text,
         Raised(AddRow(header, acc, row).chunks)
  PROVE  Raised(acc.chunks) \/ TooSmall(row, RowBudget(header \o <<"/">>))
<1> DEFINE max == RowBudget(header \o <<"/">>)
           next == AddRow(header, acc, row)
<1>1. max \in Int
  BY HeadedType
<1>2. PICK pieces \in Seq(Piece(max)) : pieces = Pieces(row, max) /\ (Raised(pieces) => TooSmall(row, max))
  <2> HIDE DEF max
  <2> QED BY <1>1, PiecesAre
<1>3. PICK p \in Seq(RowPart(header)) : p = Flushed(header, acc) /\ (Raised(p) <=> Raised(acc.chunks))
  BY FlushedType
<1>4. PICK q \in Seq(RowPart(header)) : q = RowParts(header, pieces) /\ (Raised(q) <=> Raised(pieces))
  BY RowPartsType
<1>5. next.chunks = p \o q \/ next.chunks = p \/ next.chunks = acc.chunks
  BY <1>2, <1>3, <1>4, AddRowIs
<1>6. Raised(p \o q) => Raised(p) \/ Raised(q)
  BY RaisedConcat
<1> HIDE DEF next, max
<1>7. Raised(next.chunks)
  BY DEF next
<1> QED BY <1>2, <1>3, <1>4, <1>5, <1>6, <1>7 DEF max

(* So the table does for a character of one of its rows. *)
LEMMA RowsReadRaises ==
  ASSUME NEW header \in Text, NEW rows \in Seq(Text),
         Raised(RowsRead(header, rows)[Len(rows)].chunks)
  PROVE  \E m \in DOMAIN rows : TooSmall(rows[m], RowBudget(header \o <<"/">>))
<1> DEFINE N == Len(rows)
           u == RowsRead(header, rows)
           Bad == \E m \in 1..N : TooSmall(rows[m], RowBudget(header \o <<"/">>))
           S == {n \in 0..N : Raised(u[n].chunks) => Bad}
<1>1. N \in Nat /\ \A n \in 1..N : rows[n] \in Text
  OBVIOUS
<1>2. /\ u[0] = RowsStart /\ \A n \in 1..N : u[n] = AddRow(header, u[n - 1], rows[n])
      /\ \A n \in 0..N : u[n] \in RowState(header)
  BY RowsReadRuns
<1> HIDE DEF u
<1>3. 0 \in S
  <2>1. u[0].chunks = <<>> BY <1>2 DEF RowsStart
  <2>2. ~Raised(<<>>) BY DEF Raised
  <2>3. 0 \in 0..N BY <1>1
  <2> QED BY <2>1, <2>2, <2>3
<1>4. ASSUME NEW n \in 0..(N - 1), n \in S PROVE n + 1 \in S
  <2>1. n + 1 \in 1..N /\ (n + 1) - 1 = n /\ n \in 0..N /\ n + 1 \in 0..N
    BY <1>1
  <2>2. PICK acc \in RowState(header), row \in Text :
          acc = u[n] /\ row = rows[n + 1] /\ u[n + 1] = AddRow(header, acc, row)
    BY <1>1, <1>2, <2>1
  <2>3. ASSUME Raised(u[n + 1].chunks) PROVE Bad
    <3>1. Raised(acc.chunks) \/ TooSmall(row, RowBudget(header \o <<"/">>))
      BY <2>2, <2>3, AddRowRaises
    <3> QED BY <1>4, <2>1, <2>2, <3>1
  <2> QED BY <2>1, <2>3
<1>5. \A n \in 0..N : n \in S
  <2> HIDE DEF S, N
  <2> QED BY <1>1, <1>3, <1>4, SetInduction
<1>6. N \in 0..N /\ DOMAIN rows = 1..N
  BY <1>1
<1>7. Raised(u[N].chunks)
  BY DEF u
<1> QED BY <1>5, <1>6, <1>7

----------------------------------------------------------------------------
(* The parts of an element and the chunks of a document. *)
HeadingOf(s) == HeaderOf(s) \o <<"/">>
RowsOf(s) == SubSeq(Lines(s), 3, Len(Lines(s)))
RowChunks(s) == Flushed(HeaderOf(s), RowsRead(HeaderOf(s), RowsOf(s))[Len(RowsOf(s))])

(* The first and the other lines of a table are lines. *)
LEMMA FirstLines ==
  ASSUME NEW A, NEW s \in Seq(A), NEW m \in Nat
  PROVE  SubSeq(s, 1, Smaller(m, Len(s))) \in Seq(A) /\ SubSeq(s, m + 1, Len(s)) \in Seq(A)
<1>1. Len(s) \in Nat /\ Smaller(m, Len(s)) \in 0..Len(s)
  BY DEF Smaller
<1>2. \A i \in 1..Smaller(m, Len(s)) : s[i] \in A
  BY <1>1
<1>3. \A i \in (m + 1)..Len(s) : s[i] \in A
  BY <1>1
<1>4. Smaller(m, Len(s)) \in Int /\ m + 1 \in Int /\ Len(s) \in Int
  BY <1>1
<1> QED BY <1>2, <1>3, <1>4, SubSeqProperties

(* The header is a text, the rows are texts. *)
LEMMA HeaderType ==
  ASSUME NEW s \in Text
  PROVE  HeaderOf(s) \in Text /\ RowsOf(s) \in Seq(Text)
<1>1. PICK lines \in Seq(Text) : lines = Lines(s)
  BY LinesAre
<1>2. SubSeq(lines, 1, Smaller(2, Len(lines))) \in Seq(Text) /\ SubSeq(lines, 2 + 1, Len(lines)) \in Seq(Text)
  BY FirstLines
<1>3. 2 + 1 = 3 OBVIOUS
<1> QED BY <1>1, <1>2, <1>3, JoinedType DEF HeaderOf, RowsOf

Unsplittable(s) == \E m \in DOMAIN RowsOf(s) : TooSmall(RowsOf(s)[m], RowBudget(HeadingOf(s)))

(* The chunks of the rows are within the budget, or the row budget has no  *)
(* room for a character of a row.                                          *)
LEMMA RowChunksType ==
  ASSUME NEW s \in Text
  PROVE  /\ RowChunks(s) \in Seq(RowPart(HeaderOf(s)))
         /\ Raised(RowChunks(s)) => Unsplittable(s)
<1>1. PICK header \in Text, rows \in Seq(Text) : header = HeaderOf(s) /\ rows = RowsOf(s)
  BY HeaderType
<1>2. RowsRead(header, rows)[Len(rows)] \in RowState(header)
  <2>1. Len(rows) \in 0..Len(rows) OBVIOUS
  <2> QED BY <2>1, RowsReadRuns
<1>3. PICK acc \in RowState(header) : acc = RowsRead(header, rows)[Len(rows)]
  BY <1>2
<1>4. /\ Flushed(header, acc) \in Seq(RowPart(header))
      /\ Raised(Flushed(header, acc)) <=> Raised(acc.chunks)
  BY FlushedType
<1>5. Raised(acc.chunks) => \E m \in DOMAIN rows : TooSmall(rows[m], RowBudget(header \o <<"/">>))
  BY <1>3, RowsReadRaises
<1> QED BY <1>1, <1>3, <1>4, <1>5 DEF RowChunks, HeadingOf, Unsplittable

(* _split_table splits by rows, or the text as it is if there are none. *)
LEMMA TablePartsAre ==
  ASSUME NEW s
  PROVE  TableParts(s) = IF RowsOf(s) = <<>> \/ RowChunks(s) = <<>> THEN Pieces(s, MaxTokens) ELSE RowChunks(s)
BY DEF TableParts, OrPieces, RowsOf, RowChunks

(* No character is over the whole budget. *)
LEMMA BudgetIsEnough == MaxTokens \in Int /\ \A s \in Text : ~TooSmall(s, MaxTokens)
<1>1. ASSUME NEW c \in Char PROVE ~(Tokens(<<c>>) > MaxTokens)
  <2>1. Tokens(<<c>>) \in 1..MaxTokens BY CharacterTokens
  <2>2. MaxTokens \in Nat BY ChunkAssumption
  <2> QED BY <2>1, <2>2
<1>2. MaxTokens \in Int BY ChunkAssumption
<1>3. \A s \in Text : \A n \in DOMAIN s : s[n] \in Char
  BY DEF Text
<1> QED BY <1>1, <1>2, <1>3 DEF TooSmall

(* With the whole budget _split_text does not raise. *)
LEMMA WholeTextPieces ==
  ASSUME NEW s \in Text
  PROVE  /\ Pieces(s, MaxTokens) \in Seq(Within(MaxTokens))
         /\ ~Raised(Pieces(s, MaxTokens))
         /\ FlattenSeq(Pieces(s, MaxTokens)) = s
         /\ s # <<>> => Pieces(s, MaxTokens) # <<>>
<1>1. ~Raised(Pieces(s, MaxTokens)) /\ Pieces(s, MaxTokens) \in Seq(Piece(MaxTokens))
  BY BudgetIsEnough, PiecesAre
<1> QED BY <1>1, BudgetIsEnough, PiecesAre, NotRaised

(* A table that cannot be split for want of room. *)
Narrow(e) == e.type = "table" /\ ~Fits(e.text) /\ Unsplittable(e.text)

(* The parts of an element are texts in the budget, unless it has a special*)
(* token or is a table whose header leaves too little of the budget.       *)
LEMMA ElementPartsAre ==
  ASSUME NEW e \in ElementType, e.text # <<>>
  PROVE  /\ ElementParts(e) \in Seq(Piece(MaxTokens)) /\ ElementParts(e) # <<>>
         /\ Raised(ElementParts(e)) => ~Encodes(e.text) \/ Narrow(e)
<1>1. e.text \in Text
  BY DEF ElementType
<1>2. PICK s \in Text : s = e.text /\ s # <<>>
  BY <1>1
<1>0. CASE ~Encodes(s)
  <2>1. ElementParts(e) = <<None>> BY <1>2, <1>0 DEF ElementParts
  <2>2. None \in Piece(MaxTokens) BY DEF Piece
  <2>3. <<None>> \in Seq(Piece(MaxTokens)) /\ <<None>> # <<>> BY <2>2
  <2> QED BY <1>0, <1>2, <2>1, <2>3
<1>3. CASE Encodes(s) /\ Fits(s)
  <2>1. ElementParts(e) = <<s>> BY <1>2, <1>3 DEF ElementParts
  <2>2. s \in Piece(MaxTokens) /\ s # None
    BY <1>2, <1>3, ChunkAssumption DEF Piece, Within, Fits
  <2>3. <<s>> \in Seq(Piece(MaxTokens)) /\ <<s>> # <<>> BY <2>2
  <2>4. ~Raised(<<s>>)
    <3>1. DOMAIN <<s>> = {1} /\ <<s>>[1] = s OBVIOUS
    <3> QED BY <2>2, <3>1 DEF Raised
  <2> QED BY <2>1, <2>3, <2>4
<1>4. Pieces(s, MaxTokens) \in Seq(Piece(MaxTokens)) /\ Pieces(s, MaxTokens) # <<>> /\ ~Raised(Pieces(s, MaxTokens))
  BY <1>2, WholeTextPieces, PiecesAre, BudgetIsEnough
<1>5. CASE Encodes(s) /\ ~Fits(s) /\ e.type # "table"
  <2>1. ElementParts(e) = Pieces(s, MaxTokens) BY <1>2, <1>5 DEF ElementParts
  <2> QED BY <1>4, <2>1
<1>6. CASE Encodes(s) /\ ~Fits(s) /\ e.type = "table"
  <2>1. ElementParts(e) = TableParts(s) BY <1>2, <1>6 DEF ElementParts
  <2>2. CASE RowsOf(s) = <<>> \/ RowChunks(s) = <<>>
    <3>1. ElementParts(e) = Pieces(s, MaxTokens) BY <2>1, <2>2, TablePartsAre
    <3> QED BY <1>4, <3>1
  <2>3. CASE ~(RowsOf(s) = <<>> \/ RowChunks(s) = <<>>)
    <3>1. ElementParts(e) = RowChunks(s) /\ RowChunks(s) # <<>> BY <2>1, <2>3, TablePartsAre
    <3>2. RowPart(HeaderOf(s)) \subseteq Piece(MaxTokens)
      BY DEF RowPart, HeadedChunk, Piece, Within, Fits
    <3>3. RowChunks(s) \in Seq(Piece(MaxTokens))
      BY <3>2, RowChunksType, SeqMonotonic
    <3>4. Raised(RowChunks(s)) => Unsplittable(s)
      BY RowChunksType
    <3> QED BY <1>2, <1>6, <3>1, <3>3, <3>4 DEF Narrow
  <2> QED BY <2>2, <2>3
<1> QED BY <1>0, <1>3, <1>5, <1>6

FittingChunk ==
  [content : Within(MaxTokens), start : Nat, end : Nat, path : Seq(Text), type : Types,
   sources : Seq(Nat)]

(* The exception is not mistaken for chunks. *)
LEMMA NoneIsNoChunks == None \notin Seq(FittingChunk) /\ Seq(FittingChunk) \subseteq Seq(ChunkType)
<1>1. FittingChunk \subseteq ChunkType
  BY DEF FittingChunk, ChunkType, Within
<1>2. Seq(FittingChunk) \subseteq Seq(ChunkType)
  BY <1>1, SeqMonotonic
<1> QED BY <1>2, ChunkAssumption

(* _chunk makes a chunk that fits of a text that fits. *)
LEMMA ChunkIs ==
  ASSUME NEW e \in ElementType, NEW i \in Nat, NEW s \in Within(MaxTokens)
  PROVE  Chunk(e, i, s) \in FittingChunk
<1>1. <<i>> \in Seq(Nat)
  OBVIOUS
<1> QED BY <1>1 DEF Chunk, FittingChunk, ElementType

(* What a merged chunk takes from either of the two. *)
LEMMA MergedIs ==
  ASSUME NEW p \in FittingChunk, NEW c \in FittingChunk, Fits(Paragraphs(p.content, c.content))
  PROVE  /\ Merged(p, c) \in FittingChunk
         /\ Merged(p, c).content = Paragraphs(p.content, c.content)
         /\ Merged(p, c).start = Or(p.start, c.start) /\ Merged(p, c).end = Or(c.end, p.end)
         /\ Merged(p, c).type = p.type /\ Merged(p, c).path = p.path
         /\ Merged(p, c).sources = p.sources \o c.sources
<1>1. /\ p.content \in Text /\ c.content \in Text /\ p.start \in Nat /\ c.start \in Nat
      /\ p.end \in Nat /\ c.end \in Nat /\ p.sources \in Seq(Nat) /\ c.sources \in Seq(Nat)
      /\ p.content # <<>>
  BY DEF FittingChunk, Within
<1>2. PICK m : m = Merged(p, c)
  OBVIOUS
<1>3. PICK content \in Within(MaxTokens) : content = Paragraphs(p.content, c.content)
  <2>1. <<"/", "/">> \in Text
    <3>1. "/" \in Char BY ChunkAssumption
    <3> QED BY <3>1 DEF Text
  <2>2. p.content \o <<"/", "/">> \in Text /\ Paragraphs(p.content, c.content) \in Text
    BY <1>1, <2>1 DEF Paragraphs, Text
  <2>3. Paragraphs(p.content, c.content) # <<>>
    <3>1. Len(Paragraphs(p.content, c.content)) = Len(p.content) + Len(<<"/", "/">>) + Len(c.content)
      BY <1>1, <2>1, <2>2 DEF Paragraphs, Text
    <3>2. PICK a \in Nat, b \in Nat : a = Len(p.content) /\ b = Len(c.content) BY <1>1 DEF Text
    <3>3. Len(<<"/", "/">>) = 2 OBVIOUS
    <3>4. Len(Paragraphs(p.content, c.content)) = a + 2 + b BY <3>1, <3>2, <3>3
    <3>5. a + 2 + b # 0 OBVIOUS
    <3>6. Len(<<>>) = 0 OBVIOUS
    <3> QED BY <3>4, <3>5, <3>6
  <2> QED BY <2>2, <2>3 DEF Within, Fits
<1>4. PICK start \in Nat, end \in Nat, sources \in Seq(Nat) :
        start = Or(p.start, c.start) /\ end = Or(c.end, p.end) /\ sources = p.sources \o c.sources
  <2>1. Or(p.start, c.start) \in Nat /\ Or(c.end, p.end) \in Nat BY <1>1 DEF Or
  <2>2. p.sources \o c.sources \in Seq(Nat) BY <1>1, ConcatProperties
  <2> QED BY <2>1, <2>2
<1>5. m = [p EXCEPT !.content = content, !.start = start, !.end = end, !.sources = sources]
  BY <1>2, <1>3, <1>4 DEF Merged, FittingChunk
<1>6. m \in FittingChunk
  BY <1>5 DEF FittingChunk
<1>7. /\ m.content = content /\ m.start = start /\ m.end = end /\ m.sources = sources
      /\ m.type = p.type /\ m.path = p.path
  BY <1>5 DEF FittingChunk
<1> QED BY <1>2, <1>3, <1>4, <1>6, <1>7

(* A chunk that is appended or merged leaves all chunks within the budget. *)
LEMMA AddChunkFits ==
  ASSUME NEW cs \in Seq(FittingChunk), NEW c \in FittingChunk
  PROVE  AddChunk(cs, c) \in Seq(FittingChunk) /\ AddChunk(cs, c) # <<>>
<1>1. CASE cs # <<>> /\ Joins(Last(cs), c)
  <2>1. Front(cs) \in Seq(FittingChunk) /\ Last(cs) \in FittingChunk BY <1>1, FrontAndLast
  <2>2. Merged(Last(cs), c) \in FittingChunk BY <1>1, <2>1, MergedIs DEF Joins
  <2>3. AddChunk(cs, c) = Append(Front(cs), Merged(Last(cs), c)) BY <1>1 DEF AddChunk
  <2> QED BY <2>1, <2>2, <2>3, AppendProperties
<1>2. CASE ~(cs # <<>> /\ Joins(Last(cs), c))
  <2>1. AddChunk(cs, c) = Append(cs, c) BY <1>2 DEF AddChunk
  <2> QED BY <2>1, AppendProperties
<1> QED BY <1>1, <1>2

PartStep(cs, e, i, s) == AddChunk(cs, Chunk(e, i, s))

(* So does a part of an element. *)
LEMMA PartStepType ==
  ASSUME NEW cs \in Seq(FittingChunk), NEW e \in ElementType, NEW i \in Nat, NEW s \in Within(MaxTokens)
  PROVE  PartStep(cs, e, i, s) \in Seq(FittingChunk) /\ PartStep(cs, e, i, s) # <<>>
BY ChunkIs, AddChunkFits DEF PartStep

(* The loop over the parts of an element *)
IsAddParts(f, chs, e, i, parts) ==
  f = [n \in 0..Len(parts) |-> IF n = 0 THEN chs ELSE PartStep(f[n - 1], e, i, parts[n])]

(* The loop over the parts of an element runs part by part. *)
LEMMA AddPartsRuns ==
  ASSUME NEW chs \in Seq(FittingChunk), NEW e \in ElementType, NEW i \in Nat,
         NEW parts \in Seq(Within(MaxTokens))
  PROVE  /\ AddParts(chs, e, i, parts)[0] = chs
         /\ \A n \in 1..Len(parts) : AddParts(chs, e, i, parts)[n] = PartStep(AddParts(chs, e, i, parts)[n - 1], e, i, parts[n])
         /\ \A n \in 0..Len(parts) : AddParts(chs, e, i, parts)[n] \in Seq(FittingChunk)
<1> DEFINE N == Len(parts)
           g == [p \in Seq(FittingChunk) \X (1..N) |-> PartStep(p[1], e, i, parts[p[2]])]
<1>1. N \in Nat /\ chs \in Seq(FittingChunk)
  OBVIOUS
<1>0. \A n \in 1..N : parts[n] \in Within(MaxTokens)
  OBVIOUS
<1>2. \A acc \in Seq(FittingChunk), n \in 1..N : PartStep(acc, e, i, parts[n]) \in Seq(FittingChunk)
  BY <1>0, PartStepType
<1>3. g \in [Seq(FittingChunk) \X (1..N) -> Seq(FittingChunk)]
  BY <1>2
<1>4. PICK f : Run(f, Seq(FittingChunk), chs, g, N)
  <2> HIDE DEF N, g
  <2> QED BY <1>1, <1>3, LoopRuns
<1>5. ASSUME NEW n \in 0..N
      PROVE  f[n] = IF n = 0 THEN chs ELSE PartStep(f[n - 1], e, i, parts[n])
  <2>1. n # 0 => n - 1 \in 0..N /\ n \in 1..N BY <1>1
  <2>2. n # 0 => f[n - 1] \in Seq(FittingChunk) BY <1>4, <2>1 DEF Run
  <2>3. f[n] = IF n = 0 THEN chs ELSE g[<<f[n - 1], n>>] BY <1>4 DEF Run
  <2> QED BY <2>1, <2>2, <2>3
<1>6. IsAddParts(f, chs, e, i, parts)
  <2>1. f = [n \in 0..N |-> f[n]] BY <1>4 DEF Run
  <2> QED BY <1>5, <2>1 DEF IsAddParts
<1>7. IsAddParts(AddParts(chs, e, i, parts), chs, e, i, parts)
  BY <1>6 DEF IsAddParts, AddParts, PartStep
<1> DEFINE u == AddParts(chs, e, i, parts)
<1>8. u[0] = chs /\ \A n \in 1..N : u[n] = PartStep(u[n - 1], e, i, parts[n])
  BY <1>1, <1>7 DEF IsAddParts
<1>9. \A n \in 0..N : u[n] \in Seq(FittingChunk)
  <2> HIDE DEF N, u
  <2>1. \A n \in 1..N : u[n - 1] \in Seq(FittingChunk) => u[n] \in Seq(FittingChunk)
    BY <1>2, <1>8
  <2> QED BY <1>1, <1>8, <2>1, LoopKeeps
<1> QED BY <1>8, <1>9

PartsType(elements) == [DOMAIN elements -> Seq(Within(MaxTokens)) \ {<<>>}]
ElementStep(cs, e, i, parts) == AddParts(cs, e, i, parts)[Len(parts)]

(* An element with parts leaves chunks, all within the budget. *)
LEMMA ElementStepType ==
  ASSUME NEW cs \in Seq(FittingChunk), NEW e \in ElementType, NEW i \in Nat,
         NEW parts \in Seq(Within(MaxTokens)) \ {<<>>}
  PROVE  ElementStep(cs, e, i, parts) \in Seq(FittingChunk) /\ ElementStep(cs, e, i, parts) # <<>>
<1>1. PICK n \in Nat \ {0} : n = Len(parts)
  OBVIOUS
<1>2. n \in 1..n /\ n - 1 \in 0..n /\ parts[n] \in Within(MaxTokens)
  BY <1>1
<1>3. PICK before \in Seq(FittingChunk) : AddParts(cs, e, i, parts)[n] = PartStep(before, e, i, parts[n])
  <2>1. PICK q \in Seq(Within(MaxTokens)) : q = parts
    OBVIOUS
  <2>2. n - 1 \in 0..Len(q) /\ n \in 1..Len(q)
    BY <1>1, <1>2, <2>1
  <2>3. /\ AddParts(cs, e, i, q)[n] = PartStep(AddParts(cs, e, i, q)[n - 1], e, i, q[n])
        /\ AddParts(cs, e, i, q)[n - 1] \in Seq(FittingChunk)
    BY <2>2, AddPartsRuns
  <2> QED BY <2>1, <2>3
<1> QED BY <1>1, <1>2, <1>3, PartStepType DEF ElementStep

(* The loop over the elements *)
IsElementsRead(f, elements, parts) ==
  f = [n \in 0..Len(elements) |-> IF n = 0 THEN <<>> ELSE ElementStep(f[n - 1], elements[n], n, parts[n])]

(* The loop of chunk_document runs element by element. *)
LEMMA ElementsReadRuns ==
  ASSUME NEW elements \in Seq(ElementType), NEW parts \in PartsType(elements)
  PROVE  /\ ElementsRead(elements, parts)[0] = <<>>
         /\ \A n \in 1..Len(elements) : ElementsRead(elements, parts)[n] = ElementStep(ElementsRead(elements, parts)[n - 1], elements[n], n, parts[n])
         /\ \A n \in 0..Len(elements) : ElementsRead(elements, parts)[n] \in Seq(FittingChunk)
<1> DEFINE N == Len(elements)
           g == [p \in Seq(FittingChunk) \X (1..N) |-> ElementStep(p[1], elements[p[2]], p[2], parts[p[2]])]
<1>1. N \in Nat /\ <<>> \in Seq(FittingChunk)
  OBVIOUS
<1>0. \A n \in 1..N : elements[n] \in ElementType /\ n \in Nat /\ parts[n] \in Seq(Within(MaxTokens)) \ {<<>>}
  BY DEF PartsType
<1>2. \A acc \in Seq(FittingChunk), n \in 1..N : ElementStep(acc, elements[n], n, parts[n]) \in Seq(FittingChunk)
  BY <1>0, ElementStepType
<1>3. g \in [Seq(FittingChunk) \X (1..N) -> Seq(FittingChunk)]
  BY <1>2
<1>4. PICK f : Run(f, Seq(FittingChunk), <<>>, g, N)
  <2> HIDE DEF N, g
  <2> QED BY <1>1, <1>3, LoopRuns
<1>5. ASSUME NEW n \in 0..N
      PROVE  f[n] = IF n = 0 THEN <<>> ELSE ElementStep(f[n - 1], elements[n], n, parts[n])
  <2>1. n # 0 => n - 1 \in 0..N /\ n \in 1..N BY <1>1
  <2>2. n # 0 => f[n - 1] \in Seq(FittingChunk) BY <1>4, <2>1 DEF Run
  <2>3. f[n] = IF n = 0 THEN <<>> ELSE g[<<f[n - 1], n>>] BY <1>4 DEF Run
  <2> QED BY <2>1, <2>2, <2>3
<1>6. IsElementsRead(f, elements, parts)
  <2>1. f = [n \in 0..N |-> f[n]] BY <1>4 DEF Run
  <2> QED BY <1>5, <2>1 DEF IsElementsRead
<1>7. IsElementsRead(ElementsRead(elements, parts), elements, parts)
  BY <1>6 DEF IsElementsRead, ElementsRead, ElementStep
<1> DEFINE u == ElementsRead(elements, parts)
<1>8. u[0] = <<>> /\ \A n \in 1..N : u[n] = ElementStep(u[n - 1], elements[n], n, parts[n])
  BY <1>1, <1>7 DEF IsElementsRead
<1>9. \A n \in 0..N : u[n] \in Seq(FittingChunk)
  <2> HIDE DEF N, u
  <2>1. \A n \in 1..N : u[n - 1] \in Seq(FittingChunk) => u[n] \in Seq(FittingChunk)
    BY <1>2, <1>8
  <2> QED BY <1>1, <1>8, <2>1, LoopKeeps
<1> QED BY <1>8, <1>9

Parts(elements) == [i \in DOMAIN elements |-> ElementParts(elements[i])]
WithText == {e \in ElementType : e.text # <<>>}

(* The chunks of a document with text: there are some, unless there is a   *)
(* special token or a header leaves no room, and they are in the budget.   *)
LEMMA ChunksAre ==
  ASSUME NEW elements \in Seq(WithText), elements # <<>>
  PROVE  \/ /\ ChunksOf(elements) = None
            /\ \E i \in DOMAIN elements : ~Encodes(elements[i].text) \/ Narrow(elements[i])
         \/ /\ elements \in Seq(ElementType) /\ Parts(elements) \in PartsType(elements)
            /\ ChunksOf(elements) = ElementsRead(elements, Parts(elements))[Len(elements)]
            /\ ChunksOf(elements) \in Seq(FittingChunk) /\ ChunksOf(elements) # <<>>
<1>1. \A i \in DOMAIN elements : elements[i] \in ElementType /\ elements[i].text # <<>>
  BY DEF WithText
<1>2. WithText \subseteq ElementType /\ elements \in Seq(ElementType)
  <2>1. WithText \subseteq ElementType BY DEF WithText
  <2> QED BY <2>1, SeqMonotonic
<1>3. CASE \E i \in DOMAIN elements : Raised(ElementParts(elements[i]))
  <2>1. PICK i \in DOMAIN elements : Raised(ElementParts(elements[i])) BY <1>3
  <2>2. ChunksOf(elements) = None BY <2>1 DEF ChunksOf, ChunksFrom
  <2> QED BY <1>1, <2>1, <2>2, ElementPartsAre
<1>4. CASE \A i \in DOMAIN elements : ~Raised(ElementParts(elements[i]))
  <2>1. ChunksOf(elements) = ElementsRead(elements, Parts(elements))[Len(elements)]
    BY <1>4 DEF ChunksOf, ChunksFrom, Parts
  <2>2. \A i \in DOMAIN elements : ElementParts(elements[i]) \in Seq(Within(MaxTokens)) \ {<<>>}
    BY <1>1, <1>4, ElementPartsAre, NotRaised, BudgetIsEnough
  <2>3. PICK parts \in PartsType(elements) : parts = Parts(elements)
    BY <2>2 DEF PartsType, Parts
  <2>4. PICK n \in Nat \ {0} : n = Len(elements)
    BY <1>2
  <2>5. n \in 1..n /\ n - 1 \in 0..n /\ elements[n] \in ElementType /\ parts[n] \in Seq(Within(MaxTokens)) \ {<<>>}
    <3>1. n \in DOMAIN elements BY <2>4
    <3> QED BY <1>1, <2>3, <3>1 DEF PartsType
  <2>6. PICK before \in Seq(FittingChunk) :
          ElementsRead(elements, parts)[n] = ElementStep(before, elements[n], n, parts[n])
    <3>1. /\ ElementsRead(elements, parts)[n] =
               ElementStep(ElementsRead(elements, parts)[n - 1], elements[n], n, parts[n])
          /\ ElementsRead(elements, parts)[n - 1] \in Seq(FittingChunk)
      BY <1>2, <2>4, <2>5, ElementsReadRuns
    <3> QED BY <3>1
  <2>7. /\ ElementStep(before, elements[n], n, parts[n]) \in Seq(FittingChunk)
        /\ ElementStep(before, elements[n], n, parts[n]) # <<>>
    BY <2>5, ElementStepType
  <2> QED BY <1>2, <2>1, <2>3, <2>4, <2>6, <2>7
<1> QED BY <1>3, <1>4

----------------------------------------------------------------------------
(* The document is what was parsed of the file, the quality is that of the *)
(* document, with what the parser was warned of, and the chunks are what   *)
(* the document is split into.  A document of sufficient quality fails for *)
(* want of chunks only.                                                    *)
IInv ==
  /\ TypeOK
  /\ file \in Files
  /\ document # None => document = Parsed(file)
  /\ pc \in {"parse", "assess"} => quality = None
  /\ pc = "failed" /\ quality # None /\ quality.status # "failed" =>
       document # None /\ Elements # <<>> /\ ChunksOf(Elements) \in {None, <<>>}
  /\ chunks # <<>> => document # None /\ chunks # None /\ chunks = ChunksOf(Elements)
  /\ pc \in {"chunk", "review_required", "index"} => quality = Assessed(document, document.warnings)
  /\ pc = "index" => quality.status # "review_required"

(* The document that is split has elements, and each of them has text. *)
LEMMA DocumentIsWritten ==
  ASSUME IInv, document # None
  PROVE  Elements \in Seq(WithText) /\ Elements \in Seq(ElementType)
<1>1. file \in Files /\ document = Parsed(file)
  BY DEF IInv
<1>2. document \in DocumentType /\ Written(Elements)
  BY <1>1, ParsedIsSound DEF Sound, Elements
<1>3. PICK n \in Nat : n = Len(Elements) /\ Elements \in [1..n -> ElementType]
  BY <1>2 DEF DocumentType, Elements
<1>4. ASSUME NEW i \in 1..n PROVE Elements[i] \in WithText
  BY <1>2, <1>3 DEF Written, WithText
<1>5. Elements \in [1..n -> WithText]
  BY <1>3, <1>4
<1> QED BY <1>2, <1>3, <1>5 DEF DocumentType, Elements

(* The inductive invariant holds at the start. *)
LEMMA IInvInit == Init => IInv
<1>1. <<>> \in Seq(ChunkType)
  OBVIOUS
<1> QED BY <1>1 DEF Init, IInv, TypeOK

(* It is preserved by parsing, assessing and splitting. *)
LEMMA IInvNext == IInv /\ [Next]_vars => IInv'
<1> SUFFICES ASSUME IInv, [Next]_vars PROVE IInv'
  OBVIOUS
<1>1. CASE Parse
  <2>1. document' = Parsed(file) /\ file' = file /\ quality' = quality /\ chunks' = chunks /\ pc = "parse"
    BY <1>1 DEF Parse
  <2>4. chunks = <<>> /\ quality = None
    BY <2>1 DEF IInv, TypeOK
  <2>2. document' # None => document' \in DocumentType
    BY <2>1, ParsedIsSound DEF IInv, Sound
  <2>3. pc' \in {"assess", "failed"} /\ (pc' = "assess" => document' # None)
    BY <1>1 DEF Parse
  <2> QED BY <2>1, <2>2, <2>3, <2>4 DEF IInv, TypeOK, DocumentType
<1>2. CASE Assess
  <2>1. /\ pc = "assess" /\ document' = document /\ file' = file /\ chunks' = chunks
        /\ quality' = Assessed(document, document.warnings)
        /\ pc' = IF quality'.status = "failed" THEN "failed" ELSE "chunk"
    BY <1>2 DEF Assess
  <2>2. pc' = "chunk" =>
          /\ quality'.status = IF quality'.warnings = {} THEN "passed" ELSE "review_required"
          /\ Elements # <<>>
    <3>1. pc' = "chunk" => quality'.status # "failed"
      BY <2>1
    <3> QED BY <2>1, <3>1, AssessedIs DEF Elements
  <2>3. pc' \in {"chunk", "failed"} /\ (pc' = "failed" => quality'.status = "failed")
    BY <2>1
  <2> QED BY <2>1, <2>2, <2>3 DEF IInv, TypeOK, Elements
<1>3. CASE Split
  <2>1. /\ pc = "chunk" /\ document' = document /\ file' = file /\ quality' = quality
        /\ \/ pc' = "failed" /\ chunks' = chunks /\ ChunksOf(Elements) \in {None, <<>>}
           \/ /\ pc' = IF quality.status = "review_required" THEN "review_required" ELSE "index"
              /\ chunks' # <<>> /\ chunks' # None /\ chunks' = ChunksOf(Elements)
    <3> DEFINE found == ChunksOf(document.elements)
    <3>1. /\ pc = "chunk" /\ document' = document /\ file' = file /\ quality' = quality
          /\ IF found = None \/ found = <<>>
             THEN pc' = "failed" /\ chunks' = chunks
             ELSE /\ pc' = IF quality.status = "review_required" THEN "review_required" ELSE "index"
                  /\ chunks' = found
      BY <1>3 DEF Split
    <3>2. found = ChunksOf(Elements) BY DEF Elements
    <3> HIDE DEF found
    <3> QED BY <3>1, <3>2
  <2>2. Elements' = Elements /\ document # None /\ Elements # <<>> /\ chunks = <<>>
    BY <2>1 DEF IInv, TypeOK, Elements
  <2>3. chunks' \in Seq(ChunkType)
    <3>1. CASE chunks' = chunks BY <3>1 DEF IInv, TypeOK
    <3>2. CASE chunks' # None /\ chunks' = ChunksOf(Elements)
      <4>1. PICK q \in Seq(WithText) : q = Elements BY <2>2, DocumentIsWritten
      <4>2. q # <<>> /\ ChunksOf(q) # None BY <2>2, <3>2, <4>1
      <4>3. ChunksOf(q) \in Seq(FittingChunk) BY <4>2, ChunksAre
      <4> QED BY <3>2, <4>1, <4>3, NoneIsNoChunks
    <3> QED BY <2>1, <3>1, <3>2
  <2> HIDE DEF Elements
  <2> QED BY <2>1, <2>2, <2>3 DEF IInv, TypeOK
<1>4. CASE UNCHANGED vars
  BY <1>4 DEF IInv, TypeOK, Elements, vars
<1> QED BY <1>1, <1>2, <1>3, <1>4 DEF Next

(* The inductive invariant holds of every file at every step of            *)
(* _process_snapshot.                                                      *)
THEOREM IInvHolds == Spec => []IInv
BY IInvInit, IInvNext, PTL DEF Spec

(* Each step leaves the next one a document whose elements, sections,      *)
(* pages and warnings are what the code takes them to be, and only what    *)
(* passed or waits for a review has chunks.                                *)
THEOREM TypeCorrect == Spec => []TypeOK
<1>1. IInv => TypeOK
  BY DEF IInv
<1> QED BY <1>1, IInvHolds, PTL

----------------------------------------------------------------------------
(* The section after element i is as deep as the level of the last heading *)
(* if no level is skipped, and lists the headings i stands under.          *)
Sectioned(cur, i) ==
  /\ \A h \in Headings : (h <= i /\ \A k \in Headings : k <= h \/ k > i) => Len(cur[i]) = Elements[h].level
  /\ \A l \in 1..Len(cur[i]) : \E j \in Above(i) : Elements[j].level = l /\ Elements[j].text = cur[i][l]
  /\ \A j \in Above(i) : Elements[j].level <= Len(cur[i])

(* What section_path[:level - 1] + [title] is when no level is skipped. *)
LEMMA NestedIs ==
  ASSUME NEW path \in Seq(Text), NEW level \in Nat \ {0}, NEW title \in Text, level - 1 <= Len(path)
  PROVE  /\ Len(Nested(path, level, title)) = level
         /\ Nested(path, level, title)[level] = title
         /\ \A l \in 1..(level - 1) : Nested(path, level, title)[l] = path[l]
<1>1. Smaller(level - 1, Len(path)) = level - 1
  BY DEF Smaller
<1>2. PICK s : s = SubSeq(path, 1, level - 1)
  OBVIOUS
<1>3. s \in Seq(Text) /\ Len(s) = level - 1 /\ \A l \in 1..(level - 1) : s[l] = path[l]
  BY <1>2
<1>4. Nested(path, level, title) = Append(s, title)
  BY <1>1, <1>2 DEF Nested
<1> QED BY <1>3, <1>4

(* One element more is in the section of the headings above it. *)
LEMMA SectionedNext ==
  ASSUME Elements \in Seq(ElementType), NoLevelIsSkipped,
         NEW cur, Sections(cur, Elements),
         NEW n \in 0..(Len(Elements) - 1), Sectioned(cur, n)
  PROVE  Sectioned(cur, n + 1)
<1>1. /\ n + 1 \in 1..Len(Elements) /\ n \in 0..Len(Elements) /\ DOMAIN Elements = 1..Len(Elements)
      /\ (n + 1) - 1 = n
  OBVIOUS
<1>2. cur[n] \in Seq(Text) /\ Len(cur[n]) \in Nat
  BY <1>1 DEF Sections
<1>3. PICK e : e = Elements[n + 1]
  OBVIOUS
<1>4. e.level \in Nat /\ e.text \in Text
  <2>1. e \in ElementType BY <1>1, <1>3
  <2> QED BY <2>1 DEF ElementType
<1>5. cur[n + 1] = IF e.level > 0 THEN Nested(cur[n], e.level, e.text) ELSE cur[n]
  BY <1>1, <1>3 DEF Sections
<1>6. Headings \subseteq 1..Len(Elements) /\ \A j \in Headings : Elements[j].level \in Nat \ {0}
  <2>1. \A j \in DOMAIN Elements : Elements[j] \in ElementType OBVIOUS
  <2>2. \A j \in DOMAIN Elements : Elements[j].level \in Nat BY <2>1 DEF ElementType
  <2> QED BY <1>1, <2>2 DEF Headings
<1>7. CASE e.level = 0
  <2>1. n + 1 \notin Headings BY <1>3, <1>7 DEF Headings
  <2>2. \A j \in Headings : j <= n + 1 <=> j <= n
    BY <1>6, <2>1
  <2>3. \A j \in Headings : j > n + 1 <=> j > n
    BY <1>6, <2>1
  <2>4. Above(n + 1) = Above(n)
    BY <2>2 DEF Above
  <2>5. cur[n + 1] = cur[n] BY <1>5, <1>7
  <2> QED BY <2>2, <2>3, <2>4, <2>5 DEF Sectioned
<1>8. CASE e.level > 0
  <2>1. n + 1 \in Headings BY <1>1, <1>3, <1>8 DEF Headings
  <2>2. e.level - 1 <= Len(cur[n])
    <3>1. CASE e.level = 1
      BY <1>2, <3>1
    <3>2. CASE e.level # 1
      <4>1. PICK h \in Headings : /\ h < n + 1 /\ e.level <= Elements[h].level + 1
                                  /\ \A k \in Headings : k <= h \/ k >= n + 1
        BY <1>3, <2>1, <3>2 DEF NoLevelIsSkipped
      <4>2. h <= n /\ \A k \in Headings : k <= h \/ k > n
        BY <1>6, <4>1
      <4>3. Len(cur[n]) = Elements[h].level
        BY <4>2 DEF Sectioned
      <4> QED BY <1>4, <1>6, <4>1, <4>3
    <3> QED BY <3>1, <3>2
  <2>3. PICK new : new = cur[n + 1]
    OBVIOUS
  <2>4. /\ Len(new) = e.level /\ new[e.level] = e.text
        /\ \A l \in 1..(e.level - 1) : new[l] = cur[n][l]
    <3>1. e.level \in Nat \ {0} BY <1>4, <1>8
    <3>2. new = Nested(cur[n], e.level, e.text) BY <1>5, <1>8, <2>3
    <3> QED BY <1>2, <1>4, <2>2, <3>1, <3>2, NestedIs
  <2>5. ASSUME NEW h \in Headings, h <= n + 1, \A k \in Headings : k <= h \/ k > n + 1
        PROVE  Len(new) = Elements[h].level
    <3>1. h = n + 1 BY <1>6, <2>1, <2>5
    <3> QED BY <1>3, <2>4, <3>1
  <2>6. ASSUME NEW j \in Above(n), Elements[j].level < e.level
        PROVE  j \in Above(n + 1)
    <3>1. /\ j \in Headings /\ j <= n
          /\ \A k \in Headings : j < k /\ k <= n => Elements[j].level < Elements[k].level
      BY DEF Above
    <3>2. ASSUME NEW k \in Headings, j < k, k <= n + 1 PROVE Elements[j].level < Elements[k].level
      <4>1. CASE k = n + 1 BY <1>3, <2>6, <4>1
      <4>2. CASE k # n + 1
        <5>1. k <= n BY <1>6, <3>2, <4>2
        <5> QED BY <3>1, <3>2, <5>1
      <4> QED BY <4>1, <4>2
    <3>3. j <= n + 1 BY <1>6, <3>1
    <3> QED BY <3>1, <3>2, <3>3 DEF Above
  <2>7. n + 1 \in Above(n + 1)
    <3>1. \A k \in Headings : ~(n + 1 < k /\ k <= n + 1) BY <1>6
    <3> QED BY <2>1, <3>1 DEF Above
  <2>8. ASSUME NEW l \in 1..Len(new)
        PROVE  \E j \in Above(n + 1) : Elements[j].level = l /\ Elements[j].text = new[l]
    <3>1. CASE l = e.level
      BY <1>3, <2>4, <2>7, <3>1
    <3>2. CASE l # e.level
      <4>1. l \in 1..(e.level - 1) /\ l \in 1..Len(cur[n]) BY <1>2, <1>4, <2>2, <2>4, <3>2
      <4>2. PICK j \in Above(n) : Elements[j].level = l /\ Elements[j].text = cur[n][l]
        BY <4>1 DEF Sectioned
      <4>3. j \in Above(n + 1) BY <1>4, <2>6, <4>1, <4>2
      <4> QED BY <2>4, <4>1, <4>2, <4>3
    <3> QED BY <3>1, <3>2
  <2>9. ASSUME NEW j \in Above(n + 1)
        PROVE  Elements[j].level <= Len(new)
    <3>1. /\ j \in Headings /\ j <= n + 1
          /\ \A k \in Headings : j < k /\ k <= n + 1 => Elements[j].level < Elements[k].level
      BY DEF Above
    <3>2. CASE j = n + 1
      BY <1>3, <1>4, <2>4, <3>2
    <3>3. CASE j # n + 1
      <4>1. j < n + 1 /\ n + 1 <= n + 1 BY <1>6, <3>1, <3>3
      <4>2. Elements[j].level < e.level BY <1>3, <2>1, <3>1, <4>1
      <4> QED BY <1>4, <1>6, <2>4, <3>1, <4>2
    <3> QED BY <3>2, <3>3
  <2> QED BY <2>3, <2>5, <2>8, <2>9 DEF Sectioned
<1> QED BY <1>4, <1>7, <1>8

(* So are all elements, one by one. *)
LEMMA SectionsAreSectioned ==
  ASSUME Elements \in Seq(ElementType), NoLevelIsSkipped, NEW cur, Sections(cur, Elements)
  PROVE  \A n \in 0..Len(Elements) : Sectioned(cur, n)
<1> DEFINE S == {n \in 0..Len(Elements) : Sectioned(cur, n)}
<1>1. 0 \in S
  <2>1. \A j \in Headings : ~(j <= 0)
    <3>1. Headings \subseteq 1..Len(Elements) BY DEF Headings
    <3> QED BY <3>1
  <2>2. Above(0) = {} BY <2>1 DEF Above
  <2>3. cur[0] = <<>> /\ Len(<<>>) = 0 BY DEF Sections
  <2>4. Len(cur[0]) = 0 BY <2>3
  <2>5. Sectioned(cur, 0) BY <2>1, <2>2, <2>4 DEF Sectioned
  <2>6. 0 \in 0..Len(Elements) OBVIOUS
  <2> QED BY <2>5, <2>6
<1>2. \A n \in 0..(Len(Elements) - 1) : n \in S => n + 1 \in S
  <2> SUFFICES ASSUME NEW n \in 0..(Len(Elements) - 1), n \in S PROVE n + 1 \in S
    OBVIOUS
  <2>1. n + 1 \in 0..Len(Elements) OBVIOUS
  <2> QED BY <2>1, SectionedNext
<1>3. Len(Elements) \in Nat
  OBVIOUS
<1>4. \A n \in 0..Len(Elements) : n \in S
  <2> HIDE DEF S
  <2> QED BY <1>1, <1>2, <1>3, SetInduction
<1> QED BY <1>4

(* A sound document has the section paths SectionsAreAncestors states. *)
LEMMA SectionsAreThoseAbove ==
  ASSUME document # None => Sound(document)
  PROVE  SectionsAreAncestors
<1> SUFFICES ASSUME document # None, NoLevelIsSkipped, NEW i \in DOMAIN Elements, Elements[i].type # "title"
             PROVE  /\ Len(Elements[i].path) = Cardinality(Above(i))
                    /\ \A j \in Above(i) : /\ Elements[j].level \in DOMAIN Elements[i].path
                                         /\ Elements[i].path[Elements[j].level] = Elements[j].text
  BY DEF SectionsAreAncestors
<1>1. Elements \in Seq(ElementType)
  BY DEF Sound, DocumentType, Elements
<1>2. PICK cur : Sections(cur, Elements)
  BY DEF Sound, Follows, Elements
<1>3. i \in 1..Len(Elements) /\ i \in 0..Len(Elements)
  BY <1>1
<1>4. Elements[i].path = cur[i] /\ cur[i] \in Seq(Text)
  BY <1>2, <1>3 DEF Sections
<1>5. Sectioned(cur, i)
  BY <1>1, <1>2, <1>3, SectionsAreSectioned
<1> DEFINE N == Len(cur[i])
<1>6. N \in Nat /\ DOMAIN cur[i] = 1..N
  BY <1>4
<1>7. Above(i) \subseteq Headings /\ \A j \in Headings : j \in 1..Len(Elements) /\ Elements[j].level \in Nat \ {0}
  <2>1. \A j \in DOMAIN Elements : Elements[j] \in ElementType BY <1>1
  <2>2. DOMAIN Elements = 1..Len(Elements) BY <1>1
  <2> QED BY SMTT(20), <2>1, <2>2 DEF Headings, Above, ElementType
<1>8. \A j \in Above(i) : Elements[j].level \in 1..N
  <2>1. \A j \in Above(i) : Elements[j].level <= N BY <1>5 DEF Sectioned
  <2> QED BY <1>6, <1>7, <2>1
<1>9. ASSUME NEW j \in Above(i), NEW k \in Above(i), Elements[j].level = Elements[k].level
      PROVE  j = k
  <2>1. j <= i /\ \A h \in Headings : j < h /\ h <= i => Elements[j].level < Elements[h].level
    BY DEF Above
  <2>2. k <= i /\ \A h \in Headings : k < h /\ h <= i => Elements[k].level < Elements[h].level
    BY DEF Above
  <2>3. j \in Nat /\ k \in Nat /\ j \in Headings /\ k \in Headings BY <1>7
  <2>4. Elements[j].level \in Nat /\ Elements[k].level \in Nat BY <1>7
  <2>5. ~(j < k) BY <1>9, <2>1, <2>2, <2>3, <2>4
  <2>6. ~(k < j) BY <1>9, <2>1, <2>2, <2>3, <2>4
  <2> QED BY <2>3, <2>5, <2>6
<1>10. \A l \in 1..N : \E j \in Above(i) : Elements[j].level = l /\ Elements[j].text = cur[i][l]
  BY <1>5 DEF Sectioned
<1>11. \A j \in Above(i) : cur[i][Elements[j].level] = Elements[j].text
  BY <1>8, <1>9, <1>10
<1>12. Cardinality(Above(i)) = N
  <2> DEFINE f == [j \in Above(i) |-> Elements[j].level]
  <2>1. f \in [Above(i) -> 1..N] BY <1>8
  <2>2. \A j, k \in Above(i) : f[j] = f[k] => j = k BY <1>9
  <2>3. \A l \in 1..N : \E j \in Above(i) : f[j] = l BY <1>10
  <2>4. f \in Bijection(Above(i), 1..N)
    BY <2>1, <2>2, <2>3 DEF Bijection, Injection, Surjection, IsInjective
  <2>5. IsFiniteSet(1..N) /\ Cardinality(1..N) = N BY <1>6, FS_Interval
  <2>6. IsFiniteSet(Above(i))
    <3>1. IsFiniteSet(1..Len(Elements)) BY <1>1, FS_Interval
    <3> QED BY <1>7, <3>1, FS_Subset
  <2> HIDE DEF f
  <2> QED BY <2>4, <2>5, <2>6, FS_Bijection DEF ExistsBijection
<1> QED BY <1>4, <1>6, <1>8, <1>11, <1>12

(* In a document whose headings skip no level, the section path of every   *)
(* element lists the headings it stands under, whichever parser built it.  *)
THEOREM PathsAreAncestors == Spec => []SectionsAreAncestors
<1>1. IInv => SectionsAreAncestors
  <2> SUFFICES ASSUME IInv PROVE SectionsAreAncestors
    OBVIOUS
  <2>1. document # None => Sound(document)
    BY ParsedIsSound DEF IInv
  <2> QED BY <2>1, SectionsAreThoseAbove
<1> QED BY <1>1, IInvHolds, PTL

----------------------------------------------------------------------------
(* How many of a sequence are in a set.                                    *)
Places(s, good) == {i \in DOMAIN s : s[i] \in good}
Count(s, good) == Cardinality(Places(s, good))

(* Counting in a sequence gives a natural number. *)
LEMMA CountType ==
  ASSUME NEW S, NEW s \in Seq(S), NEW good
  PROVE  /\ IsFiniteSet(Places(s, good)) /\ Count(s, good) \in Nat
         /\ Places(s, good) \subseteq 1..Len(s)
<1>1. DOMAIN s = 1..Len(s) /\ Len(s) \in Nat
  OBVIOUS
<1>2. IsFiniteSet(1..Len(s))
  BY <1>1, FS_Interval
<1>3. Places(s, good) \in SUBSET (1..Len(s))
  BY <1>1 DEF Places
<1>4. IsFiniteSet(Places(s, good))
  BY <1>2, <1>3, FS_Subset
<1> QED BY <1>3, <1>4, FS_CardinalityType DEF Count

(* Nothing is counted in an empty sequence. *)
LEMMA CountNothing ==
  ASSUME NEW good
  PROVE  Count(<<>>, good) = 0
<1>1. DOMAIN <<>> = {}
  OBVIOUS
<1>2. Places(<<>>, good) = {}
  BY <1>1 DEF Places
<1> QED BY <1>2, FS_EmptySet DEF Count

(* One element more counts one more if it is good. *)
LEMMA CountAppend ==
  ASSUME NEW S, NEW s \in Seq(S), NEW e \in S, NEW good
  PROVE  Count(Append(s, e), good) = IF e \in good THEN Count(s, good) + 1 ELSE Count(s, good)
<1> DEFINE N == Len(s)
<1>1. PICK t : t = Append(s, e)
  OBVIOUS
<1>2. /\ N \in Nat /\ DOMAIN s = 1..N /\ DOMAIN t = 1..(N + 1)
      /\ t[N + 1] = e /\ \A i \in 1..N : t[i] = s[i]
  BY <1>1
<1> HIDE DEF N
<1>3. IsFiniteSet(Places(s, good)) /\ N + 1 \notin Places(s, good)
  <2>1. N + 1 \notin DOMAIN s BY <1>2
  <2> QED BY <2>1, CountType DEF Places
<1>4. CASE e \in good
  <2>1. Places(t, good) = Places(s, good) \union {N + 1}
    BY <1>2, <1>4 DEF Places
  <2> QED BY <1>1, <1>3, <1>4, <2>1, FS_AddElement DEF Count
<1>5. CASE e \notin good
  <2>1. Places(t, good) = Places(s, good)
    BY <1>2, <1>5 DEF Places
  <2> QED BY <1>1, <1>5, <2>1 DEF Count
<1> QED BY <1>4, <1>5

(* A pop counts one less if what it takes is good. *)
LEMMA CountDropped ==
  ASSUME NEW tables \in Seq(NativeTable), NEW k \in 0..Len(tables), NEW good
  PROVE  /\ Count(Dropped(tables, k), good) <= Count(tables, good)
         /\ k # 0 /\ tables[k] \in good => Count(Dropped(tables, k), good) + 1 <= Count(tables, good)
<1>1. CASE k = 0
  <2>1. Dropped(tables, k) = tables BY <1>1 DEF Dropped
  <2> QED BY <1>1, <2>1, CountType
<1>2. CASE k # 0
  <2> DEFINE N == Len(tables)
  <2>1. PICK t \in Seq(NativeTable) : t = Dropped(tables, k)
    BY DroppedType
  <2>2. /\ N \in Nat /\ k \in 1..N /\ DOMAIN tables = 1..N /\ DOMAIN t = 1..(N - 1)
        /\ \A j \in 1..(N - 1) : t[j] = IF j < k THEN tables[j] ELSE tables[j + 1]
    <3>1. Len(t) = N - 1 /\ \A j \in 1..Len(t) : t[j] = IF j < k THEN tables[j] ELSE tables[j + 1]
      BY <1>2, <2>1, DroppedType
    <3> QED BY <1>2, <3>1
  <2> HIDE DEF N
  <2> DEFINE A == Places(t, good)
             B == Places(tables, good)
             f == [j \in A |-> IF j < k THEN j ELSE j + 1]
  <2>3. IsFiniteSet(B) /\ IsFiniteSet(B \ {k})
    BY CountType, FS_RemoveElement
  <2>4. A \subseteq 1..(N - 1) /\ \A j \in A : t[j] \in good
    BY <2>2 DEF Places
  <2>5. ASSUME NEW j \in A PROVE f[j] \in B \ {k}
    <3>1. CASE j < k
      <4>1. j \in 1..N /\ tables[j] \in good /\ f[j] = j BY <2>2, <2>4, <3>1
      <4> QED BY <2>2, <3>1, <4>1 DEF Places
    <3>2. CASE ~(j < k)
      <4>1. j + 1 \in 1..N /\ tables[j + 1] \in good /\ f[j] = j + 1 /\ j + 1 # k BY <2>2, <2>4, <3>2
      <4> QED BY <2>2, <4>1 DEF Places
    <3> QED BY <3>1, <3>2
  <2>6. ASSUME NEW i \in A, NEW j \in A, f[i] = f[j] PROVE i = j
    <3>1. i \in Nat /\ j \in Nat /\ k \in Nat BY <2>2, <2>4
    <3> QED BY <2>6, <3>1
  <2>7. f \in Injection(A, B \ {k})
    <3>1. f \in [A -> B \ {k}] BY <2>5
    <3>2. \A i, j \in DOMAIN f : f[i] = f[j] => i = j BY <2>6
    <3> QED BY <3>1, <3>2 DEF Injection, IsInjective
  <2>8. IsFiniteSet(A) /\ Cardinality(A) <= Cardinality(B \ {k})
    <3> HIDE DEF f
    <3> QED BY <2>3, <2>7, FS_Injection
  <2>9. Cardinality(B \ {k}) = IF k \in B THEN Cardinality(B) - 1 ELSE Cardinality(B)
    BY <2>3, FS_RemoveElement
  <2>10. Cardinality(A) \in Nat /\ Cardinality(B) \in Nat
    BY <2>3, <2>8, FS_CardinalityType
  <2>11. tables[k] \in good => k \in B
    BY <2>2 DEF Places
  <2> HIDE DEF A, B
  <2>12. /\ Cardinality(A) <= Cardinality(B)
         /\ tables[k] \in good => Cardinality(A) + 1 <= Cardinality(B)
    BY <2>8, <2>9, <2>10, <2>11
  <2> QED BY <2>1, <2>12 DEF A, B, Count
<1> QED BY <1>1, <1>2

(* What is kept while Docling's items are read: every table among them has *)
(* an element unless one is missing, and each one takes at most one of the *)
(* tables of the PDF, whose text counts only once.                         *)
IsTable == {e \in ElementType : e.type = "table"}
NativeWith(text) == {e \in ElementType : e.native /\ e.text = text}
TableWith(text) == {t \in NativeTable : t.text = text}
ItemTables(result, n) == {m \in 1..n : result.items[m].label = "table"}

Whole(acc, result, tables, n) ==
  /\ ~acc.incomplete => Count(acc.elements, IsTable) = Cardinality(ItemTables(result, n))
  /\ Len(tables) <= Len(acc.tables) + Cardinality(ItemTables(result, n))
  /\ \A text \in Text :
       Count(acc.elements, NativeWith(text)) + Count(acc.tables, TableWith(text))
         <= Count(tables, TableWith(text))

(* The tables among the items are counted item by item. *)
LEMMA ItemTablesNext ==
  ASSUME NEW result \in ResultType, NEW n \in 1..Len(result.items)
  PROVE  /\ IsFiniteSet(ItemTables(result, n - 1)) /\ Cardinality(ItemTables(result, n - 1)) \in Nat
         /\ Cardinality(ItemTables(result, n)) =
              IF result.items[n].label = "table" THEN Cardinality(ItemTables(result, n - 1)) + 1
              ELSE Cardinality(ItemTables(result, n - 1))
<1>1. n \in Nat \ {0} /\ n - 1 \in Nat
  BY DEF ResultType
<1>2. IsFiniteSet(1..(n - 1))
  BY <1>1, FS_Interval
<1>3. IsFiniteSet(ItemTables(result, n - 1)) /\ Cardinality(ItemTables(result, n - 1)) \in Nat
  <2>1. ItemTables(result, n - 1) \in SUBSET (1..(n - 1)) BY DEF ItemTables
  <2> QED BY <1>2, <2>1, FS_Subset, FS_CardinalityType
<1>4. n \notin ItemTables(result, n - 1)
  BY <1>1 DEF ItemTables
<1>5. CASE result.items[n].label = "table"
  <2>1. ItemTables(result, n) = ItemTables(result, n - 1) \union {n}
    BY <1>1, <1>5 DEF ItemTables
  <2> QED BY <1>3, <1>4, <1>5, <2>1, FS_AddElement
<1>6. CASE result.items[n].label # "table"
  <2>1. ItemTables(result, n) = ItemTables(result, n - 1)
    BY <1>1, <1>6 DEF ItemTables
  <2> QED BY <1>3, <1>6, <2>1
<1> QED BY <1>5, <1>6

(* One round of map_docling_result keeps the account of tables. *)
LEMMA WholeNext ==
  ASSUME NEW result \in ResultType, NEW tables \in Seq(NativeTable), NEW n \in 1..Len(result.items),
         NEW acc \in ReadState, Whole(acc, result, tables, n - 1),
         NEW item \in ItemType, item.label = result.items[n].label
  PROVE  Whole(Item(acc, item), result, tables, n)
<1> DEFINE T == Cardinality(ItemTables(result, n - 1))
           new == Item(acc, item)
           e == ElementOf(acc, item)
           k == Matched(acc, item)
<1>1. T \in Nat /\ Cardinality(ItemTables(result, n)) = IF item.label = "table" THEN T + 1 ELSE T
  BY ItemTablesNext
<1>2. /\ acc.elements \in Seq(ElementType) /\ acc.tables \in Seq(NativeTable) /\ Len(acc.tables) \in Nat
  BY DEF ReadState
<1>3. /\ e \in ElementType /\ k \in 0..Len(acc.tables)
      /\ new.elements = IF TextOf(acc, item) = <<>> THEN acc.elements ELSE Append(acc.elements, e)
      /\ new.tables = Dropped(acc.tables, k)
      /\ new.incomplete <=> acc.incomplete \/ (item.label = "table" /\ TextOf(acc, item) = <<>>)
  BY ItemStep
<1>4. /\ e.type = "table" <=> item.label = "table"
      /\ e.text = TextOf(acc, item)
      /\ e.native <=> Recovers(acc, item)
      /\ k # 0 => item.label = "table"
  BY DEF ElementOf, Type, Matched
<1>5. Recovers(acc, item) => k # 0 /\ TextOf(acc, item) = acc.tables[k].text
  BY DEF Recovers, Matched, TextOf
<1>6. Cardinality(ItemTables(result, n)) \in Nat /\ Len(tables) \in Nat
  BY <1>1
<1> HIDE DEF T, new, e, k
<1>7. \A good : /\ Count(new.elements, good) = IF TextOf(acc, item) # <<>> /\ e \in good
                                             THEN Count(acc.elements, good) + 1
                                             ELSE Count(acc.elements, good)
               /\ Count(acc.elements, good) \in Nat
  BY <1>2, <1>3, CountAppend, CountType
<1>8. ASSUME ~new.incomplete
      PROVE  Count(new.elements, IsTable) = Cardinality(ItemTables(result, n))
  <2>1. ~acc.incomplete /\ ~(item.label = "table" /\ TextOf(acc, item) = <<>>)
    BY <1>3, <1>8
  <2>2. Count(acc.elements, IsTable) = T
    BY <2>1 DEF Whole, T
  <2>3. e \in IsTable <=> item.label = "table"
    BY <1>3, <1>4 DEF IsTable
  <2> QED BY <1>1, <1>7, <2>1, <2>2, <2>3
<1>9. Len(tables) <= Len(new.tables) + Cardinality(ItemTables(result, n))
  <2>1. Len(new.tables) = IF k = 0 THEN Len(acc.tables) ELSE Len(acc.tables) - 1
    BY <1>2, <1>3, DroppedType
  <2>2. Len(tables) <= Len(acc.tables) + T
    BY DEF Whole, T
  <2>3. PICK C : C = Cardinality(ItemTables(result, n))
    OBVIOUS
  <2>4. T \in Nat /\ C = IF item.label = "table" THEN T + 1 ELSE T
    BY <1>1, <2>3
  <2>5. k # 0 => item.label = "table"
    BY <1>4
  <2>6. PICK a, b, l : a = Len(acc.tables) /\ b = Len(new.tables) /\ l = Len(tables)
    OBVIOUS
  <2>7. a \in Nat /\ l \in Nat
    BY <1>2, <1>6, <2>6
  <2>8. b = (IF k = 0 THEN a ELSE a - 1) /\ l <= a + T
    BY <2>1, <2>2, <2>6
  <2>9. l <= b + C
    BY <2>4, <2>5, <2>7, <2>8
  <2> QED BY <2>3, <2>6, <2>9
<1>10. ASSUME NEW text \in Text
       PROVE  Count(new.elements, NativeWith(text)) + Count(new.tables, TableWith(text))
                <= Count(tables, TableWith(text))
  <2> DEFINE a == Count(acc.elements, NativeWith(text))
             b == Count(acc.tables, TableWith(text))
             c == Count(tables, TableWith(text))
             d == Count(new.tables, TableWith(text))
  <2>1. a \in Nat /\ b \in Nat /\ c \in Nat /\ a + b <= c
    BY <1>2, CountType DEF Whole
  <2>2. d \in Nat /\ d <= b /\ (k # 0 /\ acc.tables[k] \in TableWith(text) => d + 1 <= b)
    <3>1. new.tables \in Seq(NativeTable) BY <1>2, <1>3, DroppedType
    <3>2. d \in Nat BY <3>1, CountType
    <3> QED BY <1>2, <1>3, <3>2, CountDropped
  <2>3. e \in NativeWith(text) => k # 0 /\ acc.tables[k] \in TableWith(text)
    <3> SUFFICES ASSUME e \in NativeWith(text) PROVE k # 0 /\ acc.tables[k] \in TableWith(text)
      OBVIOUS
    <3>1. Recovers(acc, item) /\ TextOf(acc, item) = text BY <1>4 DEF NativeWith
    <3>2. acc.tables[k] \in NativeTable BY <1>2, <1>3, <1>5, <3>1
    <3> QED BY <1>5, <3>1, <3>2 DEF TableWith
  <2>4. Count(new.elements, NativeWith(text)) = IF TextOf(acc, item) # <<>> /\ e \in NativeWith(text) THEN a + 1 ELSE a
    BY <1>7
  <2> HIDE DEF a, b, c, d
  <2>5. Count(new.elements, NativeWith(text)) + d <= c
    BY <2>1, <2>2, <2>3, <2>4
  <2> QED BY <2>5 DEF c, d
<1> QED BY <1>8, <1>9, <1>10 DEF Whole, new

(* So the account is right at the end of the loop. *)
LEMMA ReadIsWhole ==
  ASSUME NEW result \in ResultType, NEW tables \in Seq(NativeTable)
  PROVE  Whole(Read(result, tables)[Len(result.items)], result, tables, Len(result.items))
<1> DEFINE acc == Read(result, tables)
           N == Len(result.items)
           S == {n \in 0..N : Whole(acc[n], result, tables, n)}
<1>1. /\ N \in Nat /\ result.pages \in Nat
      /\ \A n \in 1..N : result.items[n] \in ItemType
  BY DEF ResultType
<1>2. 0 \in S
  <2>1. acc[0] = ReadStart(tables) BY ReadRuns
  <2>2. ReadStart(tables).elements = <<>> /\ ReadStart(tables).tables = tables
    BY DEF ReadStart
  <2>3. ItemTables(result, 0) = {}
    <3>1. 1..0 = {} OBVIOUS
    <3> QED BY <3>1 DEF ItemTables
  <2>4. Cardinality(ItemTables(result, 0)) = 0 BY <2>3, FS_EmptySet
  <2>5. \A text : Count(tables, TableWith(text)) \in Nat BY CountType
  <2>6. Len(tables) \in Nat OBVIOUS
  <2>7. 0 \in 0..N BY <1>1
  <2> HIDE DEF acc, N
  <2>8. Whole(acc[0], result, tables, 0)
    BY <2>1, <2>2, <2>4, <2>5, <2>6, CountNothing DEF Whole
  <2> QED BY <2>7, <2>8
<1>3. \A n \in 0..(N - 1) : n \in S => n + 1 \in S
  <2> SUFFICES ASSUME NEW n \in 0..(N - 1), n \in S PROVE n + 1 \in S
    OBVIOUS
  <2>1. n + 1 \in 1..N /\ n + 1 \in 0..N /\ (n + 1) - 1 = n BY <1>1
  <2>2. PICK item \in ItemType : item = Located(result.items[n + 1], result.pages)
    BY <1>1, <2>1, LocatedType
  <2>3. item.label = result.items[n + 1].label
    BY <1>1, <2>1, <2>2, LocatedType
  <2>4. acc[n + 1] = Item(acc[n], item) /\ acc[n] \in ReadState
    BY <2>1, <2>2, ReadRuns
  <2>5. Whole(acc[n], result, tables, n) OBVIOUS
  <2> HIDE DEF acc
  <2>6. Whole(Item(acc[n], item), result, tables, n + 1)
    BY <2>1, <2>3, <2>4, <2>5, WholeNext
  <2> QED BY <2>1, <2>4, <2>6
<1>4. N \in S
  <2> HIDE DEF S
  <2>1. N \in 0..N BY <1>1
  <2> HIDE DEF N
  <2> QED BY <1>1, <1>2, <1>3, <2>1, SetInduction
<1> QED BY <1>4

(* A document all of whose pages count has an element on each of them.     *)
LEMMA AllAreCovered ==
  ASSUME NEW d \in DocumentType, d.pages = Cardinality(Covered(d)),
         \A i \in DOMAIN d.elements : d.elements[i].end <= d.pages
  PROVE  \A n \in 1..d.pages : \E i \in DOMAIN d.elements :
           d.elements[i].start <= n /\ n <= d.elements[i].end
<1>1. d.pages \in Nat /\ d.elements \in Seq(ElementType)
  BY DEF DocumentType
<1>2. CASE d.pages = 0
  BY <1>2
<1>3. CASE d.pages # 0
  <2>1. \A i \in DOMAIN d.elements : d.elements[i].start \in Nat /\ d.elements[i].end \in Nat
    <3>1. \A i \in DOMAIN d.elements : d.elements[i] \in ElementType BY <1>1
    <3> QED BY <3>1 DEF ElementType
  <2>2. \A n \in Covered(d) : \E i \in DOMAIN d.elements :
          d.elements[i].start # 0 /\ n \in d.elements[i].start .. d.elements[i].end
    BY <1>3 DEF Covered
  <2>3. Covered(d) \in SUBSET (1..d.pages)
    <3> SUFFICES ASSUME NEW n \in Covered(d) PROVE n \in 1..d.pages
      OBVIOUS
    <3>1. PICK i \in DOMAIN d.elements :
            d.elements[i].start # 0 /\ n \in d.elements[i].start .. d.elements[i].end
      BY <2>2
    <3>2. /\ d.elements[i].start \in Nat \ {0} /\ d.elements[i].end \in Nat
          /\ d.elements[i].end <= d.pages
      BY <2>1, <3>1
    <3> QED BY <1>1, <3>1, <3>2
  <2>4. IsFiniteSet(1..d.pages) /\ Cardinality(1..d.pages) = d.pages
    BY <1>1, <1>3, FS_Interval
  <2>5. Covered(d) = 1..d.pages
    BY <2>3, <2>4, FS_Subset
  <2> SUFFICES ASSUME NEW n \in 1..d.pages
               PROVE  \E i \in DOMAIN d.elements : d.elements[i].start <= n /\ n <= d.elements[i].end
    OBVIOUS
  <2>6. PICK i \in DOMAIN d.elements : n \in d.elements[i].start .. d.elements[i].end
    BY <2>2, <2>5
  <2> QED BY <2>1, <2>6
<1> QED BY <1>2, <1>3

(* What is known of a document that goes to the indexes without a review. *)
LEMMA WhatPassed ==
  ASSUME IInv, pc = "index"
  PROVE  /\ document # None /\ document = Parsed(file) /\ file \in Files
         /\ document \in DocumentType
         /\ document.warnings = {} /\ document.elements # <<>>
         /\ document.pages = Cardinality(Covered(document))
<1>1. document # None /\ document = Parsed(file) /\ file \in Files
  BY DEF IInv, TypeOK
<1>2. document \in DocumentType
  BY <1>1 DEF IInv, TypeOK, DocumentType
<1>3. /\ quality = Assessed(document, document.warnings)
      /\ quality.status = IF quality.warnings = {} THEN "passed" ELSE "review_required"
      /\ quality.status # "review_required" /\ document.elements # <<>>
  BY DEF IInv, TypeOK, Elements
<1>4. quality.warnings = {}
  BY <1>3
<1> QED BY <1>1, <1>2, <1>3, <1>4, AssessedIs

(* And if it is a PDF, of the Docling result behind it. *)
LEMMA PassedPdfIsWhole ==
  ASSUME IInv, pc = "index", file.suffix = "pdf"
  PROVE  /\ file.body \in PdfType
         /\ document.pages = Len(file.body.pages)
         /\ \A i \in DOMAIN document.elements : document.elements[i].end <= document.pages
         /\ Inspected(file.body) # "clean_text" =>
              LET result == file.body.docling
                  acc == Read(result, NativeTables(file.body))[Len(result.items)] IN
              /\ result \in ResultType
              /\ document.elements = acc.elements
              /\ ~acc.incomplete /\ acc.tables = <<>>
              /\ result.status = "success" /\ result.pages = Len(file.body.pages) /\ ~result.timeout
<1> DEFINE pdf == file.body
<1>1. /\ document # None /\ document = Parsed(file) /\ document \in DocumentType
      /\ document.warnings = {} /\ document.elements # <<>>
  BY WhatPassed
<1>2. pdf \in PdfType /\ Parsed(file) = ParsedPdf(pdf)
  BY WhatPassed, BodyIs DEF Parsed
<1>3. Len(pdf.pages) \in Nat /\ pdf.pages \in Seq(PageType) /\ NativeTables(pdf) \in Seq(NativeTable)
  BY <1>2, NativeTablesType DEF PdfType
<1>4. CASE Inspected(pdf) = "clean_text"
  <2>1. document = PdfDocument(pdf.pages) BY <1>1, <1>2, <1>4 DEF ParsedPdf
  <2>2. document.elements = PageParagraphs(pdf.pages) /\ document.pages = Len(pdf.pages)
    BY <1>1, <1>3, <2>1, PdfDocumentIsSound
  <2>3. ASSUME NEW i \in DOMAIN document.elements PROVE document.elements[i].end <= document.pages
    <3>1. i \in 1..Len(pdf.pages) /\ document.elements[i] = PageParagraph(pdf.pages[i], i)
      BY <1>3, <2>2, PageParagraphsAre
    <3>2. PageParagraph(pdf.pages[i], i).end = i
      BY <1>3, <3>1, PageParagraphIs
    <3> QED BY <1>3, <2>2, <3>1, <3>2
  <2> QED BY <1>2, <1>4, <2>2, <2>3
<1>5. CASE Inspected(pdf) \in {"invalid_pdf", "zero_pages"}
  <2>1. ParsedPdf(pdf) = None BY <1>5 DEF ParsedPdf
  <2> QED BY <1>1, <1>2, <2>1
<1>6. CASE Inspected(pdf) = "encrypted"
  <2>1. ParsedPdf(pdf) = [pages |-> Len(pdf.pages), elements |-> <<>>, warnings |-> {"encrypted_input"}]
    BY <1>6 DEF ParsedPdf
  <2> QED BY <1>1, <1>2, <2>1
<1>7. CASE Inspected(pdf) \notin {"invalid_pdf", "zero_pages", "encrypted", "clean_text"}
  <2>1. document = Advanced(pdf) BY <1>1, <1>2, <1>7 DEF ParsedPdf
  <2>2. document # [pages |-> Len(pdf.pages), elements |-> <<>>, warnings |-> {"parser_exception"}]
    BY <1>1
  <2>3. /\ pdf.docling \in ResultType
        /\ Mapped(pdf.docling, NativeTables(pdf), Len(pdf.pages)) # None
        /\ document = Mapped(pdf.docling, NativeTables(pdf), Len(pdf.pages))
    BY <1>2, <2>1, <2>2, AdvancedIs
  <2>4. LET acc == Read(pdf.docling, NativeTables(pdf))[Len(pdf.docling.items)] IN
        /\ document.elements = acc.elements /\ document.pages = Len(pdf.pages)
        /\ \A i \in DOMAIN document.elements : document.elements[i].end <= Len(pdf.pages)
        /\ ~acc.incomplete /\ acc.tables = <<>>
        /\ pdf.docling.status = "success" /\ pdf.docling.pages = Len(pdf.pages) /\ ~pdf.docling.timeout
    BY <1>1, <1>3, <2>3, MappedIs
  <2> QED BY <1>2, <2>3, <2>4
<1> QED BY <1>4, <1>5, <1>6, <1>7

(* A PDF that goes on without a review is whole: every page has text, and  *)
(* if Docling read it, it finished in time with all the pages, and every   *)
(* table it found, and every table of the PDF, has its text.               *)
THEOREM PassedPdfsAreWhole == Spec => []PassedIsWhole
<1>1. IInv => PassedIsWhole
  <2> SUFFICES ASSUME IInv, pc = "index", file.suffix = "pdf"
               PROVE  /\ \A n \in DOMAIN file.body.pages : \E i \in DOMAIN Elements :
                           Elements[i].start <= n /\ n <= Elements[i].end
                      /\ Inspected(file.body) # "clean_text" =>
                           LET result == file.body.docling IN
                           /\ result.status = "success" /\ ~result.timeout
                           /\ result.pages = Len(file.body.pages)
                           /\ Cardinality(TableElements) = Cardinality(TableItems(result))
                           /\ Cardinality(TableElements) >= Len(NativeTables(file.body))
    BY DEF PassedIsWhole
  <2>1. \A n \in DOMAIN file.body.pages : \E i \in DOMAIN Elements :
          Elements[i].start <= n /\ n <= Elements[i].end
    <3>1. DOMAIN file.body.pages = 1..document.pages
      BY PassedPdfIsWhole DEF PdfType
    <3> QED BY <3>1, WhatPassed, PassedPdfIsWhole, AllAreCovered DEF Elements
  <2>2. ASSUME Inspected(file.body) # "clean_text"
        PROVE  LET result == file.body.docling IN
               /\ result.status = "success" /\ ~result.timeout
               /\ result.pages = Len(file.body.pages)
               /\ Cardinality(TableElements) = Cardinality(TableItems(result))
               /\ Cardinality(TableElements) >= Len(NativeTables(file.body))
    <3> DEFINE result == file.body.docling
               tables == NativeTables(file.body)
               acc == Read(result, tables)[Len(result.items)]
    <3>1. /\ result \in ResultType /\ tables \in Seq(NativeTable)
          /\ Elements = acc.elements /\ ~acc.incomplete /\ acc.tables = <<>>
          /\ result.status = "success" /\ result.pages = Len(file.body.pages) /\ ~result.timeout
      BY <2>2, PassedPdfIsWhole, NativeTablesType DEF Elements
    <3>2. Whole(acc, result, tables, Len(result.items)) /\ acc \in ReadState
      BY <3>1, ReadIsWhole, ReadFollows
    <3>3. ItemTables(result, Len(result.items)) = TableItems(result)
      BY <3>1 DEF ItemTables, TableItems, ResultType
    <3> HIDE DEF acc, tables, result
    <3>4. Count(Elements, IsTable) = Cardinality(TableItems(result)) /\ Len(tables) <= Len(acc.tables) + Cardinality(TableItems(result))
      BY <3>1, <3>2, <3>3 DEF Whole
    <3>5. Places(Elements, IsTable) = TableElements
      <4>1. Elements \in Seq(ElementType) BY <3>1, <3>2 DEF ReadState
      <4>2. \A i \in DOMAIN Elements : Elements[i] \in ElementType BY <4>1
      <4> QED BY <4>2 DEF Places, TableElements, IsTable
    <3>6. Cardinality(TableElements) = Cardinality(TableItems(result))
      BY <3>4, <3>5 DEF Count
    <3>7. Cardinality(TableElements) \in Nat /\ Len(tables) \in Nat
      <4>1. Elements \in Seq(ElementType) BY <3>1, <3>2 DEF ReadState
      <4> QED BY <3>1, <3>5, <4>1, CountType DEF Count
    <3>8. Len(acc.tables) = 0
      BY <3>1
    <3>9. Cardinality(TableElements) >= Len(tables)
      BY <3>4, <3>6, <3>7, <3>8
    <3> QED BY <3>1, <3>6, <3>9 DEF result, tables
  <2> QED BY <2>1, <2>2
<1> QED BY <1>1, IInvHolds, PTL

(* Only elements of a Docling result can be native tables. *)
LEMMA NativeOfDocument ==
  ASSUME NEW pdf \in PdfType, ParsedPdf(pdf) # None
  PROVE  \/ \A i \in DOMAIN ParsedPdf(pdf).elements : ~ParsedPdf(pdf).elements[i].native
         \/ /\ pdf.docling \in ResultType
            /\ ParsedPdf(pdf).elements =
                 Read(pdf.docling, NativeTables(pdf))[Len(pdf.docling.items)].elements
<1>1. Len(pdf.pages) \in Nat /\ pdf.pages \in Seq(PageType) /\ NativeTables(pdf) \in Seq(NativeTable)
  BY NativeTablesType DEF PdfType
<1>2. CASE Inspected(pdf) \in {"invalid_pdf", "zero_pages"}
  BY <1>2 DEF ParsedPdf
<1>3. CASE Inspected(pdf) = "encrypted"
  <2>1. ParsedPdf(pdf) = [pages |-> Len(pdf.pages), elements |-> <<>>, warnings |-> {"encrypted_input"}]
    BY <1>3 DEF ParsedPdf
  <2>2. ParsedPdf(pdf).elements = <<>> /\ DOMAIN <<>> = {} BY <2>1
  <2> QED BY <2>2
<1>4. CASE Inspected(pdf) = "clean_text"
  <2>1. ParsedPdf(pdf) = PdfDocument(pdf.pages) BY <1>4 DEF ParsedPdf
  <2>2. ParsedPdf(pdf).elements = PageParagraphs(pdf.pages)
    BY <1>1, <2>1, PdfDocumentIsSound
  <2>3. ASSUME NEW i \in DOMAIN PageParagraphs(pdf.pages) PROVE ~PageParagraphs(pdf.pages)[i].native
    <3>1. i \in 1..Len(pdf.pages) /\ PageParagraphs(pdf.pages)[i] = PageParagraph(pdf.pages[i], i)
      BY <1>1, PageParagraphsAre
    <3> QED BY <1>1, <3>1, PageParagraphIs
  <2> QED BY <2>2, <2>3
<1>5. CASE Inspected(pdf) \notin {"invalid_pdf", "zero_pages", "encrypted", "clean_text"}
  <2>1. ParsedPdf(pdf) = Advanced(pdf) BY <1>5 DEF ParsedPdf
  <2>2. CASE Advanced(pdf) = [pages |-> Len(pdf.pages), elements |-> <<>>, warnings |-> {"parser_exception"}]
    <3>1. ParsedPdf(pdf).elements = <<>> /\ DOMAIN <<>> = {} BY <2>1, <2>2
    <3> QED BY <3>1
  <2>3. CASE /\ pdf.docling \in ResultType
             /\ Mapped(pdf.docling, NativeTables(pdf), Len(pdf.pages)) # None
             /\ Advanced(pdf) = Mapped(pdf.docling, NativeTables(pdf), Len(pdf.pages))
    BY <1>1, <2>1, <2>3, MappedIs
  <2> QED BY <2>2, <2>3, AdvancedIs
<1> QED BY <1>2, <1>3, <1>4, <1>5

(* The text of a table of the PDF stands in for no more of Docling's       *)
(* tables than there are tables with that text in the PDF.                 *)
THEOREM TablesStandInOnce == Spec => []TablesAreRecoveredOnce
<1>1. IInv => TablesAreRecoveredOnce
  <2> SUFFICES ASSUME IInv, document # None, file.suffix = "pdf",
                      NEW n \in DOMAIN NativeTables(file.body)
               PROVE  Cardinality({i \in DOMAIN Elements : Elements[i].native /\ Elements[i].text = NativeTables(file.body)[n].text})
                        <= Cardinality({k \in DOMAIN NativeTables(file.body) :
                                          NativeTables(file.body)[k].text = NativeTables(file.body)[n].text})
    BY DEF TablesAreRecoveredOnce
  <2> DEFINE pdf == file.body
             tables == NativeTables(pdf)
             text == tables[n].text
             A == {i \in DOMAIN Elements : Elements[i].native /\ Elements[i].text = text}
             B == {k \in DOMAIN tables : tables[k].text = text}
  <2>1. file \in Files /\ document = Parsed(file) /\ document \in DocumentType
    BY DEF IInv, TypeOK, DocumentType
  <2>2. pdf \in PdfType /\ document = ParsedPdf(pdf)
    BY <2>1, BodyIs DEF Parsed
  <2>3. tables \in Seq(NativeTable)
    BY <2>2, NativeTablesType
  <2>4. Elements \in Seq(ElementType)
    BY <2>1 DEF DocumentType, Elements
  <2>5. /\ \A k \in DOMAIN tables : tables[k] \in NativeTable
        /\ \A i \in DOMAIN Elements : Elements[i] \in ElementType
    BY <2>3, <2>4
  <2>6. text \in Text
    BY <2>5 DEF NativeTable
  <2>7. B = Places(tables, TableWith(text)) /\ A = Places(Elements, NativeWith(text))
    <3> HIDE DEF tables, text
    <3> QED BY <2>5 DEF Places, TableWith, NativeWith
  <2>8. Cardinality(A) \in Nat /\ Cardinality(B) \in Nat
    BY <2>3, <2>4, <2>7, CountType DEF Count
  <2>9. CASE \A i \in DOMAIN ParsedPdf(pdf).elements : ~ParsedPdf(pdf).elements[i].native
    <3>1. A = {} BY <2>2, <2>9 DEF Elements
    <3>2. Cardinality(A) = 0 BY <3>1, FS_EmptySet
    <3> QED BY <2>8, <3>2
  <2>10. CASE /\ pdf.docling \in ResultType
              /\ ParsedPdf(pdf).elements = Read(pdf.docling, tables)[Len(pdf.docling.items)].elements
    <3> DEFINE acc == Read(pdf.docling, tables)[Len(pdf.docling.items)]
    <3>1. Elements = acc.elements BY <2>2, <2>10 DEF Elements
    <3>2. Whole(acc, pdf.docling, tables, Len(pdf.docling.items)) /\ acc \in ReadState
      BY <2>3, <2>10, ReadIsWhole, ReadFollows
    <3> HIDE DEF acc, tables, text, A, B, pdf
    <3>3. Count(acc.elements, NativeWith(text)) + Count(acc.tables, TableWith(text)) <= Count(tables, TableWith(text))
      BY <2>6, <3>2 DEF Whole
    <3>4. Count(acc.tables, TableWith(text)) \in Nat
      <4>1. acc.tables \in Seq(NativeTable) BY <3>2 DEF ReadState
      <4> QED BY <4>1, CountType
    <3>5. Count(acc.elements, NativeWith(text)) = Cardinality(A) /\ Count(tables, TableWith(text)) = Cardinality(B)
      BY <2>7, <3>1 DEF Count
    <3>6. Cardinality(A) <= Cardinality(B)
      BY <2>8, <3>3, <3>4, <3>5
    <3> QED BY <3>6 DEF A, B, text, tables, pdf
  <2> QED BY <2>2, <2>9, <2>10, NativeOfDocument
<1> QED BY <1>1, IInvHolds, PTL

----------------------------------------------------------------------------
(* No chunk is empty or over the token budget: a piece is bisected down to *)
(* what fits, rows are joined while they fit under the header, and what is *)
(* joined of two chunks fits.                                              *)
THEOREM EveryChunkFits == Spec => []ChunksFit
<1>1. IInv => ChunksFit
  <2> SUFFICES ASSUME IInv, chunks # <<>> PROVE ChunksFit
    BY DEF ChunksFit
  <2>1. document # None /\ chunks = ChunksOf(Elements)
    BY DEF IInv
  <2>2. Elements \in Seq(WithText) /\ Elements # <<>>
    BY <2>1, DocumentIsWritten DEF IInv, TypeOK
  <2>3. chunks # None
    BY <2>1 DEF IInv
  <2>4. chunks \in Seq(FittingChunk)
    BY <2>1, <2>2, <2>3, ChunksAre
  <2>5. \A k \in DOMAIN chunks : chunks[k] \in FittingChunk
    BY <2>4
  <2> QED BY <2>5 DEF ChunksFit, FittingChunk, Within, Fits
<1> QED BY <1>1, IInvHolds, PTL

(* A document that has text and quality fails to be split only because of  *)
(* a special token, or a table whose header leaves too little of the       *)
(* budget for some character of its rows.                                  *)
THEOREM SplittingFailures == Spec => []SplittingFailsFor
<1>1. IInv => SplittingFailsFor
  <2> SUFFICES ASSUME IInv, pc = "failed", quality # None, quality.status # "failed"
               PROVE  \E i \in DOMAIN Elements :
                        LET s == Elements[i].text IN
                        \/ ~Encodes(s)
                        \/ /\ Elements[i].type = "table" /\ ~Fits(s)
                           /\ \E m \in DOMAIN RowsOf(s) : \E n \in DOMAIN RowsOf(s)[m] :
                                Tokens(HeadingOf(s)) + Tokens(<<RowsOf(s)[m][n]>>) > MaxTokens
    BY DEF SplittingFailsFor, HeadingOf, RowsOf
  <2>1. document # None /\ Elements # <<>> /\ ChunksOf(Elements) \in {None, <<>>}
    BY DEF IInv
  <2>2. PICK q \in Seq(WithText) : q = Elements
    BY <2>1, DocumentIsWritten
  <2>3. q # <<>> /\ ChunksOf(q) \in {None, <<>>}
    BY <2>1, <2>2
  <2>4. PICK i \in DOMAIN q : ~Encodes(q[i].text) \/ Narrow(q[i])
    BY <2>3, ChunksAre, NoneIsNoChunks
  <2>5. PICK s \in Text : s = q[i].text
    BY <2>4 DEF WithText, ElementType
  <2>6. CASE Narrow(q[i])
    <3>1. PICK m \in Nat : m = Tokens(HeadingOf(s))
      <4>1. HeadingOf(s) \in Text
        BY HeaderType, TokensOfLines DEF HeadingOf
      <4> QED BY <4>1, TokensType
    <3>2. PICK k \in DOMAIN RowsOf(s) : TooSmall(RowsOf(s)[k], RowBudget(HeadingOf(s)))
      BY <2>5, <2>6 DEF Narrow, Unsplittable
    <3>3. PICK n \in DOMAIN RowsOf(s)[k] : Tokens(<<RowsOf(s)[k][n]>>) > MaxTokens - m
      BY <3>2, <3>1 DEF TooSmall, RowBudget
    <3>4. PICK c \in Char : c = RowsOf(s)[k][n]
      <4>1. RowsOf(s) \in Seq(Text) BY HeaderType
      <4>2. RowsOf(s)[k] \in Text BY <4>1
      <4> QED BY <4>2 DEF Text
    <3>5. m + Tokens(<<c>>) > MaxTokens
      <4>1. Tokens(<<c>>) \in Nat /\ MaxTokens \in Nat
        BY CharacterTokens, TokensType, ChunkAssumption
      <4>2. PICK w \in Nat : w = Tokens(<<c>>)
        BY <4>1
      <4> QED BY <3>1, <3>3, <3>4, <4>1, <4>2
    <3> HIDE DEF Elements
    <3> QED BY <2>2, <2>4, <2>5, <2>6, <3>1, <3>3, <3>4, <3>5 DEF Narrow
  <2> HIDE DEF Elements
  <2> QED BY <2>2, <2>4, <2>6
<1> QED BY <1>1, IInvHolds, PTL

(* What a part of a table says after the header. *)
Body(header, c) == SubSeq(c, Len(header \o <<"/">>) + 1, Len(c))
Bodies(header, cs) == [k \in DOMAIN cs |-> Body(header, cs[k])]

(* What stands under a header is its body. *)
LEMMA HeadedBody ==
  ASSUME NEW header \in Text, NEW t \in Text
  PROVE  Body(header, Headed(header, t)) = t
<1>1. PICK p \in Seq(Char), s \in Seq(Char) : p = header \o <<"/">> /\ s = t
  BY HeadedType DEF Text
<1>2. PICK m \in Nat, n \in Nat : m = Len(p) /\ n = Len(s)
  OBVIOUS
<1>3. PICK c \in Seq(Char) : c = p \o s /\ Len(c) = m + n /\ \A i \in 1..(m + n) : c[i] = IF i <= m THEN p[i] ELSE s[i - m]
  <2>1. /\ p \o s \in Seq(Char) /\ Len(p \o s) = Len(p) + Len(s)
        /\ \A i \in 1..(Len(p) + Len(s)) : (p \o s)[i] = IF i <= Len(p) THEN p[i] ELSE s[i - Len(p)]
    BY ConcatProperties
  <2> QED BY <1>2, <2>1
<1>4. \A i \in (m + 1)..(m + n) : c[i] \in Char
  BY <1>3
<1>5. PICK u : u = SubSeq(c, m + 1, m + n)
  OBVIOUS
<1>6. /\ u \in Seq(Char) /\ Len(u) = IF m + 1 <= m + n THEN (m + n) - (m + 1) + 1 ELSE 0
      /\ \A i \in 1..((m + n) - (m + 1) + 1) : u[i] = c[(m + 1) + i - 1]
  <2>1. m + 1 \in Int /\ m + n \in Int OBVIOUS
  <2> QED BY <1>4, <1>5, <2>1, SubSeqProperties
<1>7. Len(u) = n /\ \A i \in 1..n : u[i] = s[i]
  <2>1. Len(u) = n BY <1>2, <1>6
  <2>2. ASSUME NEW i \in 1..n PROVE u[i] = s[i]
    <3>1. i \in 1..((m + n) - (m + 1) + 1) /\ (m + 1) + i - 1 = m + i /\ m + i \in 1..(m + n) /\ ~(m + i <= m) /\ (m + i) - m = i
      BY <1>2
    <3>2. u[i] = c[m + i] BY <1>6, <3>1
    <3>3. c[m + i] = s[(m + i) - m] BY <1>3, <3>1
    <3> QED BY <3>1, <3>2, <3>3
  <2> QED BY <2>1, <2>2
<1>8. u = s
  BY <1>2, <1>6, <1>7, SeqEqual
<1> QED BY <1>1, <1>2, <1>3, <1>5, <1>8 DEF Body, Headed

(* A text that begins with the header is its body under the header. *)
LEMMA PrefixIsHeading ==
  ASSUME NEW header \in Text, NEW c \in Text, IsPrefix(header \o <<"/">>, c)
  PROVE  Body(header, c) \in Text /\ c = Headed(header, Body(header, c))
<1>1. PICK p \in Seq(Char), s \in Seq(Char) : p = header \o <<"/">> /\ s = c
  BY HeadedType DEF Text
<1>2. PICK m \in Nat, n \in Nat : m = Len(p) /\ n = Len(s)
  OBVIOUS
<1>3. m <= n /\ SubSeq(p, 1, m) = SubSeq(s, 1, m)
  BY <1>1, <1>2 DEF IsPrefix
<1>4. SubSeq(p, 1, m) = p /\ SubSeq(s, 1, n) = s
  BY <1>2, SubSeqFull
<1>5. SubSeq(s, 1, m) \o SubSeq(s, m + 1, n) = SubSeq(s, 1, n)
  <2>1. 1 \in 1..(Len(s) + 1) /\ m \in (1 - 1)..Len(s) /\ n \in m..Len(s) BY <1>2, <1>3
  <2> QED BY <2>1, ConcatAdjacentSubSeq
<1>6. SubSeq(s, m + 1, n) \in Seq(Char)
  <2>1. \A i \in (m + 1)..n : s[i] \in Char BY <1>2
  <2>2. m + 1 \in Int /\ n \in Int OBVIOUS
  <2> QED BY <2>1, <2>2, SubSeqProperties
<1> QED BY <1>1, <1>2, <1>3, <1>4, <1>5, <1>6 DEF Body, Headed, Text

(* What is put under a header begins with it. *)
LEMMA HeadedBegins ==
  ASSUME NEW header \in Text, NEW t \in Text
  PROVE  IsPrefix(header \o <<"/">>, Headed(header, t))
<1>1. PICK p \in Seq(Char), s \in Seq(Char) : p = header \o <<"/">> /\ s = t
  BY HeadedType DEF Text
<1>2. PICK m \in Nat, n \in Nat : m = Len(p) /\ n = Len(s)
  OBVIOUS
<1>3. PICK c \in Seq(Char) : c = p \o s /\ Len(c) = m + n /\ \A i \in 1..(m + n) : c[i] = IF i <= m THEN p[i] ELSE s[i - m]
  <2>1. /\ p \o s \in Seq(Char) /\ Len(p \o s) = Len(p) + Len(s)
        /\ \A i \in 1..(Len(p) + Len(s)) : (p \o s)[i] = IF i <= Len(p) THEN p[i] ELSE s[i - Len(p)]
    BY ConcatProperties
  <2> QED BY <1>2, <2>1
<1>4. PICK u : u = SubSeq(c, 1, m)
  OBVIOUS
<1>5. /\ u \in Seq(Char) /\ Len(u) = IF 1 <= m THEN m - 1 + 1 ELSE 0
      /\ \A i \in 1..(m - 1 + 1) : u[i] = c[1 + i - 1]
  <2>1. 1 \in Int /\ m \in Int OBVIOUS
  <2>2. \A i \in 1..m : c[i] \in Char BY <1>3
  <2> QED BY <1>4, <2>1, <2>2, SubSeqProperties
<1>6. Len(u) = m /\ \A i \in 1..m : u[i] = p[i]
  <2>1. Len(u) = m BY <1>5
  <2>2. ASSUME NEW i \in 1..m PROVE u[i] = p[i]
    <3>1. i \in 1..(m - 1 + 1) /\ 1 + i - 1 = i /\ i \in 1..(m + n) /\ i <= m
      OBVIOUS
    <3>2. u[i] = c[i] BY <1>5, <3>1
    <3>3. c[i] = p[i] BY <1>3, <3>1
    <3> QED BY <3>2, <3>3
  <2> QED BY <2>1, <2>2
<1>7. u = p
  BY <1>2, <1>5, <1>6, SeqEqual
<1>8. SubSeq(p, 1, m) = p
  BY <1>2, SubSeqFull
<1>9. m <= m + n
  OBVIOUS
<1> QED BY <1>1, <1>2, <1>3, <1>4, <1>7, <1>8, <1>9 DEF IsPrefix, Headed

(* The bodies of parts under one header are texts. *)
LEMMA BodiesType ==
  ASSUME NEW header \in Text, NEW cs \in Seq(HeadedChunk(header))
  PROVE  /\ Bodies(header, cs) \in Seq(Text) /\ Len(Bodies(header, cs)) = Len(cs)
         /\ \A k \in 1..Len(cs) : /\ Bodies(header, cs)[k] = Body(header, cs[k])
                                  /\ cs[k] = Headed(header, Body(header, cs[k]))
<1>1. PICK n \in Nat : n = Len(cs) /\ DOMAIN cs = 1..n /\ \A k \in 1..n : cs[k] \in HeadedChunk(header)
  OBVIOUS
<1>2. ASSUME NEW c \in HeadedChunk(header)
      PROVE  Body(header, c) \in Text /\ c = Headed(header, Body(header, c))
  <2>1. PICK t \in Text : c = Headed(header, t) BY DEF HeadedChunk
  <2>2. Body(header, c) = t BY <2>1, HeadedBody
  <2> QED BY <2>1, <2>2
<1>3. PICK b : b = Bodies(header, cs)
  OBVIOUS
<1>4. b = [k \in 1..n |-> Body(header, cs[k])]
  BY <1>1, <1>3 DEF Bodies
<1>5. b \in [1..n -> Text]
  BY <1>1, <1>2, <1>4
<1>6. b \in Seq(Text) /\ Len(b) = n
  BY <1>5
<1> QED BY <1>1, <1>2, <1>3, <1>4, <1>6

(* Parts after others have their bodies after those of the others. *)
LEMMA BodiesConcat ==
  ASSUME NEW header \in Text, NEW p \in Seq(HeadedChunk(header)), NEW q \in Seq(HeadedChunk(header))
  PROVE  /\ p \o q \in Seq(HeadedChunk(header))
         /\ Told(Bodies(header, p \o q)) = Told(Bodies(header, p)) \o Told(Bodies(header, q))
<1> DEFINE A == HeadedChunk(header)
<1> HIDE DEF A
<1>0. p \in Seq(A) /\ q \in Seq(A)
  BY DEF A
<1>1. PICK m \in Nat, n \in Nat : m = Len(p) /\ n = Len(q)
  BY <1>0
<1>2. PICK r \in Seq(A) :
        r = p \o q /\ Len(r) = m + n /\ \A i \in 1..(m + n) : r[i] = IF i <= m THEN p[i] ELSE q[i - m]
  <2>1. /\ p \o q \in Seq(A) /\ Len(p \o q) = Len(p) + Len(q)
        /\ \A i \in 1..(Len(p) + Len(q)) : (p \o q)[i] = IF i <= Len(p) THEN p[i] ELSE q[i - Len(p)]
    BY <1>0, ConcatProperties
  <2> QED BY <1>1, <2>1
<1>3. PICK a \in Seq(Text) : a = Bodies(header, p) /\ Len(a) = m /\ \A k \in 1..m : a[k] = Body(header, p[k])
  BY <1>1, BodiesType
<1>4. PICK b \in Seq(Text) : b = Bodies(header, q) /\ Len(b) = n /\ \A k \in 1..n : b[k] = Body(header, q[k])
  BY <1>1, BodiesType
<1>5. PICK c \in Seq(Text) : c = Bodies(header, r) /\ Len(c) = m + n /\ \A k \in 1..(m + n) : c[k] = Body(header, r[k])
  BY <1>2, BodiesType DEF A
<1>6. PICK d \in Seq(Text) : d = a \o b /\ Len(d) = m + n /\ \A i \in 1..(m + n) : d[i] = IF i <= m THEN a[i] ELSE b[i - m]
  <2>1. /\ a \o b \in Seq(Text) /\ Len(a \o b) = Len(a) + Len(b)
        /\ \A i \in 1..(Len(a) + Len(b)) : (a \o b)[i] = IF i <= Len(a) THEN a[i] ELSE b[i - Len(a)]
    BY ConcatProperties
  <2> QED BY <1>3, <1>4, <2>1
<1>7. ASSUME NEW i \in 1..(m + n) PROVE c[i] = d[i]
  <2>1. CASE i <= m
    <3>1. i \in 1..m BY <2>1
    <3>2. d[i] = a[i] /\ r[i] = p[i] BY <1>2, <1>6, <2>1
    <3> QED BY <1>3, <1>5, <3>1, <3>2
  <2>2. CASE ~(i <= m)
    <3>1. i - m \in 1..n BY <2>2
    <3>2. d[i] = b[i - m] /\ r[i] = q[i - m] BY <1>2, <1>6, <2>2
    <3> QED BY <1>4, <1>5, <3>1, <3>2
  <2> QED BY <2>1, <2>2
<1>8. c = d
  BY <1>5, <1>6, <1>7, SeqEqual
<1>9. Told(d) = Told(a) \o Told(b)
  BY <1>6, ToldConcat
<1>10. Told(Bodies(header, p \o q)) = Told(d)
  BY <1>2, <1>5, <1>8
<1>11. Told(Bodies(header, p)) = Told(a) /\ Told(Bodies(header, q)) = Told(b)
  BY <1>3, <1>4
<1>12. p \o q \in Seq(HeadedChunk(header))
  BY <1>2 DEF A
<1> QED BY <1>9, <1>10, <1>11, <1>12

(* A part under the header adds its body. *)
LEMMA BodiesAppend ==
  ASSUME NEW header \in Text, NEW p \in Seq(HeadedChunk(header)), NEW t \in Text,
         Headed(header, t) \in HeadedChunk(header)
  PROVE  /\ Append(p, Headed(header, t)) \in Seq(HeadedChunk(header))
         /\ Told(Bodies(header, Append(p, Headed(header, t)))) = Told(Bodies(header, p)) \o Letters(t)
<1> DEFINE A == HeadedChunk(header)
           c == Headed(header, t)
<1> HIDE DEF A
<1>1. p \in Seq(A) /\ c \in A /\ <<c>> \in Seq(A)
  BY DEF A
<1>2. Append(p, c) = p \o <<c>> /\ Append(p, c) \in Seq(A)
  <2> HIDE DEF c
  <2> QED BY <1>1, AppendIsConcat, AppendProperties
<1>3. PICK b \in Seq(Text) : b = Bodies(header, <<c>>) /\ Len(b) = 1 /\ b[1] = Body(header, c)
  <2>1. PICK q \in Seq(A) : q = <<c>> /\ Len(q) = 1 /\ q[1] = c
    BY <1>1
  <2>2. 1 \in 1..Len(q) BY <2>1
  <2>3. /\ Bodies(header, q) \in Seq(Text) /\ Len(Bodies(header, q)) = Len(q)
        /\ Bodies(header, q)[1] = Body(header, q[1])
    BY <2>1, <2>2, BodiesType DEF A
  <2> QED BY <2>1, <2>3
<1>4. b = <<t>> /\ Told(b) = Letters(t)
  <2>1. b[1] = t BY <1>3, HeadedBody
  <2>2. b = <<t>>
    <3>1. <<t>> \in Seq(Text) /\ Len(<<t>>) = 1 /\ <<t>>[1] = t OBVIOUS
    <3>2. \A k \in 1..1 : b[k] = <<t>>[k] BY <2>1, <3>1
    <3> QED BY <1>3, <3>1, <3>2, SeqEqual
  <2> QED BY <2>2, OneLineJoined
<1>5. Told(Bodies(header, p \o <<c>>)) = Told(Bodies(header, p)) \o Told(Bodies(header, <<c>>))
  BY <1>1, BodiesConcat DEF A
<1>6. Append(p, c) \in Seq(HeadedChunk(header))
  BY <1>2 DEF A
<1> QED BY <1>2, <1>3, <1>4, <1>5, <1>6

(* Row parts without an exception are chunks under the header. *)
LEMMA NotRaisedRows ==
  ASSUME NEW header \in Text, NEW parts \in Seq(RowPart(header)), ~Raised(parts)
  PROVE  parts \in Seq(HeadedChunk(header))
<1>1. PICK n \in Nat : n = Len(parts) /\ parts \in [1..n -> RowPart(header)]
  OBVIOUS
<1>2. \A k \in 1..n : parts[k] \in RowPart(header) /\ parts[k] # None
  BY <1>1 DEF Raised
<1>3. \A k \in 1..n : parts[k] \in HeadedChunk(header)
  BY <1>2 DEF RowPart
<1>4. parts \in [1..n -> HeadedChunk(header)]
  BY <1>1, <1>3
<1> QED BY <1>4

(* What does not raise has no part that raises. *)
LEMMA RaisedParts ==
  ASSUME NEW A, NEW s \in Seq(A), NEW t \in Seq(A), ~Raised(s \o t)
  PROVE  ~Raised(s) /\ ~Raised(t)
<1>1. PICK m \in Nat, n \in Nat : m = Len(s) /\ n = Len(t) /\ DOMAIN s = 1..m /\ DOMAIN t = 1..n
  OBVIOUS
<1>2. /\ s \o t \in Seq(A) /\ Len(s \o t) = m + n
      /\ \A i \in 1..(m + n) : (s \o t)[i] = IF i <= m THEN s[i] ELSE t[i - m]
  <2>1. /\ s \o t \in Seq(A) /\ Len(s \o t) = Len(s) + Len(t)
        /\ \A i \in 1..(Len(s) + Len(t)) : (s \o t)[i] = IF i <= Len(s) THEN s[i] ELSE t[i - Len(s)]
    BY ConcatProperties
  <2> QED BY <1>1, <2>1
<1>3. \A i \in 1..(m + n) : (s \o t)[i] # None
  BY <1>2 DEF Raised
<1>4. ASSUME NEW k \in 1..m PROVE s[k] # None
  <2>1. k \in 1..(m + n) /\ k <= m OBVIOUS
  <2> QED BY <1>2, <1>3, <2>1
<1>5. ASSUME NEW k \in 1..n PROVE t[k] # None
  <2>1. m + k \in 1..(m + n) /\ ~(m + k <= m) /\ (m + k) - m = k OBVIOUS
  <2>2. (s \o t)[m + k] = t[(m + k) - m] BY <1>2, <2>1
  <2> QED BY <1>3, <2>1, <2>2
<1> QED BY <1>1, <1>4, <1>5 DEF Raised

(* The chunk of the collected rows tells them after the others. *)
LEMMA FlushedTold ==
  ASSUME NEW header \in Text, NEW acc \in RowState(header), ~Raised(acc.chunks)
  PROVE  /\ acc.chunks \in Seq(HeadedChunk(header)) /\ acc.rows \in Seq(Text)
         /\ Flushed(header, acc) \in Seq(HeadedChunk(header))
         /\ Told(Bodies(header, Flushed(header, acc))) = Told(Bodies(header, acc.chunks)) \o Told(acc.rows)
<1>1. /\ acc.chunks \in Seq(RowPart(header)) /\ acc.rows \in Seq(Text)
      /\ acc.rows # <<>> => Fits(Joined(<<header>> \o acc.rows))
  BY DEF RowState
<1>2. PICK cs \in Seq(HeadedChunk(header)), rows \in Seq(Text) : cs = acc.chunks /\ rows = acc.rows
  BY <1>1, NotRaisedRows
<1>3. CASE rows = <<>>
  <2>1. Flushed(header, acc) = cs BY <1>2, <1>3 DEF Flushed
  <2>2. Told(Bodies(header, cs)) \in Seq(Char)
    BY BodiesType, ToldType DEF Text
  <2>3. Told(Bodies(header, cs)) \o <<>> = Told(Bodies(header, cs))
    BY <2>2, ConcatEmptySeq
  <2> QED BY <1>2, <1>3, <2>1, <2>3, ToldNothing
<1>4. CASE rows # <<>>
  <2>1. PICK t \in Text : t = Joined(rows) /\ Letters(t) = Told(rows)
    BY JoinedType, LettersOfJoined
  <2>2. Joined(<<header>> \o rows) = Headed(header, t)
    BY <1>4, <2>1, JoinedUnder
  <2>3. Headed(header, t) \in HeadedChunk(header)
    <3>1. Fits(Headed(header, t)) BY <1>1, <1>2, <1>4, <2>2
    <3>2. Headed(header, t) \in Text /\ Headed(header, t) # <<>> BY HeadedType
    <3> QED BY <3>1, <3>2 DEF HeadedChunk
  <2>4. Flushed(header, acc) = Append(cs, Headed(header, t))
    BY <1>2, <1>4, <2>2 DEF Flushed
  <2>5. /\ Append(cs, Headed(header, t)) \in Seq(HeadedChunk(header))
        /\ Told(Bodies(header, Append(cs, Headed(header, t)))) = Told(Bodies(header, cs)) \o Letters(t)
    BY <2>3, BodiesAppend
  <2> QED BY <1>2, <2>1, <2>4, <2>5
<1> QED BY <1>3, <1>4

(* The pieces of a row tell the same under the header. *)
LEMMA RowPartsTold ==
  ASSUME NEW header \in Text, NEW pieces \in Seq(Piece(RowBudget(header \o <<"/">>))),
         ~Raised(RowParts(header, pieces))
  PROVE  /\ RowParts(header, pieces) \in Seq(HeadedChunk(header)) /\ ~Raised(pieces)
         /\ Told(Bodies(header, RowParts(header, pieces))) = Told(pieces)
<1>1. /\ RowParts(header, pieces) \in Seq(RowPart(header)) /\ ~Raised(pieces)
      /\ Len(RowParts(header, pieces)) = Len(pieces)
  BY RowPartsType
<1>2. PICK ps \in Seq(Text) : ps = pieces
  <2>1. RowBudget(header \o <<"/">>) \in Int BY NoLetters, HeadedType
  <2> QED BY <1>1, <2>1, NotRaised
<1>3. PICK n \in Nat : n = Len(ps) /\ DOMAIN ps = 1..n /\ \A k \in 1..n : ps[k] \in Text
  OBVIOUS
<1>4. PICK cs \in Seq(HeadedChunk(header)) : cs = RowParts(header, pieces) /\ Len(cs) = n
  BY <1>1, <1>2, <1>3, NotRaisedRows
<1>5. PICK b \in Seq(Text) : b = Bodies(header, cs) /\ Len(b) = n /\ \A k \in 1..n : b[k] = Body(header, cs[k])
  BY <1>4, BodiesType
<1>6. ASSUME NEW k \in 1..n PROVE b[k] = ps[k]
  <2>1. ps[k] # None BY <1>1, <1>2, <1>3 DEF Raised
  <2>2. cs[k] = PartOf(header, ps[k]) BY <1>2, <1>3, <1>4 DEF RowParts
  <2>3. cs[k] = Headed(header, ps[k]) BY <2>1, <2>2 DEF PartOf, Headed
  <2>4. Body(header, Headed(header, ps[k])) = ps[k] BY <1>3, HeadedBody
  <2> QED BY <1>5, <2>3, <2>4
<1>7. b = ps
  BY <1>3, <1>5, <1>6, SeqEqual
<1> QED BY <1>1, <1>2, <1>4, <1>5, <1>7

(* What the chunks of a table and the rows collected so far tell. *)
RowsTold(header, acc) == Told(Bodies(header, acc.chunks)) \o Told(acc.rows)

(* A row is told after the rows before it. *)
LEMMA AddRowTold ==
  ASSUME NEW header \in Text, NEW acc \in RowState(header), NEW row \in Text,
         ~Raised(AddRow(header, acc, row).chunks)
  PROVE  /\ ~Raised(acc.chunks)
         /\ RowsTold(header, AddRow(header, acc, row)) = RowsTold(header, acc) \o Letters(row)
<1>1. PICK next \in RowState(header) : next = AddRow(header, acc, row)
  BY AddRowType
<1>2. PICK prefix : prefix = header \o <<"/">>
  OBVIOUS
<1>3. PICK pieces \in Seq(Piece(RowBudget(header \o <<"/">>))) :
        /\ pieces = Pieces(row, RowBudget(prefix))
        /\ ~Raised(pieces) => FlattenSeq(pieces) = row
  <2>1. RowBudget(header \o <<"/">>) \in Int BY HeadedType
  <2> QED BY <1>2, <2>1, PiecesAre
<1>4. PICK parts \in Seq(RowPart(header)) : parts = RowParts(header, pieces)
  BY RowPartsType
<1>5. PICK flushed \in Seq(RowPart(header)) :
        flushed = Flushed(header, acc) /\ (Raised(flushed) <=> Raised(acc.chunks))
  BY FlushedType
<1>6. \/ next.rows = <<>> /\ next.chunks = flushed \o parts
      \/ next.rows = <<row>> /\ next.chunks = flushed
      \/ next.rows = Append(acc.rows, row) /\ next.chunks = acc.chunks
  <2>1. \/ next.rows = <<>> /\ next.chunks = Flushed(header, acc) \o RowParts(header, Pieces(row, RowBudget(prefix)))
        \/ next.rows = <<row>> /\ next.chunks = Flushed(header, acc)
        \/ next.rows = Append(acc.rows, row) /\ next.chunks = acc.chunks
    BY <1>1, <1>2, AddRowIs
  <2> QED BY <1>3, <1>4, <1>5, <2>1
<1>7. ~Raised(next.chunks)
  BY <1>1
<1>8. ~Raised(acc.chunks)
  <2>1. CASE next.chunks = flushed \o parts
    <3>1. ~Raised(flushed) BY <1>7, <2>1, RaisedParts
    <3> QED BY <1>5, <3>1
  <2> QED BY <1>5, <1>6, <1>7, <2>1
<1>9. PICK cs \in Seq(HeadedChunk(header)), rows \in Seq(Text) :
        /\ cs = acc.chunks /\ rows = acc.rows /\ flushed \in Seq(HeadedChunk(header))
        /\ Told(Bodies(header, flushed)) = Told(Bodies(header, cs)) \o Told(rows)
  BY <1>5, <1>8, FlushedTold
<1>10. PICK a \in Text, b \in Text, c \in Text : a = Told(Bodies(header, cs)) /\ b = Told(rows) /\ c = Letters(row)
  BY BodiesType, ToldType, LettersType
<1>11. RowsTold(header, acc) = a \o b /\ Told(Bodies(header, flushed)) = a \o b
  BY <1>9, <1>10 DEF RowsTold
<1>12. (a \o b) \o c \in Seq(Char) /\ a \o b \in Seq(Char) /\ (a \o b) \o c = a \o (b \o c)
  <2>1. a \in Seq(Char) /\ b \in Seq(Char) /\ c \in Seq(Char) BY DEF Text
  <2>2. a \o b \in Seq(Char) BY <2>1, ConcatProperties
  <2>3. (a \o b) \o c \in Seq(Char) BY <2>1, <2>2, ConcatProperties
  <2>4. Associate(a, b, c) BY TextsAssociate
  <2>5. (a \o b) \o c = a \o (b \o c) BY <2>4 DEF Associate
  <2> QED BY <2>2, <2>3, <2>5
<1>13. RowsTold(header, next) = (a \o b) \o c
  <2>1. CASE next.rows = <<>> /\ next.chunks = flushed \o parts
    <3>1. ~Raised(parts) BY <1>7, <2>1, RaisedParts
    <3>2. /\ parts \in Seq(HeadedChunk(header)) /\ ~Raised(pieces)
          /\ Told(Bodies(header, parts)) = Told(pieces)
      BY <1>4, <3>1, RowPartsTold
    <3>3. pieces \in Seq(Text)
      <4>1. RowBudget(header \o <<"/">>) \in Int BY HeadedType
      <4> QED BY <3>2, <4>1, NotRaised
    <3>4. Told(pieces) = c
      <4>1. Letters(FlattenSeq(pieces)) = Told(pieces) BY <3>3, LettersOfFlat
      <4> QED BY <1>3, <1>10, <3>2, <4>1
    <3>5. Told(Bodies(header, flushed \o parts)) = Told(Bodies(header, flushed)) \o Told(Bodies(header, parts))
      BY <1>9, <3>2, BodiesConcat
    <3>6. Told(Bodies(header, flushed \o parts)) = (a \o b) \o c
      BY <1>11, <3>2, <3>4, <3>5
    <3>7. RowsTold(header, next) = Told(Bodies(header, flushed \o parts)) \o Told(<<>>)
      BY <2>1 DEF RowsTold
    <3>8. ((a \o b) \o c) \o <<>> = (a \o b) \o c
      BY <1>12, ConcatEmptySeq
    <3> QED BY <3>6, <3>7, <3>8, ToldNothing
  <2>2. CASE next.rows = <<row>> /\ next.chunks = flushed
    <3>1. RowsTold(header, next) = Told(Bodies(header, flushed)) \o Told(<<row>>)
      BY <2>2 DEF RowsTold
    <3>2. Told(<<row>>) = c BY <1>10, OneLineJoined
    <3> QED BY <1>11, <3>1, <3>2
  <2>3. CASE next.rows = Append(acc.rows, row) /\ next.chunks = acc.chunks
    <3>1. RowsTold(header, next) = Told(Bodies(header, cs)) \o Told(Append(rows, row))
      BY <1>9, <2>3 DEF RowsTold
    <3>2. Told(Append(rows, row)) = b \o c BY <1>10, ToldAppend
    <3> QED BY <1>10, <1>12, <3>1, <3>2
  <2> QED BY <1>6, <2>1, <2>2, <2>3
<1> QED BY <1>1, <1>8, <1>10, <1>11, <1>13

(* One element more at the end of a beginning. *)
LEMMA BeginningNext ==
  ASSUME NEW A, NEW s \in Seq(A), NEW n \in 1..Len(s)
  PROVE  /\ SubSeq(s, 1, n - 1) \in Seq(A) /\ s[n] \in A
         /\ SubSeq(s, 1, n) = Append(SubSeq(s, 1, n - 1), s[n])
<1>1. PICK m \in Nat : m = Len(s) /\ n \in 1..m
  OBVIOUS
<1>2. \A i \in 1..(n - 1) : s[i] \in A
  BY <1>1
<1>3. SubSeq(s, 1, n - 1) \in Seq(A)
  <2>1. 1 \in Int /\ n - 1 \in Int BY <1>1
  <2> QED BY <1>2, <2>1, SubSeqProperties
<1>4. SubSeq(s, 1, n) = SubSeq(s, 1, n - 1) \o <<s[n]>>
  <2>1. 1 \in 1..Len(s) /\ n \in 1..Len(s) BY <1>1
  <2> QED BY <2>1, SubSeqRecursiveSecond
<1>5. s[n] \in A
  OBVIOUS
<1>6. Append(SubSeq(s, 1, n - 1), s[n]) = SubSeq(s, 1, n - 1) \o <<s[n]>>
  BY <1>3, <1>5, AppendIsConcat
<1> QED BY <1>3, <1>4, <1>5, <1>6

(* A beginning of no elements, and one of all. *)
LEMMA Beginnings ==
  ASSUME NEW A, NEW s \in Seq(A)
  PROVE  SubSeq(s, 1, 0) = <<>> /\ SubSeq(s, 1, Len(s)) = s
<1>1. SubSeq(s, 1, 0) = <<>>
  BY SubSeqEmpty
<1> QED BY <1>1, SubSeqFull

(* The chunks of a table tell its rows. *)
LEMMA RowChunksTold ==
  ASSUME NEW s \in Text, ~Raised(RowChunks(s))
  PROVE  /\ RowChunks(s) \in Seq(HeadedChunk(HeaderOf(s)))
         /\ Told(Bodies(HeaderOf(s), RowChunks(s))) = Told(RowsOf(s))
<1>1. PICK header \in Text, rows \in Seq(Text) : header = HeaderOf(s) /\ rows = RowsOf(s)
  BY HeaderType
<1>0. PICK u : u = RowsRead(header, rows)
  OBVIOUS
<1>2. PICK N \in Nat : N = Len(rows)
  OBVIOUS
<1>3. /\ u[0] = RowsStart
      /\ \A n \in 1..N : u[n] = AddRow(header, u[n - 1], rows[n])
      /\ \A n \in 0..N : u[n] \in RowState(header)
  BY <1>0, <1>2, RowsReadRuns
<1>4. \A n \in 1..N : rows[n] \in Text
  BY <1>2
<1> DEFINE T == {n \in 0..N : ~Raised(u[n].chunks) => RowsTold(header, u[n]) = Told(SubSeq(rows, 1, n))}
<1>5. 0 \in T
  <2>1. u[0].chunks = <<>> /\ u[0].rows = <<>>
    BY <1>3 DEF RowsStart
  <2>2. Bodies(header, <<>>) = <<>>
    <3>1. <<>> \in Seq(HeadedChunk(header)) /\ Len(<<>>) = 0 OBVIOUS
    <3>2. Bodies(header, <<>>) \in Seq(Text) /\ Len(Bodies(header, <<>>)) = 0 BY <3>1, BodiesType
    <3> QED BY <3>2
  <2>3. <<>> \o <<>> = <<>> OBVIOUS
  <2>4. RowsTold(header, u[0]) = <<>> BY <2>1, <2>2, <2>3, ToldNothing DEF RowsTold
  <2>5. SubSeq(rows, 1, 0) = <<>> BY Beginnings
  <2>6. 0 \in 0..N OBVIOUS
  <2> QED BY <2>4, <2>5, <2>6, ToldNothing
<1>6. ASSUME NEW n \in 0..(N - 1), n \in T PROVE n + 1 \in T
  <2>1. n + 1 \in 1..N /\ (n + 1) - 1 = n /\ n + 1 \in 0..N /\ n \in 0..N
    OBVIOUS
  <2>2. PICK acc \in RowState(header), row \in Text :
          acc = u[n] /\ row = rows[n + 1] /\ u[n + 1] = AddRow(header, acc, row)
    BY <1>3, <1>4, <2>1
  <2>3. SubSeq(rows, 1, n) \in Seq(Text) /\ SubSeq(rows, 1, n + 1) = Append(SubSeq(rows, 1, n), row)
    <3>1. n + 1 \in 1..Len(rows) BY <1>0, <1>2, <2>1
    <3>2. /\ SubSeq(rows, 1, (n + 1) - 1) \in Seq(Text)
          /\ SubSeq(rows, 1, n + 1) = Append(SubSeq(rows, 1, (n + 1) - 1), rows[n + 1])
      BY <3>1, BeginningNext
    <3> QED BY <2>1, <2>2, <3>2
  <2>4. Told(SubSeq(rows, 1, n + 1)) = Told(SubSeq(rows, 1, n)) \o Letters(row)
    BY <2>3, ToldAppend
  <2>5. ASSUME ~Raised(u[n + 1].chunks) PROVE RowsTold(header, u[n + 1]) = Told(SubSeq(rows, 1, n + 1))
    <3>1. /\ ~Raised(acc.chunks)
          /\ RowsTold(header, u[n + 1]) = RowsTold(header, acc) \o Letters(row)
      BY <2>2, <2>5, AddRowTold
    <3>2. RowsTold(header, acc) = Told(SubSeq(rows, 1, n)) BY <1>6, <2>2, <3>1
    <3> QED BY <2>4, <3>1, <3>2
  <2> QED BY <2>1, <2>5
<1>7. N \in T
  <2>1. \A n \in 0..N : n \in T
    <3> HIDE DEF T
    <3> QED BY <1>5, <1>6, SetInduction
  <2>2. N \in 0..N OBVIOUS
  <2> QED BY <2>1, <2>2
<1>8. PICK acc \in RowState(header) : acc = u[N] /\ RowChunks(s) = Flushed(header, acc)
  <2>1. N \in 0..N OBVIOUS
  <2> QED BY <1>1, <1>0, <1>2, <1>3, <2>1 DEF RowChunks
<1>9. ~Raised(acc.chunks)
  BY <1>8, FlushedType
<1>10. /\ Flushed(header, acc) \in Seq(HeadedChunk(header))
       /\ Told(Bodies(header, Flushed(header, acc))) = RowsTold(header, acc)
  BY <1>9, FlushedTold DEF RowsTold
<1>11. RowsTold(header, acc) = Told(SubSeq(rows, 1, N))
  BY <1>7, <1>8, <1>9
<1>12. SubSeq(rows, 1, N) = rows
  BY <1>0, <1>2, Beginnings
<1> QED BY <1>1, <1>8, <1>10, <1>11, <1>12

(* A table tells its header and its rows. *)
LEMMA TableTold ==
  ASSUME NEW s \in Text
  PROVE  Letters(s) = Letters(HeaderOf(s)) \o Told(RowsOf(s))
<1>1. PICK lines \in Seq(Text) : lines = Lines(s) /\ (s = Joined(lines) \/ s = Joined(lines) \o <<"/">>)
  BY LinesAre
<1>2. PICK N \in Nat, h \in Nat : N = Len(lines) /\ h = Smaller(2, N) /\ h <= N /\ (h = 2 \/ h = N)
  <2>1. PICK N \in Nat : N = Len(lines) OBVIOUS
  <2>2. Smaller(2, N) \in Nat /\ Smaller(2, N) <= N /\ (Smaller(2, N) = 2 \/ Smaller(2, N) = N)
    BY DEF Smaller
  <2> QED BY <2>1, <2>2
<1>3. PICK first \in Seq(Text), rest \in Seq(Text) :
        first = SubSeq(lines, 1, h) /\ rest = SubSeq(lines, 3, N)
  <2>1. SubSeq(lines, 1, Smaller(2, Len(lines))) \in Seq(Text) /\ SubSeq(lines, 2 + 1, Len(lines)) \in Seq(Text)
    BY FirstLines
  <2>2. 2 + 1 = 3 OBVIOUS
  <2> QED BY <1>2, <2>1, <2>2
<1>4. lines = first \o rest
  <2>1. SubSeq(lines, 1, N) = lines BY <1>2, SubSeqFull
  <2>2. CASE h = 2
    <3>1. 1 \in 1..(Len(lines) + 1) /\ 2 \in (1 - 1)..Len(lines) /\ N \in 2..Len(lines)
      BY <1>2, <2>2
    <3>2. SubSeq(lines, 1, 2) \o SubSeq(lines, 2 + 1, N) = SubSeq(lines, 1, N)
      BY <3>1, ConcatAdjacentSubSeq
    <3>3. 2 + 1 = 3 OBVIOUS
    <3> QED BY <1>3, <2>1, <2>2, <3>2, <3>3
  <2>3. CASE h # 2
    <3>1. h = N /\ N < 3 BY <1>2, <2>3 DEF Smaller
    <3>2. rest = <<>>
      <4>1. 3 \in Int /\ N \in Int OBVIOUS
      <4> QED BY <1>3, <3>1, <4>1, SubSeqEmpty
    <3>3. first \o <<>> = first BY ConcatEmptySeq
    <3> QED BY <1>3, <2>1, <3>1, <3>2, <3>3
  <2> QED BY <2>2, <2>3
<1>5. HeaderOf(s) = Joined(first) /\ RowsOf(s) = rest
  BY <1>1, <1>2, <1>3 DEF HeaderOf, RowsOf
<1>6. Told(lines) = Told(first) \o Told(rest)
  BY <1>4, ToldConcat
<1>7. Letters(HeaderOf(s)) = Told(first)
  BY <1>5, LettersOfJoined
<1>8. Letters(s) = Told(lines)
  <2>1. PICK t \in Text : t = Joined(lines) /\ Letters(t) = Told(lines)
    BY JoinedType, LettersOfJoined
  <2>2. Letters(t \o <<"/">>) = Letters(t)
    <3>1. Letters(t \o <<"/">>) = Letters(t) \o <<>> BY LineFeed, LettersConcat, NoLetters
    <3> QED BY <3>1, LettersType, ConcatEmptySeq DEF Text
  <2> QED BY <1>1, <2>1, <2>2
<1> QED BY <1>5, <1>6, <1>7, <1>8

(* If the header leaves room, a row leaves a chunk or a row. *)
LEMMA AddRowKeeps ==
  ASSUME NEW header \in Text, NEW acc \in RowState(header), NEW row \in Text,
         Fits(header \o <<"/">>)
  PROVE  AddRow(header, acc, row).chunks # <<>> \/ AddRow(header, acc, row).rows # <<>>
<1>0. PICK prefix : prefix = header \o <<"/">>
  OBVIOUS
<1>1. PICK next \in RowState(header) : next = AddRow(header, acc, row)
  BY AddRowType
<1>2. acc.rows \in Seq(Text)
  BY DEF RowState
<1>3. \/ /\ ~Fits(prefix \o row)
         /\ next.chunks = Flushed(header, acc) \o RowParts(header, Pieces(row, RowBudget(prefix)))
      \/ next.rows = <<row>>
      \/ next.rows = Append(acc.rows, row)
  BY <1>0, <1>1, AddRowIs
<1>4. CASE /\ ~Fits(prefix \o row)
           /\ next.chunks = Flushed(header, acc) \o RowParts(header, Pieces(row, RowBudget(prefix)))
  <2>1. row # <<>>
    <3>1. prefix \in Seq(Char) BY <1>0, <1>1, HeadedType DEF Text
    <3>2. prefix \o <<>> = prefix BY <3>1, ConcatEmptySeq
    <3> QED BY <1>0, <1>1, <1>4, <3>2
  <2>2. PICK pieces \in Seq(Piece(RowBudget(header \o <<"/">>))) :
          pieces = Pieces(row, RowBudget(prefix)) /\ pieces # <<>>
    <3>1. RowBudget(header \o <<"/">>) \in Int BY HeadedType
    <3> QED BY <1>0, <1>1, <2>1, <3>1, PiecesAre
  <2>3. PICK parts \in Seq(RowPart(header)) : parts = RowParts(header, pieces) /\ parts # <<>>
    <3>1. RowParts(header, pieces) \in Seq(RowPart(header)) /\ Len(RowParts(header, pieces)) = Len(pieces)
      BY RowPartsType
    <3>2. Len(pieces) # 0 BY <2>2
    <3>3. Len(<<>>) = 0 OBVIOUS
    <3>4. RowParts(header, pieces) # <<>> BY <3>1, <3>2, <3>3
    <3> QED BY <3>1, <3>4
  <2>4. PICK flushed \in Seq(RowPart(header)) : flushed = Flushed(header, acc)
    BY FlushedType
  <2>5. flushed \o parts # <<>>
    BY <2>3, ConcatEqualIffEmpty
  <2> QED BY <1>0, <1>1, <1>4, <2>2, <2>3, <2>4, <2>5
<1>5. CASE next.rows = <<row>>
  BY <1>0, <1>1, <1>5, OneLineJoined
<1>6. CASE next.rows = Append(acc.rows, row)
  <2>1. Append(acc.rows, row) # <<>> BY <1>2, AppendProperties
  <2> QED BY <1>0, <1>1, <1>6, <2>1
<1> QED BY <1>3, <1>4, <1>5, <1>6

(* If a table with rows has no chunks, the header alone is too long. *)
LEMMA NoRowChunks ==
  ASSUME NEW s \in Text, RowsOf(s) # <<>>, RowChunks(s) = <<>>
  PROVE  ~Fits(HeadingOf(s))
<1> SUFFICES ASSUME Fits(HeadingOf(s)) PROVE FALSE
  OBVIOUS
<1>1. PICK header \in Text, rows \in Seq(Text) :
        header = HeaderOf(s) /\ rows = RowsOf(s) /\ Fits(header \o <<"/">>)
  BY HeaderType DEF HeadingOf
<1>2. PICK n \in Nat \ {0} : n = Len(rows)
  BY <1>1
<1>3. n \in 1..Len(rows) /\ n - 1 \in 0..Len(rows) /\ n \in 0..Len(rows) /\ rows[n] \in Text
  BY <1>2
<1>4. PICK acc \in RowState(header), last \in RowState(header) :
        /\ acc = RowsRead(header, rows)[n - 1] /\ last = RowsRead(header, rows)[n]
        /\ last = AddRow(header, acc, rows[n])
  BY <1>3, RowsReadRuns
<1>5. last.chunks # <<>> \/ last.rows # <<>>
  BY <1>1, <1>3, <1>4, AddRowKeeps
<1>6. Flushed(header, last) # <<>>
  BY <1>5, FlushedType
<1>7. RowChunks(s) = Flushed(header, last)
  BY <1>1, <1>2, <1>4 DEF RowChunks
<1> QED BY <1>6, <1>7

(* So it is in a table without rows that is over the budget. *)
LEMMA NoRows ==
  ASSUME NEW s \in Text, RowsOf(s) = <<>>, ~Fits(s)
  PROVE  ~Fits(HeadingOf(s))
<1>1. PICK lines \in Seq(Text) : lines = Lines(s) /\ (s = Joined(lines) \/ s = Joined(lines) \o <<"/">>)
  BY LinesAre
<1>2. PICK N \in Nat : N = Len(lines)
  OBVIOUS
<1>3. N < 3
  <2>1. \A i \in 3..N : lines[i] \in Text BY <1>2
  <2>2. 3 \in Int /\ N \in Int OBVIOUS
  <2>0. PICK u : u = SubSeq(lines, 3, N) OBVIOUS
  <2>3. Len(u) = IF 3 <= N THEN N - 3 + 1 ELSE 0
    BY <2>0, <2>1, <2>2, SubSeqProperties
  <2>4. u = <<>> BY <1>1, <1>2, <2>0 DEF RowsOf
  <2>5. Len(u) = 0 BY <2>4
  <2>6. 3 <= N => N - 3 + 1 # 0 OBVIOUS
  <2> QED BY <2>3, <2>5, <2>6
<1>4. HeaderOf(s) = Joined(lines)
  <2>1. Smaller(2, N) = N BY <1>3 DEF Smaller
  <2>2. SubSeq(lines, 1, N) = lines BY <1>2, SubSeqFull
  <2> QED BY <1>1, <1>2, <2>1, <2>2 DEF HeaderOf
<1>5. PICK header \in Text : header = HeaderOf(s)
  BY HeaderType
<1>6. Tokens(header \o <<"/">>) = Tokens(header) + 1 /\ Tokens(header) \in Nat
  BY LineFeed, TokensOfLines, TokensType
<1>7. Tokens(s) > MaxTokens
  <2>1. Tokens(s) \in Nat /\ MaxTokens \in Nat BY TokensType, ChunkAssumption
  <2> QED BY <2>1 DEF Fits
<1>8. Tokens(header \o <<"/">>) > MaxTokens
  <2>1. PICK a \in Nat, b \in Nat : a = Tokens(header) /\ b = MaxTokens BY <1>6, ChunkAssumption
  <2>2. a > b \/ a + 1 > b BY <1>1, <1>4, <1>5, <1>6, <1>7, <2>1
  <2> QED BY <1>6, <2>1, <2>2
<1>9. ~(Tokens(header \o <<"/">>) <= MaxTokens)
  <2>1. PICK a \in Nat, b \in Nat : a = Tokens(header \o <<"/">>) /\ b = MaxTokens BY <1>6, ChunkAssumption
  <2> QED BY <1>8, <2>1
<1> QED BY <1>5, <1>9 DEF Fits, HeadingOf

(* No piece within the budget begins with a header that is over it. *)
LEMMA NoneBegins ==
  ASSUME NEW s \in Text, ~Fits(HeadingOf(s)), NEW c \in Within(MaxTokens)
  PROVE  ~IsPrefix(HeadingOf(s), c)
<1> SUFFICES ASSUME IsPrefix(HeadingOf(s), c) PROVE FALSE
  OBVIOUS
<1>1. PICK header \in Text : header = HeaderOf(s) /\ ~Fits(header \o <<"/">>) /\ IsPrefix(header \o <<"/">>, c)
  BY HeaderType DEF HeadingOf
<1>2. c \in Text /\ Tokens(c) <= MaxTokens
  BY DEF Within
<1>3. PICK t \in Text : c = Headed(header, t)
  BY <1>1, <1>2, PrefixIsHeading
<1>4. PICK a \in Nat, b \in Nat : a = Tokens(header \o <<"/">>) /\ b = Tokens(t) /\ Tokens(c) = a + b
  BY <1>3, HeadedType
<1>5. a <= MaxTokens
  <2>1. MaxTokens \in Nat BY ChunkAssumption
  <2> QED BY <1>2, <1>4, <2>1
<1> QED BY <1>1, <1>4, <1>5 DEF Fits

(* What a part adds to those before it: the parts of a table after the     *)
(* first repeat its header.                                                *)
Rest(e, j, part) ==
  IF e.type = "table" /\ j > 1 /\ IsPrefix(HeadingOf(e.text), part)
  THEN Body(HeaderOf(e.text), part) ELSE part
Rests(e, parts) == [j \in DOMAIN parts |-> Rest(e, j, parts[j])]

(* What the parts add are texts. *)
LEMMA RestsType ==
  ASSUME NEW e \in ElementType, NEW parts \in Seq(Within(MaxTokens))
  PROVE  /\ Rests(e, parts) \in Seq(Text) /\ Len(Rests(e, parts)) = Len(parts)
         /\ \A j \in 1..Len(parts) : Rests(e, parts)[j] = Rest(e, j, parts[j])
<1>1. PICK n \in Nat : n = Len(parts) /\ DOMAIN parts = 1..n /\ \A j \in 1..n : parts[j] \in Text
  BY DEF Within
<1>2. e.text \in Text
  BY DEF ElementType
<1>3. ASSUME NEW j \in 1..n PROVE Rest(e, j, parts[j]) \in Text
  <2>1. PICK header \in Text : header = HeaderOf(e.text) /\ HeadingOf(e.text) = header \o <<"/">>
    BY <1>2, HeaderType DEF HeadingOf
  <2>2. IsPrefix(header \o <<"/">>, parts[j]) => Body(header, parts[j]) \in Text
    BY <1>1, PrefixIsHeading
  <2> QED BY <1>1, <2>1, <2>2 DEF Rest
<1>4. PICK r : r = Rests(e, parts)
  OBVIOUS
<1>5. r = [j \in 1..n |-> Rest(e, j, parts[j])]
  BY <1>1, <1>4 DEF Rests
<1>6. r \in [1..n -> Text]
  BY <1>3, <1>5
<1>7. r \in Seq(Text) /\ Len(r) = n
  BY <1>6
<1> QED BY <1>1, <1>4, <1>5, <1>7

(* Pieces that are told as they are. *)
LEMMA PiecesTold ==
  ASSUME NEW e \in ElementType, NEW parts \in Seq(Within(MaxTokens)), FlattenSeq(parts) = e.text,
         \A j \in 1..Len(parts) : Rest(e, j, parts[j]) = parts[j]
  PROVE  Told(Rests(e, parts)) = Letters(e.text)
<1>1. PICK ps \in Seq(Text) : ps = parts
  <2>1. Within(MaxTokens) \subseteq Text BY DEF Within
  <2> QED BY <2>1, SeqMonotonic
<1>2. PICK r \in Seq(Text) : r = Rests(e, parts) /\ Len(r) = Len(ps) /\ \A j \in 1..Len(ps) : r[j] = ps[j]
  BY <1>1, RestsType
<1>3. r = ps
  BY <1>2, SeqEqual
<1>4. Letters(FlattenSeq(ps)) = Told(ps)
  BY LettersOfFlat
<1> QED BY <1>1, <1>2, <1>3, <1>4

(* Texts that differ in that the first has more letters at its beginning. *)
LEMMA ToldBefore ==
  ASSUME NEW r \in Seq(Text), NEW b \in Seq(Text), NEW n \in Nat \ {0}, Len(r) = n, Len(b) = n,
         \A j \in 2..n : r[j] = b[j], NEW x \in Text, Letters(r[1]) = x \o Letters(b[1])
  PROVE  Told(r) = x \o Told(b)
<1>1. 1 \in 1..n /\ n \in 1..n /\ n \in 1..Len(r) /\ n \in 1..Len(b) /\ 1 \in 1..Len(r) /\ 1 \in 1..Len(b) /\ 1 + 1 = 2
  OBVIOUS
<1>2. r[1] \in Text /\ b[1] \in Text
  BY <1>1
<1>3. r = <<r[1]>> \o SubSeq(r, 2, n)
  <2>1. SubSeq(r, 1, n) = <<r[1]>> \o SubSeq(r, 1 + 1, n) BY <1>1, SubSeqRecursiveFirst
  <2> QED BY <1>1, <2>1, SubSeqFull
<1>4. b = <<b[1]>> \o SubSeq(b, 2, n)
  <2>1. SubSeq(b, 1, n) = <<b[1]>> \o SubSeq(b, 1 + 1, n) BY <1>1, SubSeqRecursiveFirst
  <2> QED BY <1>1, <2>1, SubSeqFull
<1>5. PICK p, q : p = SubSeq(r, 2, n) /\ q = SubSeq(b, 2, n)
  OBVIOUS
<1>6. /\ p \in Seq(Text) /\ Len(p) = IF 2 <= n THEN n - 2 + 1 ELSE 0
      /\ \A i \in 1..(n - 2 + 1) : p[i] = r[2 + i - 1]
  <2>1. \A i \in 2..n : r[i] \in Text OBVIOUS
  <2>2. 2 \in Int /\ n \in Int OBVIOUS
  <2> QED BY <1>5, <2>1, <2>2, SubSeqProperties
<1>7. /\ q \in Seq(Text) /\ Len(q) = IF 2 <= n THEN n - 2 + 1 ELSE 0
      /\ \A i \in 1..(n - 2 + 1) : q[i] = b[2 + i - 1]
  <2>1. \A i \in 2..n : b[i] \in Text OBVIOUS
  <2>2. 2 \in Int /\ n \in Int OBVIOUS
  <2> QED BY <1>5, <2>1, <2>2, SubSeqProperties
<1>8. p = q
  <2>1. ASSUME NEW i \in 1..Len(p) PROVE p[i] = q[i]
    <3>1. i \in 1..(n - 2 + 1) /\ 2 + i - 1 \in 2..n BY <1>6
    <3> QED BY <1>6, <1>7, <3>1
  <2> QED BY <1>6, <1>7, <2>1, SeqEqual
<1>9. <<r[1]>> \in Seq(Text) /\ <<b[1]>> \in Seq(Text) /\ Told(<<r[1]>>) = Letters(r[1]) /\ Told(<<b[1]>>) = Letters(b[1])
  BY <1>2, OneLineJoined
<1>10. Told(r) = Letters(r[1]) \o Told(p)
  <2>1. Told(<<r[1]>> \o p) = Told(<<r[1]>>) \o Told(p) BY <1>6, <1>9, ToldConcat
  <2> QED BY <1>3, <1>5, <1>9, <2>1
<1>11. Told(b) = Letters(b[1]) \o Told(p)
  <2>1. Told(<<b[1]>> \o q) = Told(<<b[1]>>) \o Told(q) BY <1>7, <1>9, ToldConcat
  <2> QED BY <1>4, <1>5, <1>8, <1>9, <2>1
<1>12. PICK y \in Text, z \in Text : y = Letters(b[1]) /\ z = Told(p)
  BY <1>2, <1>6, LettersType, ToldType
<1>13. Associate(x, y, z)
  BY TextsAssociate
<1> QED BY <1>10, <1>11, <1>12, <1>13 DEF Associate

(* The header and its line feed have the letters of the header. *)
LEMMA HeadedLetters ==
  ASSUME NEW header \in Text, NEW t \in Text
  PROVE  Letters(Headed(header, t)) = Letters(header) \o Letters(t)
BY UnderType DEF Headed, Under

(* The parts of an element tell what the element tells. *)
LEMMA PartsTell ==
  ASSUME NEW e \in WithText, NEW parts \in Seq(Within(MaxTokens)), parts = ElementParts(e)
  PROVE  Told(Rests(e, parts)) = Letters(e.text)
<1>1. e \in ElementType /\ e.text \in Text /\ e.text # <<>>
  BY DEF WithText, ElementType
<1>2. PICK s \in Text : s = e.text
  BY <1>1
<1>0. Encodes(s)
  <2> SUFFICES ASSUME ~Encodes(s) PROVE FALSE
    OBVIOUS
  <2>1. parts = <<None>> BY <1>2 DEF ElementParts
  <2>2. Len(parts) = 1 /\ parts[1] = None BY <2>1
  <2>3. parts[1] \in Within(MaxTokens)
    <3>1. 1 \in 1..Len(parts) BY <2>2
    <3> QED BY <3>1
  <2> QED BY <2>2, <2>3, ChunkAssumption DEF Within
<1>3. CASE Fits(s)
  <2>1. parts = <<s>> BY <1>0, <1>2, <1>3 DEF ElementParts
  <2>2. Len(parts) = 1 /\ parts[1] = s BY <2>1
  <2>3. PICK r \in Seq(Text) : r = Rests(e, parts) /\ Len(r) = 1 /\ r[1] = Rest(e, 1, s)
    <3>1. Rests(e, parts) \in Seq(Text) /\ Len(Rests(e, parts)) = Len(parts)
          /\ \A j \in 1..Len(parts) : Rests(e, parts)[j] = Rest(e, j, parts[j])
      BY <1>1, RestsType
    <3>2. 1 \in 1..Len(parts) BY <2>2
    <3> QED BY <2>2, <3>1, <3>2
  <2>4. Rest(e, 1, s) = s BY DEF Rest
  <2>5. r = <<s>>
    <3>1. <<s>> \in Seq(Text) /\ Len(<<s>>) = 1 /\ <<s>>[1] = s OBVIOUS
    <3>2. \A i \in 1..1 : r[i] = <<s>>[i] BY <2>3, <2>4, <3>1
    <3> QED BY <2>3, <3>1, <3>2, SeqEqual
  <2> QED BY <1>2, <2>3, <2>5, OneLineJoined
<1>4. CASE ~Fits(s) /\ e.type # "table"
  <2>1. parts = Pieces(s, MaxTokens) BY <1>0, <1>2, <1>4 DEF ElementParts
  <2>2. FlattenSeq(parts) = s BY <2>1, WholeTextPieces
  <2>3. \A j \in 1..Len(parts) : Rest(e, j, parts[j]) = parts[j] BY <1>4 DEF Rest
  <2> QED BY <1>1, <1>2, <2>2, <2>3, PiecesTold
<1>5. CASE ~Fits(s) /\ e.type = "table"
  <2>1. parts = TableParts(s) BY <1>0, <1>2, <1>5 DEF ElementParts
  <2>2. CASE RowsOf(s) = <<>> \/ RowChunks(s) = <<>>
    <3>1. parts = Pieces(s, MaxTokens) BY <2>1, <2>2, TablePartsAre
    <3>2. FlattenSeq(parts) = s BY <3>1, WholeTextPieces
    <3>3. ~Fits(HeadingOf(s)) BY <1>5, <2>2, NoRows, NoRowChunks
    <3>4. ASSUME NEW j \in 1..Len(parts) PROVE Rest(e, j, parts[j]) = parts[j]
      <4>1. parts[j] \in Within(MaxTokens) OBVIOUS
      <4>2. ~IsPrefix(HeadingOf(s), parts[j]) BY <3>3, <4>1, NoneBegins
      <4> QED BY <1>2, <4>2 DEF Rest
    <3> QED BY <1>1, <1>2, <3>2, <3>4, PiecesTold
  <2>3. CASE ~(RowsOf(s) = <<>> \/ RowChunks(s) = <<>>)
    <3>1. parts = RowChunks(s) /\ parts # <<>> BY <2>1, <2>3, TablePartsAre
    <3>2. PICK n \in Nat \ {0} : n = Len(parts) /\ \A j \in 1..n : parts[j] # None
      <4>1. \A j \in 1..Len(parts) : parts[j] \in Within(MaxTokens) OBVIOUS
      <4>2. None \notin Within(MaxTokens) BY ChunkAssumption DEF Within
      <4>3. Len(parts) \in Nat \ {0} BY <3>1
      <4> QED BY <4>1, <4>2, <4>3
    <3>3. ~Raised(RowChunks(s)) BY <3>1, <3>2 DEF Raised
    <3>4. PICK header \in Text : header = HeaderOf(s) /\ HeadingOf(s) = header \o <<"/">>
      BY HeaderType DEF HeadingOf
    <3>5. PICK cs \in Seq(HeadedChunk(header)) : cs = parts /\ Told(Bodies(header, cs)) = Told(RowsOf(s))
      BY <3>1, <3>3, <3>4, RowChunksTold
    <3>6. PICK b \in Seq(Text) :
            /\ b = Bodies(header, cs) /\ Len(b) = n
            /\ \A k \in 1..n : b[k] = Body(header, cs[k]) /\ cs[k] = Headed(header, b[k]) /\ b[k] \in Text
      <4>1. /\ Bodies(header, cs) \in Seq(Text) /\ Len(Bodies(header, cs)) = Len(cs)
            /\ \A k \in 1..Len(cs) : /\ Bodies(header, cs)[k] = Body(header, cs[k])
                                     /\ cs[k] = Headed(header, Body(header, cs[k]))
        BY BodiesType
      <4>2. PICK b \in Seq(Text) : b = Bodies(header, cs) BY <4>1
      <4>3. Len(b) = n /\ \A k \in 1..n : b[k] \in Text BY <3>2, <3>5, <4>1, <4>2
      <4> QED BY <3>2, <3>5, <4>1, <4>2, <4>3
    <3>7. PICK r \in Seq(Text) : r = Rests(e, parts) /\ Len(r) = n /\ \A j \in 1..n : r[j] = Rest(e, j, cs[j])
      BY <1>1, <3>2, <3>5, RestsType
    <3>8. \A j \in 2..n : r[j] = b[j]
      <4> TAKE j \in 2..n
      <4>1. j \in 1..n /\ j > 1 OBVIOUS
      <4>2. IsPrefix(header \o <<"/">>, Headed(header, b[j])) BY <3>6, <4>1, HeadedBegins
      <4>3. cs[j] = Headed(header, b[j]) BY <3>6, <4>1
      <4>4. Rest(e, j, cs[j]) = Body(header, cs[j]) BY <1>2, <1>5, <3>4, <4>1, <4>2, <4>3 DEF Rest
      <4> QED BY <3>6, <3>7, <4>1, <4>4
    <3>9. r[1] = Headed(header, b[1]) /\ b[1] \in Text
      <4>1. 1 \in 1..n OBVIOUS
      <4>2. Rest(e, 1, cs[1]) = cs[1] BY DEF Rest
      <4> QED BY <3>6, <3>7, <4>1, <4>2
    <3>10. PICK x \in Text : x = Letters(header) /\ Letters(r[1]) = x \o Letters(b[1])
      <4>1. Letters(Headed(header, b[1])) = Letters(header) \o Letters(b[1]) BY <3>9, HeadedLetters
      <4>2. Letters(header) \in Text BY LettersType
      <4> QED BY <3>9, <4>1, <4>2
    <3>11. Told(r) = x \o Told(b)
      BY <3>6, <3>7, <3>8, <3>10, ToldBefore
    <3>12. Letters(s) = x \o Told(RowsOf(s))
      BY <3>4, <3>10, TableTold
    <3> QED BY <1>2, <3>5, <3>6, <3>7, <3>11, <3>12
  <2> QED BY <2>2, <2>3
<1> QED BY <1>3, <1>4, <1>5

(* A function over 1..n is a sequence. *)
LEMMA FunctionIsSequence ==
  ASSUME NEW A, NEW n \in Nat, NEW f \in [1..n -> A]
  PROVE  f \in Seq(A) /\ Len(f) = n
OBVIOUS

(* What all chunks add, the elements they come from, and that these are    *)
(* the first i.                                                            *)
AllAdded(cs) == FlattenSeq([k \in DOMAIN cs |-> Added(cs, k)])
AllSources(cs) == FlattenSeq([k \in DOMAIN cs |-> cs[k].sources])
ComeFrom(cs, i) == \A k \in DOMAIN cs : cs[k].sources \in Seq(1..i) \ {<<>>}

(* The last of some elements is one of them. *)
LEMMA LastSource ==
  ASSUME NEW i \in Nat, NEW sources \in Seq(1..i) \ {<<>>}
  PROVE  Last(sources) \in 1..i
<1>1. PICK n \in Nat \ {0} : n = Len(sources)
  OBVIOUS
<1>2. sources[n] \in 1..i
  BY <1>1
<1> QED BY <1>1, <1>2 DEF Last

(* What a chunk adds is a text. *)
LEMMA AddedType ==
  ASSUME Elements \in Seq(WithText), NEW cs \in Seq(FittingChunk), NEW M \in 0..Len(Elements), ComeFrom(cs, M),
         NEW k \in DOMAIN cs
  PROVE  Added(cs, k) \in Text
<1>1. cs[k] \in FittingChunk /\ cs[k].content \in Text
  <2>1. cs[k] \in FittingChunk OBVIOUS
  <2> QED BY <2>1 DEF FittingChunk, Within
<1>2. PICK n \in Nat : n = Len(Elements) /\ \A i \in 1..n : Elements[i] \in WithText
  OBVIOUS
<1>3. PICK i \in 1..n : i = Last(cs[k].sources)
  <2>1. cs[k].sources \in Seq(1..M) \ {<<>>} /\ M \in Nat /\ M <= n BY <1>2 DEF ComeFrom
  <2>2. Last(cs[k].sources) \in 1..M BY <2>1, LastSource
  <2> QED BY <2>1, <2>2
<1>4. PICK header \in Text : header = HeaderOf(Elements[i].text)
  <2>1. Elements[i].text \in Text BY <1>2 DEF WithText, ElementType
  <2> QED BY <2>1, HeaderType
<1>5. Heading(cs[k]) = header \o <<"/">>
  BY <1>3, <1>4 DEF Heading
<1>6. CASE Repeats(cs, k)
  <2>1. IsPrefix(header \o <<"/">>, cs[k].content) BY <1>5, <1>6 DEF Repeats
  <2>2. Body(header, cs[k].content) \in Text BY <1>1, <2>1, PrefixIsHeading
  <2>3. Added(cs, k) = Letters(Body(header, cs[k].content)) BY <1>5, <1>6 DEF Added, Body
  <2> QED BY <2>2, <2>3, LettersType
<1>7. CASE ~Repeats(cs, k)
  BY <1>1, <1>7, LettersType DEF Added
<1> QED BY <1>6, <1>7

(* A chunk at the end leaves what the others add. *)
LEMMA AppendAdds ==
  ASSUME Elements \in Seq(WithText), NEW cs \in Seq(FittingChunk), NEW M \in 0..Len(Elements), ComeFrom(cs, M),
         NEW c \in FittingChunk, c.sources \in Seq(1..M) \ {<<>>}
  PROVE  /\ Append(cs, c) \in Seq(FittingChunk) /\ Append(cs, c) # <<>>
         /\ ComeFrom(Append(cs, c), M)
         /\ AllAdded(cs) \in Text /\ Added(Append(cs, c), Len(cs) + 1) \in Text
         /\ AllAdded(Append(cs, c)) = AllAdded(cs) \o Added(Append(cs, c), Len(cs) + 1)
         /\ AllSources(cs) \in Seq(Nat)
         /\ AllSources(Append(cs, c)) = AllSources(cs) \o c.sources
<1>1. PICK n \in Nat : n = Len(cs) /\ DOMAIN cs = 1..n
  OBVIOUS
<1>2. PICK r \in Seq(FittingChunk) :
        /\ r = Append(cs, c) /\ r # <<>> /\ Len(r) = n + 1 /\ DOMAIN r = 1..(n + 1)
        /\ r[n + 1] = c /\ \A k \in 1..n : r[k] = cs[k]
  <2>1. /\ Append(cs, c) \in Seq(FittingChunk) /\ Append(cs, c) # <<>> /\ Len(Append(cs, c)) = Len(cs) + 1
        /\ Append(cs, c)[Len(cs) + 1] = c /\ \A k \in 1..Len(cs) : Append(cs, c)[k] = cs[k]
    BY AppendProperties
  <2>2. PICK r \in Seq(FittingChunk) : r = Append(cs, c)
    BY <2>1
  <2>3. r # <<>> /\ Len(r) = n + 1 /\ r[n + 1] = c /\ \A k \in 1..n : r[k] = cs[k]
    BY <1>1, <2>1, <2>2
  <2>4. DOMAIN r = 1..(n + 1)
    BY <2>3
  <2> QED BY <2>2, <2>3, <2>4
<1>3. ComeFrom(r, M)
  <2>1. ASSUME NEW k \in 1..(n + 1) PROVE r[k].sources \in Seq(1..M) \ {<<>>}
    <3>1. CASE k = n + 1 BY <1>2, <3>1
    <3>2. CASE k # n + 1
      <4>1. k \in 1..n BY <3>2
      <4> QED BY <1>1, <1>2, <4>1 DEF ComeFrom
    <3> QED BY <3>1, <3>2
  <2> QED BY <1>2, <2>1 DEF ComeFrom
<1>4. ASSUME NEW k \in 1..n PROVE Added(r, k) = Added(cs, k)
  <2>1. r[k] = cs[k] BY <1>2
  <2>2. k > 1 => r[k - 1] = cs[k - 1]
    <3>1. k > 1 => k - 1 \in 1..n OBVIOUS
    <3> QED BY <1>2, <3>1
  <2>3. Repeats(r, k) <=> Repeats(cs, k) BY <2>1, <2>2 DEF Repeats
  <2> QED BY <2>1, <2>3 DEF Added
<1>5. PICK few, more : few = [k \in DOMAIN cs |-> Added(cs, k)] /\ more = [k \in DOMAIN r |-> Added(r, k)]
  OBVIOUS
<1>6. few \in Seq(Seq(Char)) /\ Len(few) = n
  <2>1. \A k \in 1..n : Added(cs, k) \in Seq(Char) BY <1>1, AddedType DEF Text
  <2>2. few \in [1..n -> Seq(Char)] BY <1>1, <1>5, <2>1
  <2> QED BY <2>2
<1>7. more \in Seq(Seq(Char)) /\ Len(more) = n + 1
  <2>1. \A k \in 1..(n + 1) : Added(r, k) \in Seq(Char) BY <1>2, <1>3, AddedType DEF Text
  <2>2. more \in [1..(n + 1) -> Seq(Char)] /\ n + 1 \in Nat BY <1>2, <1>5, <2>1
  <2> QED BY <2>2, FunctionIsSequence
<1>8. \A k \in 1..n : more[k] = few[k]
  <2> TAKE k \in 1..n
  <2>1. k \in 1..(n + 1) OBVIOUS
  <2> QED BY <1>1, <1>2, <1>4, <1>5, <2>1
<1>9. more[n + 1] = Added(r, n + 1)
  <2>1. n + 1 \in 1..(n + 1) OBVIOUS
  <2> QED BY <1>2, <1>5, <2>1
<1>10. FlattenSeq(more) = FlattenSeq(few) \o Added(r, n + 1) /\ FlattenSeq(few) \in Text
  <2>1. FlattenSeq(more) = FlattenSeq(few) \o more[Len(more)] BY <1>6, <1>7, <1>8, FlattenNext
  <2>2. FlattenSeq(few) \in Seq(Char) BY <1>6, FlattenType
  <2> QED BY <1>7, <1>9, <2>1, <2>2 DEF Text
<1>11. Added(r, n + 1) \in Text
  <2>1. n + 1 \in DOMAIN r BY <1>2
  <2> QED BY <1>2, <1>3, <2>1, AddedType
<1>12. AllSources(r) = AllSources(cs) \o c.sources /\ AllSources(cs) \in Seq(Nat)
  <2>1. PICK a, b : a = [k \in DOMAIN cs |-> cs[k].sources] /\ b = [k \in DOMAIN r |-> r[k].sources]
    OBVIOUS
  <2>2. a \in Seq(Seq(Nat)) /\ Len(a) = n
    <3>0. \A k \in 1..n : cs[k] \in FittingChunk BY <1>1
    <3>1. \A k \in 1..n : cs[k].sources \in Seq(Nat) BY <3>0 DEF FittingChunk
    <3>2. a \in [1..n -> Seq(Nat)] BY <1>1, <2>1, <3>1
    <3> QED BY <3>2
  <2>3. b \in Seq(Seq(Nat)) /\ Len(b) = n + 1
    <3>0. \A k \in 1..(n + 1) : r[k] \in FittingChunk BY <1>2
    <3>1. \A k \in 1..(n + 1) : r[k].sources \in Seq(Nat) BY <3>0 DEF FittingChunk
    <3>2. b \in [1..(n + 1) -> Seq(Nat)] /\ n + 1 \in Nat BY <1>2, <2>1, <3>1
    <3> QED BY <3>2, FunctionIsSequence
  <2>4. \A k \in 1..n : b[k] = a[k]
    <3> TAKE k \in 1..n
    <3>1. k \in 1..(n + 1) OBVIOUS
    <3> QED BY <1>1, <1>2, <2>1, <3>1
  <2>5. b[n + 1] = c.sources
    <3>1. n + 1 \in 1..(n + 1) OBVIOUS
    <3> QED BY <1>2, <2>1, <3>1
  <2>6. FlattenSeq(b) = FlattenSeq(a) \o b[Len(b)] BY <2>2, <2>3, <2>4, FlattenNext
  <2>7. FlattenSeq(a) \in Seq(Nat) BY <2>2, FlattenType
  <2> QED BY <2>1, <2>3, <2>5, <2>6, <2>7 DEF AllSources
<1> QED BY <1>1, <1>2, <1>3, <1>5, <1>10, <1>11, <1>12 DEF AllAdded

(* Two paragraphs have the letters of both. *)
LEMMA ParagraphsLetters ==
  ASSUME NEW s \in Text, NEW t \in Text
  PROVE  Letters(Paragraphs(s, t)) = Letters(s) \o Letters(t)
<1>1. PICK u \in Text : u = Under(s, <<>>) /\ Letters(u) = Letters(s)
  <2>1. /\ Under(s, <<>>) \in Text /\ Letters(Under(s, <<>>)) = Letters(s) \o Letters(<<>>)
    BY NoLetters, UnderType
  <2>2. Letters(s) \o <<>> = Letters(s) BY LettersType, ConcatEmptySeq DEF Text
  <2> QED BY <2>1, <2>2, NoLetters
<1>2. Under(u, t) = Paragraphs(s, t)
  <2>1. PICK e \in Text : e = <<"/">> BY LineFeed
  <2>2. s \o e \in Text /\ Associate(s, e, e) BY TextsAssociate
  <2>3. u = s \o e
    <3>1. (s \o e) \o <<>> = s \o e BY <2>2, ConcatEmptySeq DEF Text
    <3> QED BY <1>1, <2>1, <3>1 DEF Under
  <2>4. e \o e = <<"/", "/">>
    <3>1. /\ e \o e \in Seq(Char) /\ Len(e \o e) = 2
          /\ \A i \in 1..2 : (e \o e)[i] = "/"
      <4>1. e \in Seq(Char) /\ Len(e) = 1 /\ e[1] = "/" BY <2>1 DEF Text
      <4>2. /\ e \o e \in Seq(Char) /\ Len(e \o e) = Len(e) + Len(e)
            /\ \A i \in 1..(Len(e) + Len(e)) : (e \o e)[i] = IF i <= Len(e) THEN e[i] ELSE e[i - Len(e)]
        BY <4>1, ConcatProperties
      <4>3. \A i \in 1..2 : i = 1 \/ i = 2 OBVIOUS
      <4> QED BY <4>1, <4>2, <4>3
    <3>2. <<"/", "/">> \in Seq(Char) /\ Len(<<"/", "/">>) = 2 /\ \A i \in 1..2 : <<"/", "/">>[i] = "/"
      <4>1. \A i \in 1..2 : i = 1 \/ i = 2 OBVIOUS
      <4> QED BY <4>1, LineFeed
    <3> QED BY <3>1, <3>2, SeqEqual
  <2>5. (s \o e) \o e = s \o (e \o e) BY <2>2 DEF Associate
  <2>6. Under(u, t) = (s \o (e \o e)) \o t BY <2>1, <2>3, <2>5 DEF Under
  <2> QED BY <2>4, <2>6 DEF Paragraphs
<1>3. Letters(Under(u, t)) = Letters(u) \o Letters(t)
  BY UnderType
<1> QED BY <1>1, <1>2, <1>3

(* Elements can be listed in any order of putting them together. *)
LEMMA SourcesAssociate ==
  ASSUME NEW p \in Seq(Nat), NEW q \in Seq(Nat), NEW r \in Seq(Nat)
  PROVE  (p \o q) \o r = p \o (q \o r) /\ p \o q \in Seq(Nat)
<1> DEFINE A == Nat
<1>1. p \in Seq(A) /\ q \in Seq(A) /\ r \in Seq(A)
  OBVIOUS
<1> HIDE DEF A
<1>2. (p \o q) \o r = p \o (q \o r)
  BY SMTT(20), <1>1, ConcatAssociative
<1>3. p \o q \in Seq(A)
  BY <1>1, ConcatProperties
<1> QED BY <1>2, <1>3 DEF A

(* A chunk merged into the last one adds its text, and its element. *)
LEMMA MergeAdds ==
  ASSUME Elements \in Seq(WithText), NEW cs \in Seq(FittingChunk), NEW M \in 0..Len(Elements), ComeFrom(cs, M),
         NEW c \in FittingChunk, c.sources \in Seq(1..M) \ {<<>>},
         cs # <<>>, Joins(Last(cs), c)
  PROVE  LET r == Append(Front(cs), Merged(Last(cs), c)) IN
         /\ r \in Seq(FittingChunk) /\ r # <<>> /\ ComeFrom(r, M)
         /\ AllAdded(cs) \in Text /\ AllAdded(r) = AllAdded(cs) \o Letters(c.content)
         /\ AllSources(cs) \in Seq(Nat) /\ AllSources(r) = AllSources(cs) \o c.sources
<1>1. PICK f \in Seq(FittingChunk), p \in FittingChunk : f = Front(cs) /\ p = Last(cs) /\ cs = Append(f, p)
  BY FrontAndLast
<1>2. PICK n \in Nat : /\ n = Len(f) /\ Len(cs) = n + 1 /\ cs[n + 1] = p
                       /\ \A k \in 1..n : cs[k] = f[k]
  <2>1. /\ Len(f) \in Nat /\ Len(Append(f, p)) = Len(f) + 1 /\ Append(f, p)[Len(f) + 1] = p
        /\ \A k \in 1..Len(f) : Append(f, p)[k] = f[k]
    BY AppendProperties
  <2> QED BY <1>1, <2>1
<1>3. ComeFrom(f, M) /\ p.sources \in Seq(1..M) \ {<<>>}
  <2>0. DOMAIN cs = 1..(n + 1)
    BY <1>2
  <2>1. \A k \in 1..(n + 1) : cs[k].sources \in Seq(1..M) \ {<<>>}
    BY <2>0 DEF ComeFrom
  <2>2. n + 1 \in 1..(n + 1) /\ \A k \in 1..n : k \in 1..(n + 1) OBVIOUS
  <2>3. DOMAIN f = 1..n BY <1>2
  <2> QED BY <1>2, <2>1, <2>2, <2>3 DEF ComeFrom
<1>4. PICK m \in FittingChunk :
        /\ m = Merged(p, c) /\ m.content = Paragraphs(p.content, c.content)
        /\ m.type = p.type /\ m.sources = p.sources \o c.sources
  <2>1. Fits(Paragraphs(p.content, c.content)) BY <1>1 DEF Joins
  <2> QED BY <2>1, MergedIs
<1>5. p.type # "table" /\ p.content \in Text /\ c.content \in Text
  BY <1>1 DEF Joins, FittingChunk, Within
<1>6. m.sources \in Seq(1..M) \ {<<>>}
  <2>1. PICK a \in Seq(1..M), b \in Seq(1..M) : a = p.sources /\ b = c.sources /\ b # <<>>
    BY <1>3
  <2>2. a \o b \in Seq(1..M) /\ a \o b # <<>>
    BY <2>1, ConcatProperties, ConcatEqualIffEmpty
  <2> QED BY <1>4, <2>1, <2>2
<1>7. PICK r \in Seq(FittingChunk) :
        /\ r = Append(f, m) /\ r # <<>> /\ ComeFrom(r, M) /\ r[n + 1] = m
        /\ AllAdded(f) \in Text
        /\ AllAdded(r) = AllAdded(f) \o Added(r, n + 1)
        /\ AllSources(f) \in Seq(Nat)
        /\ AllSources(r) = AllSources(f) \o m.sources
  <2>1. Append(f, m)[n + 1] = m BY <1>2, AppendProperties
  <2> QED BY <1>2, <1>3, <1>6, <2>1, AppendAdds
<1>8. AllAdded(cs) = AllAdded(f) \o Added(cs, n + 1) /\ AllSources(cs) = AllSources(f) \o p.sources
  BY <1>1, <1>2, <1>3, AppendAdds
<1>9. Added(cs, n + 1) = Letters(p.content)
  BY <1>2, <1>5 DEF Added, Repeats
<1>10. Added(r, n + 1) = Letters(p.content) \o Letters(c.content)
  <2>1. Added(r, n + 1) = Letters(m.content) BY <1>4, <1>5, <1>7 DEF Added, Repeats
  <2> QED BY <1>4, <1>5, <2>1, ParagraphsLetters
<1>11. PICK x \in Text, y \in Text, z \in Text : x = AllAdded(f) /\ y = Letters(p.content) /\ z = Letters(c.content)
  BY <1>5, <1>7, LettersType
<1>12. AllAdded(cs) \in Text /\ AllAdded(r) = AllAdded(cs) \o z
  <2>1. Associate(x, y, z) /\ x \o y \in Text BY TextsAssociate
  <2> QED BY <1>7, <1>8, <1>9, <1>10, <1>11, <2>1 DEF Associate
<1>13. AllSources(cs) \in Seq(Nat) /\ AllSources(r) = AllSources(cs) \o c.sources
  <2>1. PICK a \in Seq(Nat), b \in Seq(Nat), d \in Seq(Nat) : a = AllSources(f) /\ b = p.sources /\ d = c.sources
    BY <1>7 DEF FittingChunk
  <2>2. (a \o b) \o d = a \o (b \o d) /\ a \o b \in Seq(Nat) BY SourcesAssociate
  <2> QED BY <1>4, <1>7, <1>8, <2>1, <2>2
<1> QED BY <1>1, <1>4, <1>7, <1>11, <1>12, <1>13

(* A part of a table that follows another part of it under its header *)
Continues(cs, i, s) ==
  /\ Elements[i].type = "table"
  /\ cs # <<>> /\ Last(cs).sources = <<i>>
  /\ IsPrefix(HeadingOf(Elements[i].text), s)

(* A part of an element adds its text, or what it has under the header,    *)
(* and names the element.                                                  *)
LEMMA PartAdds ==
  ASSUME Elements \in Seq(WithText), NEW i \in 1..Len(Elements),
         NEW cs \in Seq(FittingChunk), ComeFrom(cs, i), NEW s \in Within(MaxTokens)
  PROVE  LET r == PartStep(cs, Elements[i], i, s) IN
         /\ r \in Seq(FittingChunk) /\ r # <<>> /\ ComeFrom(r, i)
         /\ AllAdded(cs) \in Text
         /\ AllAdded(r) = AllAdded(cs) \o
              Letters(IF Continues(cs, i, s) THEN Body(HeaderOf(Elements[i].text), s) ELSE s)
         /\ AllSources(cs) \in Seq(Nat) /\ AllSources(r) = AllSources(cs) \o <<i>>
         /\ Elements[i].type = "table" => Last(r).sources = <<i>>
<1>1. PICK e \in ElementType : e = Elements[i]
  BY DEF WithText
<1>2. i \in Nat /\ i \in 0..Len(Elements)
  OBVIOUS
<1>3. PICK c \in FittingChunk : /\ c = Chunk(e, i, s) /\ c.content = s /\ c.type = e.type
                                /\ c.sources = <<i>>
  <2>1. Chunk(e, i, s) \in FittingChunk BY <1>2, ChunkIs
  <2> QED BY <2>1 DEF Chunk
<1>4. c.sources \in Seq(1..i) \ {<<>>} /\ Last(c.sources) = i
  <2>1. i \in 1..i BY <1>2
  <2>2. <<i>> \in Seq(1..i) /\ <<i>> # <<>> /\ Len(<<i>>) = 1 /\ <<i>>[1] = i BY <2>1
  <2> QED BY <1>3, <2>2 DEF Last
<1>5. PICK r : r = AddChunk(cs, c) /\ r = PartStep(cs, Elements[i], i, s)
  BY <1>1, <1>3 DEF PartStep
<1>6. CASE cs # <<>> /\ Joins(Last(cs), c)
  <2>1. r = Append(Front(cs), Merged(Last(cs), c)) BY <1>5, <1>6 DEF AddChunk
  <2>2. /\ r \in Seq(FittingChunk) /\ r # <<>> /\ ComeFrom(r, i)
        /\ AllAdded(cs) \in Text /\ AllAdded(r) = AllAdded(cs) \o Letters(c.content)
        /\ AllSources(cs) \in Seq(Nat) /\ AllSources(r) = AllSources(cs) \o c.sources
    BY <1>2, <1>4, <1>6, <2>1, MergeAdds
  <2>3. Elements[i].type # "table" BY <1>1, <1>3, <1>6 DEF Joins
  <2>4. ~Continues(cs, i, s) BY <2>3 DEF Continues
  <2> QED BY <1>3, <1>5, <2>2, <2>3, <2>4
<1>7. CASE ~(cs # <<>> /\ Joins(Last(cs), c))
  <2>1. r = Append(cs, c) BY <1>5, <1>7 DEF AddChunk
  <2>2. PICK n \in Nat : n = Len(cs) OBVIOUS
  <2>3. /\ r \in Seq(FittingChunk) /\ r # <<>> /\ ComeFrom(r, i)
        /\ AllAdded(cs) \in Text /\ AllAdded(r) = AllAdded(cs) \o Added(r, n + 1)
        /\ AllSources(cs) \in Seq(Nat) /\ AllSources(r) = AllSources(cs) \o c.sources
    BY <1>2, <1>4, <2>1, <2>2, AppendAdds
  <2>4. Len(r) = n + 1 /\ r[n + 1] = c /\ \A k \in 1..n : r[k] = cs[k]
    <3>1. /\ Len(Append(cs, c)) = Len(cs) + 1 /\ Append(cs, c)[Len(cs) + 1] = c
          /\ \A k \in 1..Len(cs) : Append(cs, c)[k] = cs[k]
      BY AppendProperties
    <3> QED BY <2>1, <2>2, <3>1
  <2>5. Heading(c) = HeadingOf(Elements[i].text)
    BY <1>4 DEF Heading, HeadingOf
  <2>6. Repeats(r, n + 1) <=> Continues(cs, i, s)
    <3>1. n + 1 > 1 <=> cs # <<>> BY <2>2
    <3>2. (n + 1) - 1 = n OBVIOUS
    <3>3. n + 1 > 1 => n \in 1..n OBVIOUS
    <3>4. n + 1 > 1 => r[n] = Last(cs) BY <2>2, <2>4, <3>3 DEF Last
    <3> QED BY <1>1, <1>3, <2>4, <2>5, <3>1, <3>2, <3>4 DEF Repeats, Continues
  <2>7. Added(r, n + 1) = Letters(IF Continues(cs, i, s) THEN Body(HeaderOf(Elements[i].text), s) ELSE s)
    <3>1. CASE Continues(cs, i, s)
      <4>1. Added(r, n + 1) = Letters(SubSeq(s, Len(HeadingOf(Elements[i].text)) + 1, Len(s)))
        BY <1>3, <2>4, <2>5, <2>6, <3>1 DEF Added
      <4> QED BY <3>1, <4>1 DEF Body, HeadingOf
    <3>2. CASE ~Continues(cs, i, s)
      BY <1>3, <2>4, <2>6, <3>2 DEF Added
    <3> QED BY <3>1, <3>2
  <2>8. Last(r).sources = <<i>>
    BY <1>3, <2>4 DEF Last
  <2> QED BY <1>3, <1>5, <2>3, <2>7, <2>8
<1> QED BY <1>6, <1>7

(* The elements are listed in their order, each at least once. *)
Listed(sources, i) ==
  /\ sources \in Seq(Nat) /\ ToSet(sources) = 1..i
  /\ i > 0 => sources # <<>> /\ sources[Len(sources)] = i
  /\ \A n \in 1..(Len(sources) - 1) : sources[n + 1] \in {sources[n], sources[n] + 1}

(* One more at the end belongs to the set. *)
LEMMA ToSetNext ==
  ASSUME NEW s \in Seq(Nat), NEW j \in Nat
  PROVE  /\ s \o <<j>> \in Seq(Nat) /\ s \o <<j>> # <<>> /\ Len(s \o <<j>>) = Len(s) + 1
         /\ (s \o <<j>>)[Len(s) + 1] = j /\ \A n \in 1..Len(s) : (s \o <<j>>)[n] = s[n]
         /\ ToSet(s \o <<j>>) = ToSet(s) \union {j}
<1>1. PICK n \in Nat : n = Len(s) /\ DOMAIN s = 1..n
  OBVIOUS
<1>2. PICK t \in Seq(Nat) : /\ t = s \o <<j>> /\ t # <<>> /\ Len(t) = n + 1 /\ t[n + 1] = j
                            /\ \A k \in 1..n : t[k] = s[k]
  <2>1. s \o <<j>> = Append(s, j)
    OBVIOUS
  <2>2. /\ Append(s, j) \in Seq(Nat) /\ Append(s, j) # <<>> /\ Len(Append(s, j)) = Len(s) + 1
        /\ Append(s, j)[Len(s) + 1] = j /\ \A k \in 1..Len(s) : Append(s, j)[k] = s[k]
    OBVIOUS
  <2> QED BY <1>1, <2>1, <2>2
<1>3. DOMAIN t = 1..(n + 1)
  BY <1>2
<1>4. ASSUME NEW m \in ToSet(t) PROVE m \in ToSet(s) \union {j}
  <2>1. PICK k \in 1..(n + 1) : m = t[k] BY <1>3 DEF ToSet
  <2>2. CASE k = n + 1 BY <1>2, <2>1, <2>2
  <2>3. CASE k # n + 1
    <3>1. k \in 1..n BY <2>3
    <3> QED BY <1>1, <1>2, <2>1, <3>1 DEF ToSet
  <2> QED BY <2>2, <2>3
<1>5. ASSUME NEW m \in ToSet(s) \union {j} PROVE m \in ToSet(t)
  <2>1. CASE m = j
    <3>1. n + 1 \in DOMAIN t BY <1>3
    <3> QED BY <1>2, <2>1, <3>1 DEF ToSet
  <2>2. CASE m \in ToSet(s)
    <3>1. PICK k \in 1..n : m = s[k] BY <1>1, <2>2 DEF ToSet
    <3>2. k \in DOMAIN t BY <1>3
    <3> QED BY <1>2, <3>1, <3>2 DEF ToSet
  <2> QED BY <2>1, <2>2
<1> QED BY <1>1, <1>2, <1>4, <1>5

(* The list goes on with the last element or the next. *)
LEMMA ListedNext ==
  ASSUME NEW sources, NEW i \in Nat, Listed(sources, i), NEW j \in Nat \ {0}, j = i \/ j = i + 1
  PROVE  Listed(sources \o <<j>>, j)
<1>1. sources \in Seq(Nat)
  BY DEF Listed
<1>2. PICK n \in Nat : n = Len(sources)
  BY <1>1
<1>3. PICK t \in Seq(Nat) : /\ t = sources \o <<j>> /\ t # <<>> /\ Len(t) = n + 1 /\ t[n + 1] = j
                            /\ \A k \in 1..n : t[k] = sources[k]
                            /\ ToSet(t) = ToSet(sources) \union {j}
  BY <1>1, <1>2, ToSetNext
<1>4. ToSet(t) = 1..j
  <2>1. ToSet(sources) = 1..i BY DEF Listed
  <2>2. \A k : k \in 1..i \/ k = j <=> k \in 1..j OBVIOUS
  <2> QED BY <1>3, <2>1, <2>2
<1>5. ASSUME NEW k \in 1..n PROVE t[k + 1] \in {t[k], t[k] + 1}
  <2>1. CASE k = n
    <3>1. i # 0
      <4>1. sources[n] \in ToSet(sources) BY <1>1, <1>2, <2>1 DEF ToSet
      <4>2. i = 0 => 1..i = {} OBVIOUS
      <4> QED BY <4>1, <4>2 DEF Listed
    <3>2. sources[n] = i BY <1>2, <3>1 DEF Listed
    <3> QED BY <1>3, <2>1, <3>2
  <2>2. CASE k # n
    <3>1. k \in 1..n /\ k + 1 \in 1..n /\ k \in 1..(n - 1) BY <2>2
    <3>2. sources[k + 1] \in {sources[k], sources[k] + 1} BY <1>2, <3>1 DEF Listed
    <3> QED BY <1>3, <3>1, <3>2
  <2> QED BY <2>1, <2>2
<1>6. t[Len(t)] = j /\ Len(t) - 1 = n
  BY <1>3
<1> QED BY <1>3, <1>4, <1>5, <1>6 DEF Listed

(* A chunk comes from the pages of its elements, the first of which has    *)
(* its first page.                                                         *)
PagesAre(c) ==
  /\ \A m \in ToSet(c.sources) :
       Elements[m].start # 0 => /\ c.start # 0 /\ c.start <= Elements[m].start
                                /\ Elements[m].end <= c.end
  /\ c.start # 0 => \E m \in ToSet(c.sources) : c.start = Elements[m].start

(* An element without a page has no last page either. *)
PagesKnown == \A i \in DOMAIN Elements : Elements[i].start = 0 => Elements[i].end = 0

(* Two chunks of pages in their order make one. *)
LEMMA MergedPages ==
  ASSUME Elements \in Seq(WithText), PagesInOrder, PagesKnown, NEW i \in 1..Len(Elements),
         NEW p \in FittingChunk, PagesAre(p), p.sources \in Seq(1..i),
         NEW c \in FittingChunk, c.sources = <<i>>, c.start = Elements[i].start, c.end = Elements[i].end,
         NEW r \in FittingChunk, r.start = Or(p.start, c.start), r.end = Or(c.end, p.end),
         r.sources = p.sources \o c.sources
  PROVE  PagesAre(r)
<1>1. PICK N \in Nat : N = Len(Elements) /\ DOMAIN Elements = 1..N
  OBVIOUS
<1>2. \A m \in 1..N : Elements[m].start \in Nat /\ Elements[m].end \in Nat
  <2>1. \A m \in 1..N : Elements[m] \in WithText BY <1>1
  <2> QED BY <2>1 DEF WithText, ElementType
<1>3. p.start \in Nat /\ p.end \in Nat
  BY DEF FittingChunk
<1>4. \A m \in ToSet(p.sources) : m \in 1..i /\ m \in 1..N
  <2>1. PICK s \in Seq(1..i) : s = p.sources OBVIOUS
  <2>2. \A m \in ToSet(s) : m \in 1..i BY DEF ToSet
  <2> QED BY <1>1, <2>1, <2>2
<1>5. ToSet(r.sources) = ToSet(p.sources) \union {i}
  <2>1. p.sources \in Seq(Nat) /\ i \in Nat BY DEF FittingChunk
  <2> QED BY <2>1, ToSetNext
<1>6. i \in 1..N
  BY <1>1
<1>7. c.start \in Nat /\ c.end \in Nat /\ (c.start = 0 => c.end = 0)
  BY <1>1, <1>2, <1>6 DEF PagesKnown
<1>8. \A m \in ToSet(p.sources) :
        Elements[m].start # 0 /\ c.start # 0 => Elements[m].start <= c.start /\ Elements[m].end <= c.end
  <2> TAKE m \in ToSet(p.sources)
  <2>1. m \in 1..i /\ m \in 1..N BY <1>4
  <2>2. CASE m = i BY <1>2, <1>6, <2>2
  <2>3. CASE m # i
    <3>1. m < i BY <2>1, <2>3
    <3> QED BY <1>1, <1>6, <2>1, <3>1 DEF PagesInOrder
  <2> QED BY <2>2, <2>3
<1>9. ASSUME NEW m \in ToSet(p.sources), Elements[m].start # 0
      PROVE  r.start # 0 /\ r.start <= Elements[m].start /\ Elements[m].end <= r.end
  <2>1. p.start # 0 /\ p.start <= Elements[m].start /\ Elements[m].end <= p.end BY <1>9 DEF PagesAre
  <2>2. r.start = p.start BY <2>1 DEF Or
  <2>3. CASE c.end = 0 BY <2>1, <2>2, <2>3 DEF Or
  <2>4. CASE c.end # 0
    <3>1. c.start # 0 BY <1>7, <2>4
    <3>2. Elements[m].end <= c.end BY <1>8, <1>9, <3>1
    <3> QED BY <2>1, <2>2, <2>4, <3>2 DEF Or
  <2> QED BY <2>3, <2>4
<1>10. ASSUME Elements[i].start # 0
       PROVE  r.start # 0 /\ r.start <= Elements[i].start /\ Elements[i].end <= r.end
  <2>1. Elements[i].end <= r.end
    <3>1. CASE c.end = 0 BY <1>3, <3>1 DEF Or
    <3>2. CASE c.end # 0 BY <1>7, <3>2 DEF Or
    <3> QED BY <3>1, <3>2
  <2>2. CASE p.start = 0 BY <1>7, <1>10, <2>1, <2>2 DEF Or
  <2>3. CASE p.start # 0
    <3>1. PICK m \in ToSet(p.sources) : p.start = Elements[m].start BY <2>3 DEF PagesAre
    <3>2. p.start <= c.start BY <1>8, <1>10, <2>3, <3>1
    <3> QED BY <2>1, <2>3, <3>2 DEF Or
  <2> QED BY <2>2, <2>3
<1>11. ASSUME r.start # 0 PROVE \E m \in ToSet(r.sources) : r.start = Elements[m].start
  <2>1. CASE p.start = 0
    <3>1. r.start = Elements[i].start BY <2>1 DEF Or
    <3> QED BY <1>5, <3>1
  <2>2. CASE p.start # 0
    <3>1. PICK m \in ToSet(p.sources) : p.start = Elements[m].start BY <2>2 DEF PagesAre
    <3>2. r.start = p.start BY <2>2 DEF Or
    <3> QED BY <1>5, <3>1, <3>2
  <2> QED BY <2>1, <2>2
<1>12. ASSUME NEW m \in ToSet(r.sources), Elements[m].start # 0
       PROVE  r.start # 0 /\ r.start <= Elements[m].start /\ Elements[m].end <= r.end
  BY <1>5, <1>9, <1>10, <1>12
<1> QED BY <1>11, <1>12 DEF PagesAre

(* A part of an element keeps that chunks come from the pages of their     *)
(* elements.                                                               *)
LEMMA PartPages ==
  ASSUME Elements \in Seq(WithText), PagesInOrder, PagesKnown, NEW i \in 1..Len(Elements),
         NEW cs \in Seq(FittingChunk), ComeFrom(cs, i), NEW s \in Within(MaxTokens),
         \A k \in DOMAIN cs : PagesAre(cs[k])
  PROVE  \A k \in DOMAIN PartStep(cs, Elements[i], i, s) : PagesAre(PartStep(cs, Elements[i], i, s)[k])
<1>1. PICK e \in ElementType : e = Elements[i]
  BY DEF WithText
<1>2. i \in Nat
  OBVIOUS
<1>3. PICK c \in FittingChunk : /\ c = Chunk(e, i, s) /\ c.sources = <<i>>
                                /\ c.start = Elements[i].start /\ c.end = Elements[i].end
  <2>1. Chunk(e, i, s) \in FittingChunk BY <1>2, ChunkIs
  <2> QED BY <1>1, <2>1 DEF Chunk
<1>4. PICK r : r = AddChunk(cs, c) /\ r = PartStep(cs, Elements[i], i, s)
  BY <1>1, <1>3 DEF PartStep
<1>5. CASE cs # <<>> /\ Joins(Last(cs), c)
  <2>1. PICK f \in Seq(FittingChunk), p \in FittingChunk : f = Front(cs) /\ p = Last(cs) /\ cs = Append(f, p)
    BY <1>5, FrontAndLast
  <2>2. PICK n \in Nat : /\ n = Len(f) /\ Len(cs) = n + 1 /\ cs[n + 1] = p
                         /\ \A k \in 1..n : cs[k] = f[k]
    <3>1. /\ Len(f) \in Nat /\ Len(Append(f, p)) = Len(f) + 1 /\ Append(f, p)[Len(f) + 1] = p
          /\ \A k \in 1..Len(f) : Append(f, p)[k] = f[k]
      BY AppendProperties
    <3> QED BY <2>1, <3>1
  <2>3. DOMAIN cs = 1..(n + 1) /\ n + 1 \in 1..(n + 1)
    BY <2>2
  <2>4. PagesAre(p) /\ p.sources \in Seq(1..i)
    <3>1. PagesAre(cs[n + 1]) BY <2>3
    <3>2. cs[n + 1].sources \in Seq(1..i) BY <2>3 DEF ComeFrom
    <3> QED BY <2>2, <3>1, <3>2
  <2>5. PICK m \in FittingChunk : m = Merged(p, c) /\ PagesAre(m)
    <3>1. Fits(Paragraphs(p.content, c.content)) BY <1>5, <2>1 DEF Joins
    <3>2. /\ Merged(p, c) \in FittingChunk
          /\ Merged(p, c).start = Or(p.start, c.start) /\ Merged(p, c).end = Or(c.end, p.end)
          /\ Merged(p, c).sources = p.sources \o c.sources
      BY <3>1, MergedIs
    <3> QED BY <1>3, <2>4, <3>2, MergedPages
  <2>6. r = Append(f, m)
    BY <1>4, <1>5, <2>1, <2>5 DEF AddChunk
  <2>7. Len(r) = n + 1 /\ r[n + 1] = m /\ \A k \in 1..n : r[k] = f[k]
    <3>1. /\ Len(Append(f, m)) = Len(f) + 1 /\ Append(f, m)[Len(f) + 1] = m
          /\ \A k \in 1..Len(f) : Append(f, m)[k] = f[k]
      BY AppendProperties
    <3> QED BY <2>2, <2>6, <3>1
  <2>8. DOMAIN r = 1..(n + 1)
    <3>1. r \in Seq(FittingChunk) BY <2>6, AppendProperties
    <3> QED BY <2>7, <3>1
  <2>9. ASSUME NEW k \in 1..(n + 1) PROVE PagesAre(r[k])
    <3>1. CASE k = n + 1 BY <2>5, <2>7, <3>1
    <3>2. CASE k # n + 1
      <4>1. k \in 1..n BY <3>2
      <4>2. r[k] = cs[k] BY <2>2, <2>7, <4>1
      <4> QED BY <2>3, <4>2
    <3> QED BY <3>1, <3>2
  <2> QED BY <1>4, <2>8, <2>9
<1>6. CASE ~(cs # <<>> /\ Joins(Last(cs), c))
  <2>1. r = Append(cs, c)
    BY <1>4, <1>6 DEF AddChunk
  <2>2. PICK n \in Nat : n = Len(cs) /\ DOMAIN cs = 1..n
    OBVIOUS
  <2>3. Len(r) = n + 1 /\ r[n + 1] = c /\ \A k \in 1..n : r[k] = cs[k]
    <3>1. /\ Len(Append(cs, c)) = Len(cs) + 1 /\ Append(cs, c)[Len(cs) + 1] = c
          /\ \A k \in 1..Len(cs) : Append(cs, c)[k] = cs[k]
      BY AppendProperties
    <3> QED BY <2>1, <2>2, <3>1
  <2>4. DOMAIN r = 1..(n + 1)
    <3>1. r \in Seq(FittingChunk) BY <2>1, AppendProperties
    <3> QED BY <2>3, <3>1
  <2>5. PagesAre(c)
    <3>1. ToSet(c.sources) = {i}
      <4>1. <<i>> \in Seq(Nat) /\ <<i>>[1] = i /\ DOMAIN <<i>> = {1} OBVIOUS
      <4> QED BY <1>3, <4>1 DEF ToSet
    <3>2. e.start \in Nat /\ e.end \in Nat BY DEF ElementType
    <3> QED BY <1>1, <1>3, <3>1, <3>2 DEF PagesAre
  <2>6. ASSUME NEW k \in 1..(n + 1) PROVE PagesAre(r[k])
    <3>1. CASE k = n + 1 BY <2>3, <2>5, <3>1
    <3>2. CASE k # n + 1
      <4>1. k \in 1..n BY <3>2
      <4> QED BY <2>2, <2>3, <4>1
    <3> QED BY <3>1, <3>2
  <2> QED BY <1>4, <2>4, <2>6
<1> QED BY <1>5, <1>6

(* The chunks after some elements: they name these and tell what these     *)
(* told.                                                                   *)
Faithful(cs, i, told) ==
  /\ cs \in Seq(FittingChunk) /\ ComeFrom(cs, i)
  /\ Listed(AllSources(cs), i) /\ AllAdded(cs) = told
  /\ PagesInOrder => \A k \in DOMAIN cs : PagesAre(cs[k])

(* What comes from the first elements comes from more of them. *)
LEMMA ComeFromMore ==
  ASSUME NEW cs, NEW i \in Nat, NEW h \in 0..i, ComeFrom(cs, h)
  PROVE  ComeFrom(cs, i)
<1>1. 1..h \subseteq 1..i
  OBVIOUS
<1>2. Seq(1..h) \subseteq Seq(1..i)
  BY <1>1, SeqMonotonic
<1> QED BY <1>2 DEF ComeFrom

(* The last chunk is of one element only. *)
EndsWith(cs, i) == cs # <<>> /\ Last(cs).sources = <<i>>

(* One more part. *)
LEMMA FaithfulNext ==
  ASSUME Elements \in Seq(WithText), PagesKnown, NEW i \in 1..Len(Elements), NEW h \in Nat, i = h \/ i = h + 1,
         NEW told \in Text, NEW cs, Faithful(cs, h, told),
         NEW s \in Within(MaxTokens), NEW r, r = PartStep(cs, Elements[i], i, s),
         NEW rest, rest = IF Continues(cs, i, s) THEN Body(HeaderOf(Elements[i].text), s) ELSE s
  PROVE  /\ Faithful(r, i, told \o Letters(rest))
         /\ Elements[i].type = "table" => EndsWith(r, i)
<1>1. i \in Nat \ {0} /\ h \in 0..i
  OBVIOUS
<1>2. cs \in Seq(FittingChunk) /\ ComeFrom(cs, i) /\ AllAdded(cs) = told /\ Listed(AllSources(cs), h)
  BY <1>1, ComeFromMore DEF Faithful
<1>4. /\ r \in Seq(FittingChunk) /\ r # <<>> /\ ComeFrom(r, i)
      /\ AllAdded(r) = told \o Letters(rest)
      /\ AllSources(r) = AllSources(cs) \o <<i>>
      /\ Elements[i].type = "table" => Last(r).sources = <<i>>
  BY <1>2, PartAdds
<1>5. Listed(AllSources(r), i)
  BY <1>1, <1>2, <1>4, ListedNext
<1>6. PagesInOrder => \A k \in DOMAIN r : PagesAre(r[k])
  BY <1>2, PartPages DEF Faithful
<1> QED BY <1>4, <1>5, <1>6 DEF Faithful, EndsWith

(* What chunks from earlier elements end with is no part of this one. *)
LEMMA NothingContinues ==
  ASSUME NEW cs \in Seq(FittingChunk), NEW i \in Nat \ {0}, ComeFrom(cs, i - 1), NEW s
  PROVE  ~Continues(cs, i, s)
<1> SUFFICES ASSUME cs # <<>>, Last(cs).sources = <<i>> PROVE FALSE
  BY DEF Continues
<1>1. PICK n \in Nat \ {0} : n = Len(cs) /\ n \in DOMAIN cs
  OBVIOUS
<1>2. cs[n].sources \in Seq(1..(i - 1)) /\ cs[n].sources = <<i>>
  BY <1>1 DEF ComeFrom, Last
<1>3. PICK q \in Seq(1..(i - 1)) : q = <<i>>
  BY <1>2
<1>4. Len(q) = 1 /\ q[1] = i
  BY <1>3
<1>5. q[1] \in 1..(i - 1)
  <2>1. 1 \in 1..Len(q) BY <1>4
  <2> QED BY <2>1
<1> QED BY <1>4, <1>5

(* One more element: its parts tell what it tells. *)
LEMMA FaithfulElement ==
  ASSUME Elements \in Seq(WithText), PagesKnown, NEW i \in 1..Len(Elements),
         NEW told \in Text, NEW cs, Faithful(cs, i - 1, told),
         NEW parts \in Seq(Within(MaxTokens)) \ {<<>>}, parts = ElementParts(Elements[i])
  PROVE  Faithful(ElementStep(cs, Elements[i], i, parts), i, told \o Letters(Elements[i].text))
<1>1. PICK e \in WithText : e = Elements[i]
  OBVIOUS
<1>2. e \in ElementType /\ parts \in Seq(Within(MaxTokens)) /\ cs \in Seq(FittingChunk) /\ i \in Nat /\ i \in Nat \ {0}
  BY DEF WithText, Faithful
<1>3. PICK N \in Nat \ {0} : N = Len(parts)
  OBVIOUS
<1>4. PICK u : u = AddParts(cs, e, i, parts)
  OBVIOUS
<1>5. u[0] = cs /\ \A n \in 1..N : u[n] = PartStep(u[n - 1], e, i, parts[n])
  BY <1>2, <1>3, <1>4, AddPartsRuns
<1>6. PICK rests \in Seq(Text) :
        rests = Rests(e, parts) /\ Len(rests) = N /\ \A j \in 1..N : rests[j] = Rest(e, j, parts[j])
  BY <1>2, <1>3, RestsType
<1> DEFINE From(n) == IF n = 0 THEN i - 1 ELSE i
           Upto(n) == told \o Told(SubSeq(rests, 1, n))
           T == {n \in 0..N : /\ Faithful(u[n], From(n), Upto(n))
                              /\ n > 0 /\ e.type = "table" => EndsWith(u[n], i)}
<1>7. 0 \in T
  <2>1. SubSeq(rests, 1, 0) = <<>> BY Beginnings
  <2>2. Told(<<>>) = <<>> BY ToldNothing
  <2>3. told \o <<>> = told BY ConcatEmptySeq DEF Text
  <2>4. Faithful(u[0], From(0), Upto(0)) BY <1>5, <2>1, <2>2, <2>3
  <2>5. 0 \in 0..N OBVIOUS
  <2> QED BY <2>4, <2>5
<1>8. ASSUME NEW n \in 0..(N - 1), n \in T PROVE n + 1 \in T
  <2>1. PICK j \in 1..N : j = n + 1 /\ j - 1 = n /\ j # 0 /\ j > 0
    OBVIOUS
  <2>2. PICK c : c = u[n]
    OBVIOUS
  <2>3. PICK x \in Text, y \in Text, z \in Text :
          x = told /\ y = Told(SubSeq(rests, 1, n)) /\ z = Letters(rests[j])
    <3>1. SubSeq(rests, 1, n) \in Seq(Text) BY <1>6, BeginningNext, <2>1
    <3>2. rests[j] \in Text BY <1>6, <2>1
    <3> QED BY <3>1, <3>2, ToldType, LettersType
  <2>4. Upto(n) = x \o y /\ x \o y \in Text /\ Associate(x, y, z)
    BY <2>3, TextsAssociate
  <2>5. PICK s \in Within(MaxTokens) : s = parts[j]
    BY <1>2, <1>3, <2>1
  <2>6. Faithful(c, From(n), x \o y) /\ From(n) \in {i - 1, i}
    BY <1>8, <2>2, <2>4
  <2>7. Continues(c, i, s) <=> e.type = "table" /\ j > 1 /\ IsPrefix(HeadingOf(e.text), s)
    <3>1. CASE n = 0
      <4>1. ComeFrom(c, i - 1) /\ c \in Seq(FittingChunk) BY <2>6, <3>1 DEF Faithful
      <4>2. ~Continues(c, i, s) BY <1>2, <4>1, NothingContinues
      <4>3. ~(j > 1) BY <2>1, <3>1
      <4> QED BY <4>2, <4>3
    <3>2. CASE n # 0
      <4>1. e.type = "table" => EndsWith(c, i) BY <1>8, <2>2, <3>2
      <4>2. j > 1 BY <2>1, <3>2
      <4> QED BY <1>1, <4>1, <4>2 DEF Continues, EndsWith
    <3> QED BY <3>1, <3>2
  <2>8. (IF Continues(c, i, s) THEN Body(HeaderOf(e.text), s) ELSE s) = rests[j]
    BY <1>6, <2>5, <2>7 DEF Rest
  <2>9. PICK r : r = PartStep(c, e, i, s) /\ r = u[j]
    BY <1>5, <2>1, <2>2, <2>5
  <2>10. Faithful(r, i, (x \o y) \o z) /\ (e.type = "table" => EndsWith(r, i))
    <3>1. PICK h \in Nat : h = From(n) /\ (i = h \/ i = h + 1)
      BY <2>6
    <3>2. PICK t \in Text : t = x \o y
      BY <2>4
    <3>3. Faithful(c, h, t)
      BY <2>6, <3>1, <3>2
    <3> HIDE DEF From, Upto, T
    <3>4. PICK v : v = rests[j] /\ v = IF Continues(c, i, s) THEN Body(HeaderOf(Elements[i].text), s) ELSE s
      BY <1>1, <2>8
    <3>5. r = PartStep(c, Elements[i], i, s)
      BY <1>1, <2>9
    <3>6. /\ Faithful(r, i, t \o Letters(v))
          /\ Elements[i].type = "table" => EndsWith(r, i)
      BY <3>1, <3>3, <3>4, <3>5, FaithfulNext
    <3> QED BY <1>1, <2>3, <3>2, <3>4, <3>6
  <2>11. Upto(j) = (x \o y) \o z
    <3>0. /\ SubSeq(rests, 1, j - 1) \in Seq(Text) /\ rests[j] \in Text
          /\ SubSeq(rests, 1, j) = Append(SubSeq(rests, 1, j - 1), rests[j])
      <4>1. rests \in Seq(Text) /\ j \in 1..Len(rests) BY <1>6
      <4> QED BY <4>1, BeginningNext
    <3>1. PICK b \in Seq(Text) : b = SubSeq(rests, 1, n) /\ SubSeq(rests, 1, j) = Append(b, rests[j]) /\ rests[j] \in Text
      BY <2>1, <3>0
    <3>2. Told(Append(b, rests[j])) = Told(b) \o Letters(rests[j]) BY <3>1, ToldAppend
    <3> QED BY <2>3, <2>4, <3>1, <3>2 DEF Associate
  <2>12. From(j) = i /\ j \in 0..N
    BY <2>1
  <2> QED BY <2>1, <2>9, <2>10, <2>11, <2>12
<1>9. N \in T
  <2>1. N \in Nat /\ N \in 0..N OBVIOUS
  <2> HIDE DEF T
  <2> QED BY <1>7, <1>8, <2>1, SetInduction
<1>10. Upto(N) = told \o Letters(e.text)
  <2>1. SubSeq(rests, 1, N) = rests BY <1>6, Beginnings
  <2>2. Told(rests) = Letters(e.text) BY <1>1, <1>2, <1>6, PartsTell
  <2> QED BY <2>1, <2>2
<1>11. From(N) = i
  OBVIOUS
<1> QED BY <1>1, <1>3, <1>4, <1>9, <1>10, <1>11 DEF ElementStep

(* Before the first element there is no chunk. *)
LEMMA NothingFaithful == Faithful(<<>>, 0, <<>>)
<1>1. PICK cs \in Seq(FittingChunk) : cs = <<>> /\ Len(cs) = 0 /\ DOMAIN cs = {}
  <2>1. <<>> \in Seq(FittingChunk) /\ Len(<<>>) = 0 /\ DOMAIN <<>> = {} OBVIOUS
  <2> QED BY <2>1
<1>2. AllAdded(cs) = <<>>
  <2>1. PICK q : q = [k \in DOMAIN cs |-> Added(cs, k)] OBVIOUS
  <2>2. q = <<>> BY <1>1, <2>1
  <2>3. q \in Seq(Seq(Char)) BY <2>2
  <2> QED BY <2>1, <2>2, <2>3, FlattenType DEF AllAdded
<1>3. AllSources(cs) = <<>>
  <2>1. PICK q : q = [k \in DOMAIN cs |-> cs[k].sources] OBVIOUS
  <2>2. q = <<>> BY <1>1, <2>1
  <2>3. q \in Seq(Seq(Nat)) BY <2>2
  <2> QED BY <2>1, <2>2, <2>3, FlattenType DEF AllSources
<1>4. Listed(<<>>, 0)
  <2>1. PICK s \in Seq(Nat) : s = <<>> /\ Len(s) = 0 /\ DOMAIN s = {}
    <3>1. <<>> \in Seq(Nat) /\ Len(<<>>) = 0 /\ DOMAIN <<>> = {} OBVIOUS
    <3> QED BY <3>1
  <2>2. ToSet(s) = {} BY <2>1 DEF ToSet
  <2>3. 1..0 = {} /\ 1..(Len(s) - 1) = {} BY <2>1
  <2>4. ToSet(s) = 1..0 BY <2>2, <2>3
  <2>5. \A n \in 1..(Len(s) - 1) : s[n + 1] \in {s[n], s[n] + 1} BY <2>3
  <2>6. ~(0 > 0) OBVIOUS
  <2> QED BY <2>1, <2>4, <2>5, <2>6 DEF Listed
<1>5. ComeFrom(cs, 0)
  BY <1>1 DEF ComeFrom
<1> QED BY <1>1, <1>2, <1>3, <1>4, <1>5 DEF Faithful

(* The chunks of the document name all elements, and tell what these tell. *)
LEMMA FaithfulDocument ==
  ASSUME Elements \in Seq(WithText), Elements \in Seq(ElementType), PagesKnown,
         NEW parts \in PartsType(Elements), parts = Parts(Elements),
         NEW texts \in Seq(Text), Len(texts) = Len(Elements), \A i \in 1..Len(Elements) : texts[i] = Elements[i].text
  PROVE  Faithful(ElementsRead(Elements, parts)[Len(Elements)], Len(Elements), Told(texts))
<1>1. PICK N \in Nat : N = Len(Elements) /\ DOMAIN Elements = 1..N
  OBVIOUS
<1>2. PICK u : u = ElementsRead(Elements, parts)
  OBVIOUS
<1>3. u[0] = <<>> /\ \A n \in 1..N : u[n] = ElementStep(u[n - 1], Elements[n], n, parts[n])
  BY <1>1, <1>2, ElementsReadRuns
<1>4. \A n \in 1..N : parts[n] \in Seq(Within(MaxTokens)) \ {<<>>} /\ parts[n] = ElementParts(Elements[n])
  BY <1>1 DEF PartsType, Parts
<1> DEFINE Upto(n) == Told(SubSeq(texts, 1, n))
           T == {n \in 0..N : Faithful(u[n], n, Upto(n))}
<1>5. 0 \in T
  <2>1. SubSeq(texts, 1, 0) = <<>> BY Beginnings
  <2>2. Told(<<>>) = <<>> BY ToldNothing
  <2>3. Faithful(u[0], 0, Upto(0)) BY <1>3, <2>1, <2>2, NothingFaithful
  <2>4. 0 \in 0..N OBVIOUS
  <2> QED BY <2>3, <2>4
<1>6. ASSUME NEW n \in 0..(N - 1), n \in T PROVE n + 1 \in T
  <2>1. PICK i \in 1..N : i = n + 1 /\ i - 1 = n
    OBVIOUS
  <2>2. /\ SubSeq(texts, 1, n) \in Seq(Text) /\ texts[i] \in Text
        /\ SubSeq(texts, 1, i) = Append(SubSeq(texts, 1, n), texts[i])
    <3>1. texts \in Seq(Text) /\ i \in 1..Len(texts) BY <1>1
    <3>2. /\ SubSeq(texts, 1, i - 1) \in Seq(Text) /\ texts[i] \in Text
          /\ SubSeq(texts, 1, i) = Append(SubSeq(texts, 1, i - 1), texts[i])
      BY <3>1, BeginningNext
    <3> QED BY <2>1, <3>2
  <2>3. PICK told \in Text : told = Upto(n)
    BY <2>2, ToldType
  <2>4. Upto(i) = told \o Letters(Elements[i].text)
    <3>1. PICK b \in Seq(Text), t \in Text : b = SubSeq(texts, 1, n) /\ t = texts[i] /\ SubSeq(texts, 1, i) = Append(b, t)
      BY <2>2
    <3>2. Told(Append(b, t)) = Told(b) \o Letters(t) BY ToldAppend
    <3>3. t = Elements[i].text BY <1>1, <3>1
    <3> QED BY <2>3, <3>1, <3>2, <3>3
  <2>5. PICK cs : cs = u[n] /\ Faithful(cs, i - 1, told)
    BY <1>6, <2>1, <2>3
  <2>6. PICK p \in Seq(Within(MaxTokens)) \ {<<>>} : p = parts[i] /\ p = ElementParts(Elements[i])
    BY <1>4
  <2>7. Faithful(ElementStep(cs, Elements[i], i, p), i, told \o Letters(Elements[i].text))
    <3>1. i \in 1..Len(Elements) BY <1>1
    <3> HIDE DEF Upto, T
    <3> QED BY <2>5, <2>6, <3>1, FaithfulElement
  <2>8. u[i] = ElementStep(cs, Elements[i], i, p)
    BY <1>3, <2>1, <2>5, <2>6
  <2>9. Faithful(u[i], i, Upto(i)) /\ i \in 0..N
    <3>1. i \in 0..N OBVIOUS
    <3> HIDE DEF Upto
    <3>2. Faithful(u[i], i, Upto(i)) BY <2>4, <2>7, <2>8
    <3> QED BY <3>1, <3>2
  <2> QED BY <2>1, <2>9
<1>7. N \in T
  <2>1. N \in Nat /\ N \in 0..N OBVIOUS
  <2> HIDE DEF T
  <2> QED BY <1>5, <1>6, <2>1, SetInduction
<1>8. SubSeq(texts, 1, N) = texts
  BY <1>1, Beginnings
<1> QED BY <1>1, <1>2, <1>7, <1>8

(* The chunks hold the text of all elements in their order, nothing is     *)
(* lost or told twice but the headers of split tables, they name the       *)
(* elements they come from, and they stand on the pages of these if the    *)
(* elements come in the order of their pages.                              *)
THEOREM ChunksHoldTheText == Spec => []ChunksAreFaithful
<1>1. IInv => ChunksAreFaithful
  <2> SUFFICES ASSUME IInv, chunks # <<>> PROVE ChunksAreFaithful
    BY DEF ChunksAreFaithful
  <2>1. document # None /\ chunks = ChunksOf(Elements) /\ chunks # None
    BY DEF IInv
  <2>2. Elements \in Seq(WithText) /\ Elements \in Seq(ElementType) /\ Elements # <<>>
    BY <2>1, DocumentIsWritten DEF IInv, TypeOK
  <2>3. PagesKnown
    <3>1. Sound(document)
      BY <2>1, ParsedIsSound DEF IInv
    <3>2. PICK cur : Sections(cur, Elements)
      BY <3>1 DEF Sound, Follows, Elements
    <3>3. DOMAIN Elements = 1..Len(Elements)
      BY <2>2
    <3> QED BY <3>2, <3>3 DEF Sections, PagesKnown
  <2>4. PICK parts \in PartsType(Elements) :
          parts = Parts(Elements) /\ chunks = ElementsRead(Elements, parts)[Len(Elements)]
    <3>1. PICK q \in Seq(WithText) : q = Elements BY <2>2
    <3>2. Parts(q) \in PartsType(q) /\ ChunksOf(q) = ElementsRead(q, Parts(q))[Len(q)]
      BY <2>1, <2>2, <3>1, ChunksAre
    <3> QED BY <2>1, <3>1, <3>2
  <2>5. PICK N \in Nat : N = Len(Elements) /\ DOMAIN Elements = 1..N /\ \A i \in 1..N : Elements[i].text \in Text
    <3>1. PICK N \in Nat : N = Len(Elements) /\ DOMAIN Elements = 1..N /\ \A i \in 1..N : Elements[i] \in ElementType
      BY <2>2
    <3> QED BY <3>1 DEF ElementType
  <2>6. PICK texts \in Seq(Text) : Len(texts) = N /\ \A i \in 1..N : texts[i] = Elements[i].text
    <3>1. PICK t : t = [i \in 1..N |-> Elements[i].text] OBVIOUS
    <3>2. t \in [1..N -> Text] BY <2>5, <3>1
    <3>3. t \in Seq(Text) /\ Len(t) = N BY <3>2, FunctionIsSequence
    <3> QED BY <3>1, <3>3
  <2>7. Faithful(chunks, N, Told(texts))
    BY <2>2, <2>3, <2>4, <2>5, <2>6, FaithfulDocument
  <2>8. Told(texts) = FlattenSeq([i \in DOMAIN Elements |-> Letters(Elements[i].text)])
    <3>1. DOMAIN texts = 1..N BY <2>6
    <3>2. [k \in DOMAIN texts |-> Letters(texts[k])] = [i \in DOMAIN Elements |-> Letters(Elements[i].text)]
      BY <2>5, <2>6, <3>1
    <3> QED BY <3>2 DEF Told
  <2>9. PICK sources \in Seq(Nat) :
          /\ sources = AllSources(chunks) /\ ToSet(sources) = 1..N
          /\ \A n \in 1..(Len(sources) - 1) : sources[n + 1] \in {sources[n], sources[n] + 1}
    BY <2>7 DEF Faithful, Listed
  <2>10. FlattenSeq([k \in DOMAIN chunks |-> Added(chunks, k)]) = Told(texts)
    BY <2>7 DEF Faithful, AllAdded
  <2>11. PagesInOrder => \A k \in DOMAIN chunks : \A i \in ToSet(chunks[k].sources) :
           Elements[i].start # 0 =>
             chunks[k].start <= Elements[i].start /\ Elements[i].end <= chunks[k].end
    BY <2>7 DEF Faithful, PagesAre
  <2> QED BY <2>5, <2>8, <2>9, <2>10, <2>11 DEF ChunksAreFaithful, AllSources
<1> QED BY <1>1, IInvHolds, PTL

=============================================================================
