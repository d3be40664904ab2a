------------------------ MODULE AssistantTurn_proofs ------------------------
(***************************************************************************)
(* Theorems about AssistantTurn, for any number of turns, users, sources   *)
(* and tool calls of a reply, whatever the model says and whatever fails.  *)
(***************************************************************************)
EXTENDS AssistantTurn, FiniteSetTheorems, TLAPS

USE TurnAssumption

(* A step of the loop takes a turn from one of its states to another one   *)
(* the invariant allows, of the same agent and user and not yet stored.    *)
Settles(x, y) ==
  /\ y \in TurnState
  /\ y.agent = x.agent /\ y.user = x.user
  /\ y.pc # "respond"
  /\ y.pc = "tool" => y.calls > 0
  /\ y.pc = "model" => y.calls = 0
  /\ LoopIsOpen(y) /\ ReplyIsFinal(y)

LEMMA SayIsReply ==
  ASSUME NEW kind \in {"clarify", "pending", "unverified", "unavailable", "status",
                       "limit", "free"}
  PROVE  Say(kind) \in Replies /\ Say(kind).kind = kind /\ kind # "policy"
BY DEF Say, Replies, Canned

(* Answered fills in the reply and keeps what the reply rests on. *)
LEMMA AnsweredShape ==
  ASSUME NEW x \in TurnState, NEW reply \in Replies, NEW draft \in BOOLEAN,
         NEW sources \in SUBSET Sources
  PROVE  LET y == Answered(x, reply, draft, sources) IN
         /\ y \in TurnState
         /\ y.pc = "persist" /\ y.agent = x.agent /\ y.user = x.user
         /\ y.reply = reply /\ y.offered = draft /\ y.shown = sources
         /\ y.made = x.made /\ y.search = x.search /\ y.sources = x.sources
<1> DEFINE y == Answered(x, reply, draft, sources)
<1>0. 0 \in 0..Rounds /\ 0 \in 0..MaxCalls
  BY DEF Rounds
<1>1. y \in TurnState
  BY <1>0 DEF Answered, TurnState
<1>2. /\ y.pc = "persist" /\ y.agent = x.agent /\ y.user = x.user
      /\ y.reply = reply /\ y.offered = draft /\ y.shown = sources
      /\ y.made = x.made /\ y.search = x.search /\ y.sources = x.sources
  BY DEF Answered, TurnState
<1>3. QED
  BY <1>1, <1>2

(* What is rendered as a policy cites sources of the search. *)
LEMMA RenderedCites ==
  ASSUME NEW content \in Contents, NEW sources \in SUBSET Sources
  PROVE  LET reply == Rendered(content, sources) IN
         /\ reply \in Replies
         /\ reply.kind # "unavailable"
         /\ reply.kind = "policy" => reply.cites # {} /\ reply.cites \subseteq sources
<1>1. content.form \in {"empty", "bare", "broken", "cited"}
  BY DEF Contents
<1>2. content.form = "cited" => content.cites \in SUBSET Sources /\ content.cites # {}
  BY DEF Contents
<1>3. Say("unverified") \in Replies /\ Say("unverified").kind = "unverified"
  BY SayIsReply
<1>4. \A cites \in SUBSET Sources : [kind |-> "policy", cites |-> cites] \in Replies
  BY DEF Replies
<1>5. CASE content.form \in {"empty", "broken"} \/ sources = {}
  BY <1>3, <1>5 DEF Rendered
<1>6. CASE content.form = "bare" /\ sources # {}
  BY <1>4, <1>6 DEF Rendered
<1>7. CASE content.form = "cited" /\ sources # {}
  BY <1>2, <1>3, <1>4, <1>7 DEF Rendered
<1>8. QED
  BY <1>1, <1>5, <1>6, <1>7

(* A turn that is answered settles when its draft is the one it offers and *)
(* a policy rests on what the search found.                                *)
LEMMA AnswerSettles ==
  ASSUME NEW x \in TurnState, NEW reply \in Replies, NEW draft \in BOOLEAN,
         NEW sources \in SUBSET Sources,
         x.made = IF draft THEN 1 ELSE 0,
         x.agent = "hr" /\ reply.kind = "policy" =>
           /\ x.search = "OK" /\ sources = x.sources
           /\ reply.cites # {} /\ reply.cites \subseteq sources,
         x.agent = "hr" /\ x.search = "UNAVAILABLE" =>
           reply.kind = "unavailable" /\ sources = {} /\ ~draft
  PROVE  Settles(x, Answered(x, reply, draft, sources))
<1> DEFINE y == Answered(x, reply, draft, sources)
<1>1. /\ y \in TurnState
      /\ y.pc = "persist" /\ y.agent = x.agent /\ y.user = x.user
      /\ y.reply = reply /\ y.offered = draft /\ y.shown = sources
      /\ y.made = x.made /\ y.search = x.search /\ y.sources = x.sources
  BY AnsweredShape
<1> HIDE DEF y
<1>2. ReplyIsFinal(y)
  BY <1>1 DEF ReplyIsFinal, ReplyIsGrounded
<1>3. Settles(x, y)
  BY <1>1, <1>2 DEF Settles, LoopIsOpen
<1>4. QED
  BY <1>3 DEF y

(* The reply of the model ends the turn of an employee. *)
LEMMA HrConclusionSettles ==
  ASSUME NEW x \in TurnState, x.pc = "model", x.agent = "hr", LoopIsOpen(x),
         NEW content \in Contents
  PROVE  Settles(x, HrConclusion(x, content))
<1>1. /\ ~x.clarify /\ ~x.draft /\ x.made = 0 /\ x.search # "UNAVAILABLE"
      /\ x.sources # {} => x.search = "OK"
      /\ x.sources \in SUBSET Sources
  BY DEF LoopIsOpen, TurnState
<1>2. CASE ~x.attempted \/ x.sources = {}
  <2>1. Settles(x, Answered(x, Say("unverified"), FALSE, x.sources))
    BY <1>1, SayIsReply, AnswerSettles
  <2>2. QED
    BY <1>1, <1>2, <2>1 DEF HrConclusion
<1>3. CASE x.attempted /\ x.sources # {}
  <2>1. Settles(x, Answered(x, Rendered(content, x.sources), FALSE, x.sources))
    BY <1>1, <1>3, RenderedCites, AnswerSettles
  <2>2. QED
    BY <1>1, <1>3, <2>1 DEF HrConclusion
<1>4. QED
  BY <1>2, <1>3 DEF TurnState

(* A turn of the sales assistant passes on whatever draft it has made. *)
LEMMA SalesSettles ==
  ASSUME NEW x \in TurnState, x.pc = "model", x.agent = "sales", LoopIsOpen(x)
  PROVE  Settles(x, SalesConclusion(x)) /\ Settles(x, SalesLimit(x))
<1>1. x.draft \in BOOLEAN /\ x.made = IF x.draft THEN 1 ELSE 0
  BY DEF LoopIsOpen, TurnState
<1>2. Settles(x, Answered(x, Say("free"), x.draft, {}))
  BY <1>1, SayIsReply, AnswerSettles
<1>3. Settles(x, Answered(x, Say("limit"), x.draft, {}))
  BY <1>1, SayIsReply, AnswerSettles
<1>4. QED
  BY <1>2, <1>3 DEF SalesConclusion, SalesLimit

(* One tool call of the loop is done. *)
LEMMA CallDone ==
  ASSUME NEW x \in TurnState, x.calls > 0
  PROVE  LET y == [x EXCEPT !.calls = @ - 1] IN
         /\ y \in TurnState
         /\ \A f \in {"agent", "user", "pc", "clarify", "draft", "made", "search", "sources",
                      "status", "round", "attempted"} : y[f] = x[f]
<1>1. x.calls - 1 \in 0..MaxCalls
  BY DEF TurnState
<1>2. QED
  BY <1>1 DEF TurnState

(* A draft is made once and flagged. *)
LEMMA DraftedShape ==
  ASSUME NEW x \in TurnState, x.made = IF x.draft THEN 1 ELSE 0
  PROVE  LET y == Drafted(x) IN
         /\ y \in TurnState
         /\ y.agent = x.agent /\ y.user = x.user /\ y.search = x.search /\ y.sources = x.sources
         /\ y.draft /\ y.made = 1
<1>1. CASE x.draft
  BY <1>1 DEF Drafted
<1>2. CASE ~x.draft
  <2> DEFINE y == [x EXCEPT !.draft = TRUE, !.made = @ + 1]
  <2>1. x.made + 1 = 1 /\ x.made + 1 \in Nat
    BY <1>2
  <2>2. y \in TurnState
    BY <2>1 DEF TurnState
  <2>3. /\ y.agent = x.agent /\ y.user = x.user /\ y.search = x.search /\ y.sources = x.sources
        /\ y.draft /\ y.made = 1
    BY <2>1 DEF TurnState
  <2> HIDE DEF y
  <2>4. QED
    BY <1>2, <2>2, <2>3 DEF Drafted, y
<1>3. QED
  BY <1>1, <1>2 DEF TurnState

(* What a tool of the employee assistant leaves: a draft that was made is  *)
(* flagged and made only while retrieval is up, and sources are those of a *)
(* search that found them.                                                 *)
ToolLeft(x, z) ==
  /\ z \in TurnState
  /\ z.agent = x.agent /\ z.user = x.user
  /\ z.made = IF z.draft THEN 1 ELSE 0
  /\ z.search = "UNAVAILABLE" => ~z.draft
  /\ z.sources # {} => z.search = "OK"

LEMMA HrToolLeaves ==
  ASSUME NEW x \in TurnState, x.pc = "tool", x.calls > 0, x.agent = "hr", LoopIsOpen(x),
         NEW tool \in HrTools, NEW z \in HrToolResults(x, tool)
  PROVE  ToolLeft(x, z)
<1> DEFINE y == [x EXCEPT !.calls = @ - 1]
<1>1. /\ ~x.clarify /\ ~x.draft /\ ~x.status /\ x.made = 0
      /\ x.search # "UNAVAILABLE"
      /\ x.sources # {} => x.search = "OK"
  BY DEF LoopIsOpen
<1>2. /\ y \in TurnState
      /\ y.agent = x.agent /\ y.user = x.user /\ y.made = 0 /\ ~y.draft
      /\ y.search # "UNAVAILABLE"
      /\ y.sources # {} => y.search = "OK"
  BY <1>1, CallDone
<1>3. /\ tool = "search" =>
           \E status \in Searches, found \in SUBSET Sources : z = Searched(y, status, found)
      /\ tool = "clarify" => z = [y EXCEPT !.clarify = TRUE]
      /\ tool = "draft" => z = y \/ z = Drafted(y)
      /\ tool = "status" => z = [y EXCEPT !.status = TRUE]
      /\ tool = "unknown" => z = y
  <2>1. CASE tool = "search"
    BY <2>1 DEF HrToolResults, Searches
  <2>2. CASE tool # "search"
    BY <2>2 DEF HrToolResults, HrTools
  <2>3. QED
    BY <2>1, <2>2
<1> HIDE DEF y
<1>4. CASE tool = "search"
  <2>1. PICK status \in Searches, found \in SUBSET Sources : z = Searched(y, status, found)
    BY <1>3, <1>4
  <2>2. z \in TurnState
    BY ZenonT(20), <1>2, <2>1 DEF Searched, TurnState
  <2>3. /\ z.agent = y.agent /\ z.user = y.user /\ z.made = y.made /\ z.draft = y.draft
        /\ z.sources # {} => z.search = "OK"
    BY <1>2, <2>1 DEF Searched, TurnState
  <2>4. QED
    BY <1>2, <2>2, <2>3 DEF ToolLeft
<1>5. CASE tool = "clarify"
  <2>1. z = [y EXCEPT !.clarify = TRUE]
    BY <1>3, <1>5
  <2>2. z \in TurnState
    BY <1>2, <2>1 DEF TurnState
  <2>3. /\ z.agent = y.agent /\ z.user = y.user /\ z.made = y.made /\ z.draft = y.draft
        /\ z.search = y.search /\ z.sources = y.sources
    BY <1>2, <2>1 DEF TurnState
  <2>4. QED
    BY <1>2, <2>2, <2>3 DEF ToolLeft
<1>6. CASE tool = "draft"
  <2>1. /\ Drafted(y) \in TurnState
        /\ Drafted(y).agent = y.agent /\ Drafted(y).user = y.user
        /\ Drafted(y).search = y.search /\ Drafted(y).sources = y.sources
        /\ Drafted(y).draft /\ Drafted(y).made = 1
    BY <1>2, DraftedShape
  <2>2. QED
    BY <1>2, <1>3, <1>6, <2>1 DEF ToolLeft
<1>7. CASE tool = "status"
  <2>1. z = [y EXCEPT !.status = TRUE]
    BY <1>3, <1>7
  <2>2. z \in TurnState
    BY <1>2, <2>1 DEF TurnState
  <2>3. /\ z.agent = y.agent /\ z.user = y.user /\ z.made = y.made /\ z.draft = y.draft
        /\ z.search = y.search /\ z.sources = y.sources
    BY <1>2, <2>1 DEF TurnState
  <2>4. QED
    BY <1>2, <2>2, <2>3 DEF ToolLeft
<1>8. CASE tool = "unknown"
  BY <1>2, <1>3, <1>8 DEF ToolLeft
<1>9. QED
  BY <1>4, <1>5, <1>6, <1>7, <1>8 DEF HrTools

(* The early returns answer with what the tool left, or the loop goes on. *)
LEMMA ConcludeSettles ==
  ASSUME NEW x \in TurnState, x.agent = "hr", NEW z, ToolLeft(x, z)
  PROVE  Settles(x, Conclude(z))
<1>1. /\ z \in TurnState /\ z.agent = "hr" /\ z.user = x.user
      /\ z.sources \in SUBSET Sources
      /\ z.draft \in BOOLEAN /\ z.clarify \in BOOLEAN /\ z.status \in BOOLEAN
  BY DEF ToolLeft, TurnState
<1>2. \A y : Settles(z, y) => Settles(x, y)
  BY <1>1 DEF Settles
<1>3. CASE z.search = "UNAVAILABLE"
  <2>1. Settles(z, Answered(z, Say("unavailable"), FALSE, {}))
    BY <1>1, <1>3, SayIsReply, AnswerSettles DEF ToolLeft
  <2>2. QED
    BY <1>2, <1>3, <2>1 DEF Conclude
<1>4. CASE z.search # "UNAVAILABLE" /\ z.clarify
  <2>1. Settles(z, Answered(z, Say("clarify"), z.draft, z.sources))
    BY <1>1, <1>4, SayIsReply, AnswerSettles DEF ToolLeft
  <2>2. QED
    BY <1>2, <1>4, <2>1 DEF Conclude
<1>5. CASE z.search # "UNAVAILABLE" /\ ~z.clarify /\ z.draft
  <2>1. Settles(z, Answered(z, Say("pending"), TRUE, z.sources))
    BY <1>1, <1>5, SayIsReply, AnswerSettles DEF ToolLeft
  <2>2. QED
    BY <1>2, <1>5, <2>1 DEF Conclude
<1>6. CASE z.search # "UNAVAILABLE" /\ ~z.clarify /\ ~z.draft /\ z.status
  <2>1. Settles(z, Answered(z, Say("status"), FALSE, z.sources))
    BY <1>1, <1>6, SayIsReply, AnswerSettles DEF ToolLeft
  <2>2. QED
    BY <1>2, <1>6, <2>1 DEF Conclude
<1>7. CASE z.search # "UNAVAILABLE" /\ ~z.clarify /\ ~z.draft /\ ~z.status
  <2> DEFINE y == [z EXCEPT !.pc = Pc(z)]
  <2>1. /\ y \in TurnState
        /\ y.pc = Pc(z) /\ y.calls = z.calls /\ y.agent = z.agent /\ y.user = z.user
        /\ y.clarify = z.clarify /\ y.draft = z.draft /\ y.status = z.status
        /\ y.made = z.made /\ y.search = z.search /\ y.sources = z.sources
    BY <1>1 DEF TurnState, Pc
  <2>2. z.calls \in Nat
    BY <1>1 DEF TurnState
  <2>3. Conclude(z) = y
    BY <1>7 DEF Conclude
  <2> HIDE DEF y
  <2>4. Settles(x, y)
    BY <1>1, <1>7, <2>1, <2>2 DEF Settles, LoopIsOpen, ReplyIsFinal, Pc, ToolLeft
  <2>5. QED
    BY <2>3, <2>4
<1>8. QED
  BY <1>1, <1>3, <1>4, <1>5, <1>6, <1>7

(* A tool of the sales assistant never ends the turn. *)
LEMMA SalesToolSettles ==
  ASSUME NEW x \in TurnState, x.pc = "tool", x.calls > 0, x.agent = "sales", LoopIsOpen(x),
         NEW tool \in SalesTools, NEW z \in SalesToolResults(x, tool)
  PROVE  Settles(x, [z EXCEPT !.pc = Pc(z)])
<1> DEFINE w == [x EXCEPT !.calls = @ - 1]
<1>1. /\ w \in TurnState
      /\ w.agent = x.agent /\ w.user = x.user /\ w.draft = x.draft /\ w.made = x.made
  BY CallDone
<1>2. z = w \/ z = Drafted(w)
  BY DEF SalesToolResults
<1>3. x.made = IF x.draft THEN 1 ELSE 0
  BY DEF LoopIsOpen
<1> HIDE DEF w
<1>4. /\ z \in TurnState
      /\ z.agent = "sales" /\ z.user = x.user
      /\ z.made = IF z.draft THEN 1 ELSE 0
  BY <1>1, <1>2, <1>3, DraftedShape
<1> DEFINE y == [z EXCEPT !.pc = Pc(z)]
<1>5. /\ y \in TurnState
      /\ y.pc = Pc(z) /\ y.calls = z.calls /\ y.agent = z.agent /\ y.user = z.user
      /\ y.draft = z.draft /\ y.made = z.made
  BY <1>4 DEF TurnState, Pc
<1>6. z.calls \in Nat
  BY <1>4 DEF TurnState
<1> HIDE DEF y
<1>7. Settles(x, y)
  BY <1>4, <1>5, <1>6 DEF Settles, LoopIsOpen, ReplyIsFinal, Pc
<1>8. QED
  BY <1>7 DEF y

(* Each turn is as the loop or its reply allows. *)
TurnsFit == \A t \in Turns : turn[t] # None => LoopIsOpen(turn[t]) /\ ReplyIsFinal(turn[t])

(* Every step of the loop settles. *)
LEMMA LoopSettles ==
  ASSUME TypeOK, TurnsFit, NEW t \in Turns,
         \/ ModelCalls(t) \/ ModelReplies(t) \/ RoundLimit(t)
         \/ \E tool \in HrTools \union SalesTools : CallTool(t, tool)
  PROVE  /\ turn[t] # None /\ turn[t].pc \in {"model", "tool"}
         /\ UNCHANGED Store
         /\ \E y \in TurnState : Settles(turn[t], y) /\ turn' = [turn EXCEPT ![t] = y]
<1> DEFINE x == turn[t]
<1>1. /\ x # None /\ x.pc \in {"model", "tool"} /\ UNCHANGED Store
  BY DEF ModelCalls, ModelReplies, RoundLimit, CallTool, At
<1>2. x \in TurnState /\ LoopIsOpen(x) /\ ReplyIsFinal(x)
  BY <1>1 DEF TypeOK, TurnsFit
<1>3. x.agent \in {"hr", "sales"}
  BY <1>2 DEF TurnState
<1> SUFFICES \E y : Settles(x, y) /\ turn' = [turn EXCEPT ![t] = y]
  BY <1>1 DEF Settles
<1>4. CASE ModelCalls(t)
  <2>1. PICK n \in 1..MaxCalls :
          turn' = [turn EXCEPT ![t] = [x EXCEPT !.pc = "tool", !.calls = n, !.round = @ + 1]]
    BY <1>4 DEF ModelCalls, TypeOK
  <2> DEFINE y == [x EXCEPT !.pc = "tool", !.calls = n, !.round = @ + 1]
  <2>2. n \in 0..MaxCalls /\ n > 0 /\ x.round + 1 \in 0..Rounds
    <3>1. x.round \in 0..3
      BY <1>2 DEF TurnState, Rounds
    <3>2. x.round < 3
      BY <1>4 DEF ModelCalls, Rounds
    <3>3. n \in Nat /\ n > 0 /\ n <= MaxCalls
      OBVIOUS
    <3>4. QED
      BY <3>1, <3>2, <3>3 DEF Rounds
  <2>3. y \in TurnState
    BY <1>2, <2>2 DEF TurnState
  <2>4. /\ y.pc = "tool" /\ y.calls = n /\ y.agent = x.agent /\ y.user = x.user
        /\ y.clarify = x.clarify /\ y.draft = x.draft /\ y.status = x.status
        /\ y.made = x.made /\ y.search = x.search /\ y.sources = x.sources
    BY <1>2 DEF TurnState
  <2> HIDE DEF y
  <2>5. Settles(x, y)
    BY <1>1, <1>2, <2>2, <2>3, <2>4 DEF Settles, LoopIsOpen, ReplyIsFinal
  <2>6. QED
    BY <2>1, <2>5 DEF y
<1>5. CASE ModelReplies(t)
  <2>1. PICK content \in Contents :
          turn' = [turn EXCEPT ![t] = IF x.agent = "sales" THEN SalesConclusion(x)
                                      ELSE HrConclusion(x, content)]
    BY <1>5 DEF ModelReplies, TypeOK
  <2>2. x.pc = "model"
    BY <1>5 DEF ModelReplies, At
  <2>3. CASE x.agent = "sales"
    BY <1>2, <2>1, <2>2, <2>3, SalesSettles
  <2>4. CASE x.agent = "hr"
    BY <1>2, <2>1, <2>2, <2>4, HrConclusionSettles
  <2>5. QED
    BY <1>3, <2>3, <2>4
<1>6. CASE RoundLimit(t)
  <2>1. turn' = [turn EXCEPT ![t] =
          IF x.agent = "sales" THEN SalesLimit(x)
          ELSE Answered(x, Say("unverified"), x.draft, x.sources)]
    BY <1>6 DEF RoundLimit, TypeOK
  <2>2. x.pc = "model"
    BY <1>6 DEF RoundLimit, At
  <2>3. CASE x.agent = "sales"
    BY <1>2, <2>1, <2>2, <2>3, SalesSettles
  <2>4. CASE x.agent = "hr"
    <3>1. /\ x.draft \in BOOLEAN /\ x.sources \in SUBSET Sources
          /\ x.made = IF x.draft THEN 1 ELSE 0
          /\ x.search # "UNAVAILABLE"
      BY <1>2, <2>2, <2>4 DEF TurnState, LoopIsOpen
    <3>2. Settles(x, Answered(x, Say("unverified"), x.draft, x.sources))
      BY <1>2, <3>1, SayIsReply, AnswerSettles
    <3>3. QED
      BY <2>1, <2>4, <3>2
  <2>5. QED
    BY <1>3, <2>3, <2>4
<1>7. ASSUME NEW tool \in HrTools \union SalesTools, CallTool(t, tool)
      PROVE  \E y : Settles(x, y) /\ turn' = [turn EXCEPT ![t] = y]
  <2>1. x.pc = "tool" /\ x.calls > 0 /\ tool \in Tools(x)
    BY <1>7 DEF CallTool, TypeOK, At
  <2>2. CASE x.agent = "sales"
    <3>1. PICK z \in SalesToolResults(x, tool) :
            turn' = [turn EXCEPT ![t] = [z EXCEPT !.pc = Pc(z)]]
      BY <1>7, <2>2 DEF CallTool
    <3>2. tool \in SalesTools
      BY <2>1, <2>2 DEF Tools
    <3>3. Settles(x, [z EXCEPT !.pc = Pc(z)])
      BY <1>2, <2>1, <2>2, <3>2, SalesToolSettles
    <3>4. QED
      BY <3>1, <3>3
  <2>3. CASE x.agent = "hr"
    <3>1. PICK z \in HrToolResults(x, tool) : turn' = [turn EXCEPT ![t] = Conclude(z)]
      BY <1>7, <2>3 DEF CallTool
    <3>2. tool \in HrTools
      BY <2>1, <2>3 DEF Tools
    <3>3. ToolLeft(x, z)
      BY <1>2, <2>1, <2>3, <3>2, HrToolLeaves
    <3>4. Settles(x, Conclude(z))
      BY <1>2, <2>3, <3>3, ConcludeSettles
    <3>5. QED
      BY <3>1, <3>4
  <2>4. QED
    BY <1>3, <2>2, <2>3
<1>8. QED
  BY <1>4, <1>5, <1>6, <1>7

(* A turn begins with nothing known and nothing made. *)
LEMMA FreshSettles ==
  ASSUME TypeOK, NEW u \in Users, NEW agent \in {"hr", "sales"}
  PROVE  LET y == Fresh(u, agent) IN
         /\ y \in TurnState /\ y.pc = "model" /\ y.calls = 0
         /\ LoopIsOpen(y) /\ ReplyIsFinal(y)
<1>1. History(u, agent) \in Nat
  BY DEF History, TypeOK
<1>2. 0 \in 0..Rounds /\ 0 \in 0..MaxCalls
  BY DEF Rounds
<1>3. Fresh(u, agent) \in TurnState
  BY <1>1, <1>2 DEF Fresh, TurnState
<1>4. QED
  BY <1>3 DEF Fresh, LoopIsOpen, ReplyIsFinal, Searches

(* Types and turns are kept by each step. *)
LEMMA TurnsStep == TypeOK /\ TurnsFit /\ [Next]_vars => TypeOK' /\ TurnsFit'
<1> SUFFICES ASSUME TypeOK, TurnsFit, [Next]_vars
             PROVE  TypeOK' /\ TurnsFit'
  OBVIOUS
<1>1. ASSUME NEW t \in Turns, NEW u \in Users, NEW agent \in {"hr", "sales"}, Begin(t, u, agent)
      PROVE  TypeOK' /\ TurnsFit'
  <2> DEFINE y == Fresh(u, agent)
  <2>1. /\ y \in TurnState /\ y.pc = "model" /\ y.calls = 0
        /\ LoopIsOpen(y) /\ ReplyIsFinal(y)
    BY FreshSettles
  <2>2. turn' = [turn EXCEPT ![t] = y] /\ UNCHANGED Store
    BY <1>1 DEF Begin
  <2> HIDE DEF y
  <2>3. QED
    BY <2>1, <2>2 DEF TypeOK, TurnsFit, At, Store
<1>2. ASSUME NEW t \in Turns,
             \/ ModelCalls(t) \/ ModelReplies(t) \/ RoundLimit(t)
             \/ \E tool \in HrTools \union SalesTools : CallTool(t, tool)
      PROVE  TypeOK' /\ TurnsFit'
  <2>1. PICK y \in TurnState : Settles(turn[t], y) /\ turn' = [turn EXCEPT ![t] = y]
    BY <1>2, LoopSettles
  <2>2. UNCHANGED Store
    BY <1>2, LoopSettles
  <2>3. QED
    BY <2>1, <2>2 DEF TypeOK, TurnsFit, At, Store, Settles
<1>3. ASSUME NEW t \in Turns, Fail(t), UNCHANGED Store PROVE TypeOK' /\ TurnsFit'
  BY <1>3 DEF Fail, TypeOK, TurnsFit, At, Store
<1>4. ASSUME NEW t \in Turns, Persist(t) PROVE TypeOK' /\ TurnsFit'
  <2> DEFINE x == turn[t]
             y == [x EXCEPT !.pc = "respond"]
  <2>1. /\ x \in TurnState /\ x.pc = "persist" /\ x.user \in Users /\ ReplyIsFinal(x)
    BY <1>4 DEF Persist, At, TypeOK, TurnsFit, TurnState
  <2>2. turn' = [turn EXCEPT ![t] = y]
    BY <1>4 DEF Persist, TypeOK
  <2>3. /\ y \in TurnState
        /\ y.pc = "respond" /\ y.made = x.made /\ y.offered = x.offered /\ y.agent = x.agent
        /\ y.reply = x.reply /\ y.search = x.search /\ y.sources = x.sources /\ y.shown = x.shown
    BY <2>1 DEF TurnState
  <2> HIDE DEF y
  <2>4. LoopIsOpen(y) /\ ReplyIsFinal(y)
    BY <2>1, <2>3 DEF LoopIsOpen, ReplyIsFinal, ReplyIsGrounded
  <2>5. TurnsFit'
    BY <2>2, <2>4 DEF TurnsFit, TypeOK
  <2>6. /\ rows' \in [Users -> Nat] /\ count' \in [Users -> Nat]
        /\ messages' \in [Users -> Nat] /\ answers' \in [Users -> Nat]
    BY <1>4, <2>1 DEF Persist, TypeOK
  <2>7. QED
    BY <2>2, <2>3, <2>5, <2>6 DEF TypeOK, At
<1>5. ASSUME NEW t \in Turns, Respond(t) PROVE TypeOK' /\ TurnsFit'
  <2>1. turn[t].user \in Users
    BY <1>5 DEF Respond, At, TypeOK, TurnState
  <2>2. answers' \in [Users -> Nat]
    BY <1>5, <2>1 DEF Respond, TypeOK
  <2>3. QED
    BY <1>5, <2>2 DEF Respond, Fail, TypeOK, TurnsFit, At
<1>6. CASE Crash
  BY <1>6 DEF Crash, TypeOK, TurnsFit, At, Store
<1>7. CASE UNCHANGED vars
  BY <1>7 DEF vars, TypeOK, TurnsFit, At
<1>8. QED
  BY <1>1, <1>2, <1>3, <1>4, <1>5, <1>6, <1>7
     DEF Next, Run, ModelFails, ToolFails, PersistFails, SalesResponds, RespondFails

(* Cardinalities of finite sets, in the form they are used below. *)
LEMMA SubsetCardinality ==
  ASSUME NEW S, IsFiniteSet(S), NEW T, T \subseteq S
  PROVE  /\ IsFiniteSet(T)
         /\ Cardinality(T) \in Nat /\ Cardinality(S) \in Nat
         /\ Cardinality(T) <= Cardinality(S)
BY FS_Subset, FS_CardinalityType

LEMMA AddedCardinality ==
  ASSUME NEW S, IsFiniteSet(S), NEW x, NEW T, T \subseteq S \union {x}
  PROVE  Cardinality(T) \in Nat /\ Cardinality(T) <= Cardinality(S) + 1
<1>1. /\ IsFiniteSet(S \union {x})
      /\ Cardinality(S \union {x}) = IF x \in S THEN Cardinality(S) ELSE Cardinality(S) + 1
  BY FS_AddElement
<1>2. Cardinality(T) \in Nat /\ Cardinality(T) <= Cardinality(S \union {x})
  BY <1>1, SubsetCardinality
<1>3. Cardinality(S) \in Nat
  BY FS_CardinalityType
<1>4. QED
  BY <1>1, <1>2, <1>3

LEMMA RemovedCardinality ==
  ASSUME NEW S, IsFiniteSet(S), NEW x \in S, NEW T, T \subseteq S \ {x}
  PROVE  Cardinality(T) \in Nat /\ Cardinality(T) <= Cardinality(S) - 1
<1>1. /\ IsFiniteSet(S \ {x})
      /\ Cardinality(S \ {x}) = Cardinality(S) - 1
  BY FS_RemoveElement
<1>2. QED
  BY <1>1, SubsetCardinality

(* A turn that is stored is counted at once and answered once at most. *)
LEMMA CountsStep ==
  TypeOK /\ TurnsFit /\ ConversationCounts /\ [Next]_vars => ConversationCounts'
<1> SUFFICES ASSUME TypeOK, TurnsFit, ConversationCounts, [Next]_vars
             PROVE  ConversationCounts'
  OBVIOUS
<1>1. \A u \in Users : IsFiniteSet(Responding(u)) /\ Cardinality(Responding(u)) \in Nat
  BY FS_Subset, FS_CardinalityType DEF Responding
<1>2. ASSUME UNCHANGED Store, \A u \in Users : Responding(u)' \subseteq Responding(u)
      PROVE  ConversationCounts'
  <2>1. ASSUME NEW u \in Users
        PROVE  /\ Cardinality(Responding(u)') <= Cardinality(Responding(u))
               /\ Cardinality(Responding(u)') \in Nat
    BY <1>1, <1>2, FS_Subset, FS_CardinalityType
  <2>2. QED
    BY <1>1, <1>2, <2>1 DEF ConversationCounts, Store, TypeOK
<1>3. ASSUME NEW t \in Turns, NEW u \in Users, NEW agent \in {"hr", "sales"}, Begin(t, u, agent)
      PROVE  ConversationCounts'
  <2>1. turn' = [turn EXCEPT ![t] = Fresh(u, agent)] /\ UNCHANGED Store
    BY <1>3 DEF Begin
  <2>2. Fresh(u, agent).pc = "model"
    BY DEF Fresh
  <2>3. \A v \in Users : Responding(v)' \subseteq Responding(v)
    BY <2>1, <2>2 DEF Responding, At, TypeOK
  <2>4. QED
    BY <1>2, <2>1, <2>3
<1>4. ASSUME NEW t \in Turns,
             \/ ModelCalls(t) \/ ModelReplies(t) \/ RoundLimit(t)
             \/ \E tool \in HrTools \union SalesTools : CallTool(t, tool)
      PROVE  ConversationCounts'
  <2>1. PICK y \in TurnState : Settles(turn[t], y) /\ turn' = [turn EXCEPT ![t] = y]
    BY <1>4, LoopSettles
  <2>2. \A v \in Users : Responding(v)' \subseteq Responding(v)
    BY <2>1 DEF Responding, At, TypeOK, Settles
  <2>3. QED
    BY <1>2, <1>4, <2>2, LoopSettles
<1>5. ASSUME NEW t \in Turns, Fail(t), UNCHANGED Store PROVE ConversationCounts'
  <2>1. \A v \in Users : Responding(v)' \subseteq Responding(v)
    BY <1>5 DEF Fail, Responding, At, TypeOK
  <2>2. QED
    BY <1>2, <1>5, <2>1
<1>6. ASSUME NEW t \in Turns, Persist(t) PROVE ConversationCounts'
  <2>0. /\ turn[t] \in TurnState /\ turn[t].pc = "persist" /\ turn[t].user \in Users
    BY <1>6 DEF Persist, At, TypeOK, TurnState
  <2>1. PICK u \in Users : turn[t].user = u
    BY <2>0
  <2>2. /\ turn' = [turn EXCEPT ![t] = [turn[t] EXCEPT !.pc = "respond"]]
        /\ [turn[t] EXCEPT !.pc = "respond"].user = u
    BY <1>6, <2>0, <2>1 DEF Persist, TypeOK, TurnState
  <2>3. Responding(u)' \subseteq Responding(u) \union {t}
    BY <2>0, <2>1, <2>2 DEF Responding, At, TypeOK
  <2>4. \A v \in Users \ {u} : Responding(v)' \subseteq Responding(v)
    BY <2>0, <2>1, <2>2 DEF Responding, At, TypeOK
  <2>5. /\ Cardinality(Responding(u)') <= Cardinality(Responding(u)) + 1
        /\ Cardinality(Responding(u)') \in Nat
    BY <1>1, <2>1, <2>3, AddedCardinality
  <2>6. ASSUME NEW v \in Users \ {u}
        PROVE  /\ Cardinality(Responding(v)') <= Cardinality(Responding(v))
               /\ Cardinality(Responding(v)') \in Nat
    BY <1>1, <2>4, FS_Subset, FS_CardinalityType
  <2>7. /\ rows' = [rows EXCEPT ![u] = IF @ = 0 THEN 1 ELSE @]
        /\ count' = [count EXCEPT ![u] = @ + 1]
        /\ messages' = [messages EXCEPT ![u] = @ + 1]
        /\ answers' = answers
    BY <1>6, <2>1 DEF Persist
  <2>8. ASSUME NEW v \in Users
        PROVE  /\ rows'[v] = IF messages'[v] = 0 THEN 0 ELSE 1
               /\ count'[v] = messages'[v]
               /\ answers'[v] + Cardinality(Responding(v)') <= messages'[v]
    <3>1. /\ rows[v] = IF messages[v] = 0 THEN 0 ELSE 1
          /\ count[v] = messages[v]
          /\ answers[v] + Cardinality(Responding(v)) <= messages[v]
          /\ messages[v] \in Nat /\ answers[v] \in Nat
      BY DEF ConversationCounts, TypeOK
    <3>2. CASE v = u
      <4>1. /\ rows'[v] = 1 /\ count'[v] = messages[v] + 1
            /\ messages'[v] = messages[v] + 1 /\ answers'[v] = answers[v]
        BY <2>7, <3>1, <3>2 DEF TypeOK
      <4>2. QED
        BY <1>1, <2>5, <3>1, <3>2, <4>1
    <3>3. CASE v # u
      <4>1. /\ rows'[v] = rows[v] /\ count'[v] = count[v]
            /\ messages'[v] = messages[v] /\ answers'[v] = answers[v]
        BY <2>1, <2>7, <3>3 DEF TypeOK
      <4>2. QED
        BY <1>1, <2>6, <3>1, <3>3, <4>1
    <3>4. QED
      BY <3>2, <3>3
  <2>9. QED
    BY <2>8 DEF ConversationCounts
<1>7. ASSUME NEW t \in Turns, Respond(t) PROVE ConversationCounts'
  <2>1. PICK u \in Users : turn[t].user = u /\ t \in Responding(u)
    <3>1. At(t, "respond") /\ turn[t] \in TurnState
      BY <1>7 DEF Respond, At, TypeOK
    <3>2. QED
      BY <3>1 DEF TurnState, Responding
  <2>2. turn' = [turn EXCEPT ![t] = None]
    BY <1>7 DEF Respond, Fail
  <2>3. Responding(u)' \subseteq Responding(u) \ {t}
    BY <2>2 DEF Responding, At, TypeOK
  <2>4. \A v \in Users : Responding(v)' \subseteq Responding(v)
    BY <2>2 DEF Responding, At, TypeOK
  <2>5. /\ Cardinality(Responding(u)') <= Cardinality(Responding(u)) - 1
        /\ Cardinality(Responding(u)') \in Nat
    BY <1>1, <2>1, <2>3, RemovedCardinality
  <2>6. ASSUME NEW v \in Users
        PROVE  /\ Cardinality(Responding(v)') <= Cardinality(Responding(v))
               /\ Cardinality(Responding(v)') \in Nat
    BY <1>1, <2>4, FS_Subset, FS_CardinalityType
  <2>7. answers' = [answers EXCEPT ![u] = @ + 1] /\ UNCHANGED <<rows, count, messages>>
    BY <1>7, <2>1 DEF Respond
  <2>8. ASSUME NEW v \in Users
        PROVE  answers'[v] + Cardinality(Responding(v)') <= messages[v]
    <3>1. /\ answers[v] + Cardinality(Responding(v)) <= messages[v]
          /\ messages[v] \in Nat /\ answers[v] \in Nat
      BY DEF ConversationCounts, TypeOK
    <3>2. answers'[v] = IF v = u THEN answers[v] + 1 ELSE answers[v]
      BY <2>7 DEF TypeOK
    <3>3. QED
      BY <1>1, <2>1, <2>5, <2>6, <3>1, <3>2
  <2>9. QED
    BY <2>7, <2>8 DEF ConversationCounts
<1>8. CASE Crash
  <2>1. \A v \in Users : Responding(v)' \subseteq Responding(v)
    BY <1>8 DEF Crash, Responding, At
  <2>2. QED
    BY <1>2, <1>8, <2>1 DEF Crash
<1>9. CASE UNCHANGED vars
  <2>1. \A v \in Users : Responding(v)' \subseteq Responding(v)
    BY <1>9 DEF vars, Responding, At
  <2>2. QED
    BY <1>2, <1>9, <2>1 DEF vars, Store
<1>10. QED
  BY <1>3, <1>4, <1>5, <1>6, <1>7, <1>8, <1>9
     DEF Next, Run, ModelFails, ToolFails, PersistFails, SalesResponds, RespondFails

(* The invariant holds from the start and no step leaves it. *)
THEOREM Inductive == Spec => [](TypeOK /\ IInv)
<1>1. Init => TypeOK /\ IInv
  <2> SUFFICES ASSUME Init PROVE TypeOK /\ IInv
    OBVIOUS
  <2>1. TypeOK /\ TurnsFit
    BY DEF Init, TypeOK, TurnsFit, At
  <2>2. \A u \in Users : Responding(u) = {}
    BY DEF Init, Responding, At
  <2>3. ConversationCounts
    BY <2>2, FS_EmptySet DEF Init, ConversationCounts
  <2>4. QED
    BY <2>1, <2>3 DEF IInv, TurnsFit
<1>2. TypeOK /\ IInv /\ [Next]_vars => TypeOK' /\ IInv'
  BY TurnsStep, CountsStep DEF IInv, TurnsFit
<1>3. QED
  BY <1>1, <1>2, PTL DEF Spec

(* Turns and counters keep their form. *)
THEOREM TypeCorrect == Spec => []TypeOK
BY Inductive, PTL

(* A policy is stated on sources of this turn's last search only, and a    *)
(* turn whose retrieval was down says so.                                  *)
THEOREM GroundedReplies == Spec => []RepliesAreGrounded
<1>1. TypeOK /\ IInv => RepliesAreGrounded
  BY DEF IInv, ReplyIsFinal, RepliesAreGrounded, Replied
<1>2. QED
  BY <1>1, Inductive, PTL

(* A turn commits one draft at most and offers it when it is answered. *)
THEOREM OfferedDrafts == Spec => []DraftsAreOffered
<1>1. TypeOK /\ IInv => DraftsAreOffered
  <2> SUFFICES ASSUME TypeOK, IInv, NEW t \in Turns, turn[t] # None
               PROVE  /\ turn[t].made <= 1
                      /\ Replied(t) => (turn[t].offered <=> turn[t].made = 1)
    BY DEF DraftsAreOffered
  <2>1. /\ turn[t].pc \in {"model", "tool", "persist", "respond"}
        /\ turn[t].offered \in BOOLEAN
        /\ LoopIsOpen(turn[t]) /\ ReplyIsFinal(turn[t])
    BY DEF TypeOK, IInv, TurnState
  <2>2. QED
    BY <2>1 DEF LoopIsOpen, ReplyIsFinal, Replied
<1>2. QED
  BY <1>1, Inductive, PTL

(* Turns that overlap end in one conversation that counts them all. *)
THEOREM WholeConversation == Spec => []ConversationIsWhole
<1>1. TypeOK /\ IInv => ConversationIsWhole
  <2> SUFFICES ASSUME TypeOK, IInv, NEW u \in Users
               PROVE  answers[u] <= messages[u]
    BY DEF ConversationIsWhole, IInv, ConversationCounts
  <2>1. Cardinality(Responding(u)) \in Nat
    BY FS_Subset, FS_CardinalityType DEF Responding
  <2>2. QED
    BY <2>1 DEF IInv, ConversationCounts, TypeOK
<1>2. QED
  BY <1>1, Inductive, PTL
=============================================================================
