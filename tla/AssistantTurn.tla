---------------------------- MODULE AssistantTurn ----------------------------
(***************************************************************************)
(* One turn of the employee assistant (app/core/agent/hr_agent.py,         *)
(* app/services/assistant_service.py, app/api/assistant.py) or of the      *)
(* sales assistant (app/core/agent/business_agent.py, app/api/business.py):*)
(* a loop of at most three rounds of model reply and tool calls, a draft   *)
(* the tools may commit on the way, and, for the employee assistant, the   *)
(* conversation in which the turn is persisted at its end.                 *)
(*                                                                         *)
(* The endpoints are coroutines on one event loop: turns interleave at     *)
(* every await (the model, a tool) and nowhere else.  What the model says  *)
(* is arbitrary.                                                           *)
(***************************************************************************)
EXTENDS Naturals, FiniteSets

CONSTANTS
  Turns,     \* requests that may be in flight at the same time
  Users,     \* authenticated users
  Drafters,  \* users with a role that may prepare changes in the CRM
  Sources,   \* ids of knowledge items and chunks a search may return
  MaxCalls,  \* bound on the tool calls of one model reply
  MaxTurns,  \* bound on the turns of one conversation
  None

(* The status of search_knowledge. *)
Searches == {"OK", "NO_RESULTS", "UNAVAILABLE"}

ASSUME TurnAssumption ==
  /\ Drafters \subseteq Users
  /\ MaxCalls \in Nat \ {0} /\ MaxTurns \in Nat
  /\ IsFiniteSet(Turns)
  /\ None \notin Searches

VARIABLES
  turn,     \* the state of each turn, None when it has ended
  rows,     \* Conversation rows of each user, for one session id
  count,    \* Conversation.message_count
  messages, \* turns whose two Message rows are stored
  answers   \* history: turns of a conversation that were answered

vars == <<turn, rows, count, messages, answers>>

Rounds == 3

HrTools == {"search", "clarify", "draft", "status", "unknown"}
SalesTools == {"search", "read", "draft", "unknown"}
Tools(x) == IF x.agent = "sales" THEN SalesTools ELSE HrTools

(* The text of a model reply without tool calls: empty, without a source   *)
(* citation, with a broken one, or with the citations of some ids, which   *)
(* may be of sources the search did not return.                            *)
Contents == [form: {"empty", "bare", "broken"}, cites: {{}}]
              \union [form: {"cited"}, cites: (SUBSET Sources) \ {{}}]

Canned == [kind: {"clarify", "pending", "unverified", "unavailable", "status", "limit",
                  "free"}, cites: {{}}]
Replies == Canned \union [kind: {"policy"}, cites: SUBSET Sources]
Say(kind) == [kind |-> kind, cites |-> {}]

Init ==
  /\ turn = [t \in Turns |-> None]
  /\ rows = [u \in Users |-> 0]
  /\ count = [u \in Users |-> 0]
  /\ messages = [u \in Users |-> 0]
  /\ answers = [u \in Users |-> 0]

At(t, pc) == turn[t] # None /\ turn[t].pc = pc

Store == <<rows, count, messages, answers>>

(* The loop ends with a reply, and with the draft that goes with it; its   *)
(* counters and flags go out of scope.                                     *)
Answered(x, reply, draft, sources) ==
  [x EXCEPT !.pc = "persist", !.reply = reply, !.offered = draft, !.shown = sources,
            !.round = 0, !.calls = 0, !.clarify = FALSE, !.status = FALSE,
            !.draft = FALSE, !.attempted = FALSE]

(* 503: nothing of the turn is persisted but the draft, if there is one. *)
Fail(t) == turn' = [turn EXCEPT ![t] = None]

----------------------------------------------------------------------------
(* load_history: the turns the model is shown. *)
History(u, agent) == IF agent = "hr" THEN messages[u] ELSE 0

(* The runtime set_hr_runtime makes for a turn, nothing kept from others. *)
Fresh(u, agent) ==
  [agent |-> agent, user |-> u, pc |-> "model", round |-> 0, calls |-> 0,
   history |-> History(u, agent), clarify |-> FALSE, draft |-> FALSE, made |-> 0,
   attempted |-> FALSE, search |-> None, sources |-> {}, status |-> FALSE,
   reply |-> None, offered |-> FALSE, shown |-> {}]

(* chat, up to the first call of the model. *)
Begin(t, u, agent) ==
  /\ turn[t] = None
  /\ agent = "hr" => messages[u] < MaxTurns
  /\ turn' = [turn EXCEPT ![t] = Fresh(u, agent)]
  /\ UNCHANGED Store

(* Mutant: a reply with citations of its own is given the others as well.  *)
RenderedAnyway(content, sources) ==
  IF content.form \in {"empty", "broken"} \/ sources = {} THEN Say("unverified")
  ELSE [kind |-> "policy", cites |-> content.cites \union sources]

(* _render_authorized_citations: own citations must all be authorized, a   *)
(* reply without any is given those of the sources.                        *)
Rendered(content, sources) ==
  IF content.form \in {"empty", "broken"} \/ sources = {} THEN Say("unverified")
  ELSE IF content.form = "bare" THEN [kind |-> "policy", cites |-> sources]
  ELSE IF content.cites \subseteq sources
  THEN [kind |-> "policy", cites |-> content.cites]
  ELSE Say("unverified")

(* A model reply without tool calls ends the turn of the employee. *)
HrConclusion(x, content) ==
  IF x.clarify THEN Answered(x, Say("clarify"), x.draft, x.sources)
  ELSE IF x.draft THEN Answered(x, Say("pending"), TRUE, x.sources)
  ELSE IF ~x.attempted \/ x.sources = {}
  THEN Answered(x, Say("unverified"), FALSE, x.sources)
  ELSE Answered(x, Rendered(content, x.sources), FALSE, x.sources)

(* The sales assistant passes the text on, with the draft of the turn, and *)
(* has a reply of its own for a turn that takes too long.                  *)
SalesConclusion(x) == Answered(x, Say("free"), x.draft, {})
SalesLimit(x) == Answered(x, Say("limit"), x.draft, {})

(* Mutant: rounds are not counted. *)
ModelRepliesForever(t) ==
  /\ At(t, "model")
  /\ turn[t].round < Rounds
  /\ \E n \in 1..MaxCalls :
       turn' = [turn EXCEPT ![t].pc = "tool", ![t].calls = n]
  /\ UNCHANGED Store

(* llm.ainvoke answers with tool calls: their number is fixed here, which  *)
(* tools they name is left to CallTool... *)
ModelCalls(t) ==
  /\ At(t, "model")
  /\ turn[t].round < Rounds
  /\ \E n \in 1..MaxCalls :
       turn' = [turn EXCEPT ![t].pc = "tool", ![t].calls = n, ![t].round = @ + 1]
  /\ UNCHANGED Store

(* ... or with a text ... *)
ModelReplies(t) ==
  /\ At(t, "model")
  /\ turn[t].round < Rounds
  /\ \E content \in Contents :
       turn' = [turn EXCEPT ![t] = IF turn[t].agent = "sales" THEN SalesConclusion(@)
                                   ELSE HrConclusion(@, content)]
  /\ UNCHANGED Store

(* ... or raises: a timeout, or an error of the provider. *)
ModelFails(t) ==
  /\ At(t, "model")
  /\ turn[t].round < Rounds
  /\ Fail(t)
  /\ UNCHANGED Store

(* Mutant: the round limit returns no draft. *)
RoundLimitForgets(t) ==
  /\ At(t, "model")
  /\ turn[t].round = Rounds
  /\ turn' = [turn EXCEPT ![t] = Answered(@, Say("limit"), FALSE, {})]
  /\ UNCHANGED Store

(* Three rounds are over without a conclusion. *)
RoundLimit(t) ==
  /\ At(t, "model")
  /\ turn[t].round = Rounds
  /\ turn' = [turn EXCEPT ![t] =
       IF turn[t].agent = "sales" THEN SalesLimit(@)
       ELSE Answered(@, Say("unverified"), @.draft, @.sources)]
  /\ UNCHANGED Store

----------------------------------------------------------------------------
(* What search_hr_knowledge keeps of an answer of search_knowledge: results*)
(* without an id are dropped, and only the last search counts.             *)
Searched(x, status, found) ==
  [x EXCEPT !.attempted = TRUE, !.search = status,
            !.sources = IF status = "OK" THEN found ELSE {}]

(* draft_handoff and the draft tools of sales: a commit of its own, and    *)
(* one per turn.                                                           *)
Drafted(x) == IF x.draft THEN x ELSE [x EXCEPT !.draft = TRUE, !.made = @ + 1]

(* What the turn may be after a tool call. *)
HrToolResults(x, tool) ==
  LET y == [x EXCEPT !.calls = @ - 1] IN
  CASE tool = "search" ->
         {Searched(y, "OK", found) : found \in SUBSET Sources}
           \union {Searched(y, s, {}) : s \in {"NO_RESULTS", "UNAVAILABLE"}}
    [] tool = "clarify" -> {[y EXCEPT !.clarify = TRUE]}
    [] tool = "draft" ->
         {IF y.search = "UNAVAILABLE" THEN y ELSE Drafted(y)}
    [] tool = "status" -> {[y EXCEPT !.status = TRUE]}
    [] OTHER -> {y}

SalesToolResults(x, tool) ==
  LET y == [x EXCEPT !.calls = @ - 1] IN
  CASE tool = "draft" /\ x.user \in Drafters ->
         {Drafted(y), y} \* the command may be refused by create_draft
    [] OTHER -> {y}

Pc(x) == IF x.calls = 0 THEN "model" ELSE "tool"

(* The early returns after each tool of the employee assistant. *)
Conclude(x) ==
  IF x.search = "UNAVAILABLE" THEN Answered(x, Say("unavailable"), FALSE, {})
  ELSE IF x.clarify THEN Answered(x, Say("clarify"), x.draft, x.sources)
  ELSE IF x.draft THEN Answered(x, Say("pending"), TRUE, x.sources)
  ELSE IF x.status THEN Answered(x, Say("status"), FALSE, x.sources)
  ELSE [x EXCEPT !.pc = Pc(x)]

CallTool(t, tool) ==
  /\ At(t, "tool")
  /\ tool \in Tools(turn[t])
  /\ IF turn[t].agent = "sales"
     THEN \E x \in SalesToolResults(turn[t], tool) :
            turn' = [turn EXCEPT ![t] = [x EXCEPT !.pc = Pc(x)]]
     ELSE \E x \in HrToolResults(turn[t], tool) :
            turn' = [turn EXCEPT ![t] = Conclude(x)]
  /\ UNCHANGED Store

(* The database refuses what a tool writes or reads. *)
ToolFails(t) ==
  /\ At(t, "tool")
  /\ Fail(t)
  /\ UNCHANGED Store

----------------------------------------------------------------------------
(* Mutant: the count is the one that was loaded with the history. *)
PersistLoaded(t) ==
  LET u == turn[t].user IN
  /\ At(t, "persist") /\ turn[t].agent = "hr"
  /\ rows' = [rows EXCEPT ![u] = IF turn[t].history = 0 THEN @ + 1 ELSE @]
  /\ count' = [count EXCEPT ![u] = turn[t].history + 1]
  /\ messages' = [messages EXCEPT ![u] = @ + 1]
  /\ turn' = [turn EXCEPT ![t].pc = "respond"]
  /\ UNCHANGED answers

(* persist_turn: from the SELECT to the commit without an await.  The      *)
(* session holds its objects weakly, so the row is read again, not taken   *)
(* from what load_history saw before the turn.                             *)
Persist(t) ==
  LET u == turn[t].user IN
  /\ At(t, "persist") /\ turn[t].agent = "hr"
  /\ rows' = [rows EXCEPT ![u] = IF @ = 0 THEN 1 ELSE @]
  /\ count' = [count EXCEPT ![u] = @ + 1]
  /\ messages' = [messages EXCEPT ![u] = @ + 1]
  /\ turn' = [turn EXCEPT ![t].pc = "respond"]
  /\ UNCHANGED answers

PersistFails(t) ==
  /\ At(t, "persist") /\ turn[t].agent = "hr"
  /\ Fail(t)
  /\ UNCHANGED Store

(* The sales assistant keeps no conversation. *)
SalesResponds(t) ==
  /\ At(t, "persist") /\ turn[t].agent = "sales"
  /\ Fail(t)
  /\ UNCHANGED Store

(* The response is made: the commit before it has expired the rows of the  *)
(* tenant, the user and the draft, and loading them again may fail.        *)
Respond(t) ==
  /\ At(t, "respond")
  /\ answers' = [answers EXCEPT ![turn[t].user] = @ + 1]
  /\ Fail(t)
  /\ UNCHANGED <<rows, count, messages>>

RespondFails(t) ==
  /\ At(t, "respond")
  /\ Fail(t)
  /\ UNCHANGED Store

(* The process dies. *)
Crash ==
  /\ \E t \in Turns : turn[t] # None
  /\ turn' = [t \in Turns |-> None]
  /\ UNCHANGED Store

Run(t) ==
  \/ ModelCalls(t) \/ ModelReplies(t) \/ ModelFails(t) \/ RoundLimit(t)
  \/ (\E tool \in HrTools \union SalesTools : CallTool(t, tool)) \/ ToolFails(t)
  \/ Persist(t) \/ PersistFails(t) \/ SalesResponds(t)
  \/ Respond(t) \/ RespondFails(t)

Next ==
  \/ \E t \in Turns, u \in Users, agent \in {"hr", "sales"} : Begin(t, u, agent)
  \/ \E t \in Turns : Run(t)
  \/ Crash

Spec == Init /\ [][Next]_vars

(* Every await ends: the model has a timeout (agent_timeout_seconds), a    *)
(* tool answers or raises.                                                 *)
FairSpec == Spec /\ \A t \in Turns : WF_vars(Run(t))

----------------------------------------------------------------------------
TurnState ==
  [agent: {"hr", "sales"}, user: Users, pc: {"model", "tool", "persist", "respond"}, round: 0..Rounds,
   calls: 0..MaxCalls, history: Nat,
   clarify: BOOLEAN, draft: BOOLEAN, made: Nat, attempted: BOOLEAN,
   search: Searches \union {None}, sources: SUBSET Sources, status: BOOLEAN,
   reply: Replies \union {None}, offered: BOOLEAN, shown: SUBSET Sources]

(* Every turn is in one of its states, and the model is not asked before   *)
(* the calls of its last reply are made.                                   *)
TypeOK ==
  /\ turn \in [Turns -> TurnState \union {None}]
  /\ \A t \in Turns : /\ At(t, "tool") => turn[t].calls > 0
                      /\ At(t, "model") => turn[t].calls = 0
  /\ rows \in [Users -> Nat] /\ count \in [Users -> Nat]
  /\ messages \in [Users -> Nat] /\ answers \in [Users -> Nat]

(* The turn has its reply. *)
Replied(t) == turn[t] # None /\ turn[t].pc \in {"persist", "respond"}

(* The reply of a turn of the employee assistant: one that states a policy *)
(* has sources, and when retrieval was down the turn says so.              *)
ReplyIsGrounded(x) ==
  x.agent = "hr" =>
    /\ x.reply.kind = "policy" =>
         /\ x.search = "OK"
         /\ x.reply.cites # {} /\ x.reply.cites \subseteq x.sources
         /\ x.shown = x.sources
    /\ x.search = "UNAVAILABLE" =>
         x.reply.kind = "unavailable" /\ x.shown = {} /\ ~x.offered

(* A reply that states a policy cites at least one source and only sources *)
(* the last search of this very turn returned, also when an earlier search *)
(* of the turn had returned others; and those are the sources shown.  When *)
(* retrieval was down the turn says so, shows no source of an earlier      *)
(* search and offers nothing.                                              *)
RepliesAreGrounded == \A t \in Turns : Replied(t) => ReplyIsGrounded(turn[t])

(* A turn commits at most one draft, whatever the model calls and however  *)
(* often, and once it is answered it offers the draft it has committed:    *)
(* only a turn that fails leaves a draft its user is not told of.          *)
DraftsAreOffered ==
  \A t \in Turns : turn[t] # None =>
    /\ turn[t].made <= 1
    /\ Replied(t) => (turn[t].offered <=> turn[t].made = 1)

(* Turns of one session that overlap end in one conversation, whose count  *)
(* is that of the turns it stores; every answered turn is among them.      *)
ConversationIsWhole ==
  \A u \in Users :
    /\ rows[u] = IF messages[u] = 0 THEN 0 ELSE 1
    /\ count[u] = messages[u]
    /\ answers[u] <= messages[u]

(* A turn ends after three rounds at most, however the model and the tools *)
(* answer.                                                                 *)
TurnsEnd == \A t \in Turns : turn[t] # None ~> turn[t] = None

----------------------------------------------------------------------------
(* The inductive invariant behind the three safety properties. *)

(* While the loop runs, the draft of the turn is the one it has committed; *)
(* and each tool of the employee assistant that ends the turn has not been *)
(* called yet, so nothing is known but the sources of a search that found  *)
(* some.                                                                   *)
LoopIsOpen(x) ==
  x.pc \in {"model", "tool"} =>
    /\ x.made = IF x.draft THEN 1 ELSE 0
    /\ x.agent = "hr" =>
         /\ ~x.clarify /\ ~x.draft /\ ~x.status
         /\ x.search # "UNAVAILABLE"
         /\ x.sources # {} => x.search = "OK"

(* A reply and its draft go together. *)
ReplyIsFinal(x) ==
  x.pc \in {"persist", "respond"} =>
    /\ x.made = IF x.offered THEN 1 ELSE 0
    /\ ReplyIsGrounded(x)

(* The turns that are stored and not answered yet. *)
Responding(u) == {t \in Turns : At(t, "respond") /\ turn[t].user = u}

ConversationCounts ==
  \A u \in Users :
    /\ rows[u] = IF messages[u] = 0 THEN 0 ELSE 1
    /\ count[u] = messages[u]
    /\ answers[u] + Cardinality(Responding(u)) <= messages[u]

IInv ==
  /\ \A t \in Turns : turn[t] # None => LoopIsOpen(turn[t]) /\ ReplyIsFinal(turn[t])
  /\ ConversationCounts
=============================================================================
