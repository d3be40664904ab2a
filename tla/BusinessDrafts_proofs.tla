------------------------ MODULE BusinessDrafts_proofs ------------------------
(***************************************************************************)
(* Theorems about BusinessDrafts, for any number of members, leads, drafts *)
(* and keys, and any number of confirmations that run at the same time.    *)
(***************************************************************************)
EXTENDS BusinessDrafts, FiniteSetTheorems, TLAPS

USE DraftsAssumption

LEMMA CommandShape ==
  ASSUME NEW c \in Commands
  PROVE  /\ c.action \in {"create_lead", "update_lead", "create_follow_up_task"}
         /\ c.lead \in Companies
         /\ c.action = "create_lead" => c.owner \in Users \union {None}
         /\ c.action = "update_lead" => /\ c.owner \in Users \union {None}
                                        /\ c.stage \in Stages \union {None}
BY DEF Command

(* An UPDATE writes what was asked for or leaves what is stored. *)
LEMMA ColumnMerges ==
  ASSUME NEW asked, NEW loaded, NEW stored
  PROVE  LET column == Column(asked, loaded, stored) IN
         \/ column = stored
         \/ column = asked /\ asked # None
BY DEF Column

(* What a confirmation that is being worked on is about. *)
LEMMA WorkShape ==
  ASSUME TypeOK, InHand, NEW t \in Threads, pc[t] # "idle"
  PROVE  /\ req[t] \in Requests
         /\ req[t].user \in Users /\ req[t].draft \in Drafts /\ req[t].key \in Keys
         /\ draft[req[t].draft] \in Draft
         /\ draft[req[t].draft].command \in Commands
BY DEF TypeOK, InHand, Requests, Draft

(* The rows of AuditLog that the actions write. *)
LEMMA LogShape ==
  ASSUME NEW u \in Users, NEW d \in Drafts
  PROVE  /\ Log("failed", u, d) \in Audit
         /\ Log("draft_created", u, d) \in Audit
         /\ Log("rejected", u, None) \in Audit
BY DEF Log, Audit

LEMMA SuccessShape ==
  ASSUME NEW r \in Requests
  PROVE  LET a == [status |-> "success", actor |-> r.user, draft |-> r.draft, key |-> r.key]
         IN  /\ a \in Audit
             /\ a.status = "success" /\ a.actor = r.user
             /\ a.draft = r.draft /\ a.key = r.key
             /\ a.key # None /\ a.draft \in Drafts
<1>1. r.user \in Users /\ r.draft \in Drafts /\ r.key \in Keys
  BY DEF Requests
<1>2. QED
  BY <1>1 DEF Audit

(* A row that has a key tells of a success. *)
LEMMA KeyedIsSuccess ==
  ASSUME NEW a \in Audit
  PROVE  /\ a.key \in Keys \union {None}
         /\ a.key # None => a.status = "success"
         /\ a.status = "success" => a.draft \in Drafts
         /\ a.actor \in Users
BY DEF Audit

(* The lead after an action is a lead, unless a task leaves it as it is. *)
LEMMA LeadAfterShape ==
  ASSUME TypeOK, InHand, NEW t \in Threads, pc[t] = "commit"
  PROVE  LET c == draft[req[t].draft].command IN
         /\ c.action # "create_follow_up_task" => LeadAfter(t, c) \in Lead
         /\ c.action = "create_follow_up_task" => LeadAfter(t, c) = lead[c.lead]
<1> DEFINE c == draft[req[t].draft].command
<1>1. c \in Commands /\ req[t].user \in Users
  BY WorkShape
<1>2. c.lead \in Companies
  BY <1>1, CommandShape
<1>3. CASE c.action = "create_lead"
  <2>1. c.owner \in Users \union {None}
    BY <1>1, <1>3, CommandShape
  <2>2. QED
    BY <1>1, <1>3, <2>1 DEF LeadAfter, Lead, Stages
<1>4. CASE c.action = "update_lead"
  <2>1. lead[c.lead] # None
    BY <1>4 DEF InHand
  <2>2. lead[c.lead].owner \in Users /\ lead[c.lead].stage \in Stages
    BY <1>2, <2>1 DEF TypeOK, Lead
  <2>3. c.owner \in Users \union {None} /\ c.stage \in Stages \union {None}
    BY <1>1, <1>4, CommandShape
  <2>4. /\ Column(c.owner, seen[t].owner, lead[c.lead].owner) \in Users
        /\ Column(c.stage, seen[t].stage, lead[c.lead].stage) \in Stages
    BY <2>2, <2>3, ColumnMerges
  <2>5. QED
    BY <1>4, <2>4 DEF LeadAfter, Lead
<1>5. CASE c.action = "create_follow_up_task"
  BY <1>5 DEF LeadAfter
<1>6. QED
  BY <1>1, <1>3, <1>4, <1>5, CommandShape

----------------------------------------------------------------------------
(* Steps that write no row keep what the rows say. *)
LEMMA RowsKept ==
  ASSUME TypeOK, IInv, UNCHANGED tables
  PROVE  KeysAreUnique' /\ EffectsAreAudited'
BY DEF IInv, tables, KeysAreUnique, EffectsAreAudited, Successes

(* A row without a success, of a draft whose status it may give up. *)
LEMMA LoggedKept ==
  ASSUME TypeOK, IInv, NEW a \in Audit, a.key = None, a.status # "success",
         audits' = audits \union {a}, UNCHANGED <<lead, tasks>>,
         \A d \in Drafts :
           /\ draft[d] # None => /\ draft'[d] # None
                                 /\ draft'[d].command = draft[d].command
                                 /\ draft'[d].status \in {draft[d].status, "expired"}
           /\ draft[d] = None /\ draft'[d] # None => tasks[d] = 0 /\ Successes(d) = {}
  PROVE  KeysAreUnique' /\ EffectsAreAudited'
<1>1. \A d \in Drafts : Successes(d)' = Successes(d)
  BY DEF Successes
<1>2. KeysAreUnique'
  <2>1. IsFiniteSet(audits')
    BY FS_AddElement DEF IInv, KeysAreUnique
  <2>2. \A x, y \in audits' : x.key # None /\ x.key = y.key => x = y
    BY DEF IInv, KeysAreUnique
  <2>3. \A x \in audits' : x.status = "success" => x \in audits /\ x.draft \in Drafts
    BY KeyedIsSuccess DEF TypeOK
  <2>4. \A x \in audits' : x.status = "success" => draft'[x.draft] # None
    BY <2>3 DEF IInv, KeysAreUnique
  <2>5. QED
    BY <2>1, <2>2, <2>4 DEF KeysAreUnique
<1>3. EffectsAreAudited'
  <2> SUFFICES ASSUME NEW d \in Drafts
               PROVE  /\ tasks'[d] = IF draft'[d] # None
                                        /\ draft'[d].command.action = "create_follow_up_task"
                                     THEN Cardinality(Successes(d)) ELSE 0
                      /\ Successes(d) # {} => draft'[d].status # "pending"
    BY <1>1 DEF EffectsAreAudited
  <2>1. /\ tasks[d] = IF draft[d] # None
                         /\ draft[d].command.action = "create_follow_up_task"
                      THEN Cardinality(Successes(d)) ELSE 0
        /\ Successes(d) # {} => draft[d].status # "pending"
    BY DEF IInv, EffectsAreAudited
  <2>2. CASE draft[d] # None
    BY <2>1, <2>2
  <2>3. CASE draft[d] = None
    <3>1. Successes(d) = {}
      BY <2>3 DEF IInv, KeysAreUnique, Successes
    <3>2. QED
      BY <2>1, <2>3, <3>1, FS_EmptySet
  <2>4. QED
    BY <2>2, <2>3
<1>4. QED
  BY <1>2, <1>3

(* Answers rest on rows, and rows stay. *)
LEMMA RepliesKept ==
  ASSUME IInv, audits \subseteq audits', UNCHANGED replies
  PROVE  RepliesAreAudited'
BY DEF IInv, RepliesAreAudited

(* A replay answers with the row of the key, to the user who wrote it. *)
LEMMA ReplayKept ==
  ASSUME TypeOK, IInv, NEW t \in Threads, pc[t] # "idle",
         NEW a \in AuditOf(req[t]), a.actor = req[t].user,
         replies' = replies \union {[user |-> req[t].user, key |-> req[t].key, result |-> a]},
         UNCHANGED audits
  PROVE  RepliesAreAudited' /\ replies' \subseteq [user: Users, key: Keys, result: Audit]
<1>1. req[t].user \in Users /\ req[t].key \in Keys /\ a \in audits /\ a.key = req[t].key
  BY WorkShape DEF IInv, AuditOf
<1>2. a \in Audit
  BY <1>1 DEF TypeOK
<1>3. QED
  BY <1>1, <1>2 DEF TypeOK, IInv, RepliesAreAudited

(* A thread that has answered has nothing in hand, the others go on. *)
LEMMA ReturnKept ==
  ASSUME TypeOK, IInv, NEW t \in Threads, Return(t),
         \A u \in Threads \ {t} : pc[u] # "idle" =>
           LET d == req[u].draft IN
           /\ draft'[d] # None
           /\ draft'[d].command = draft[d].command
           /\ lock = u => lock' = u,
         UNCHANGED lead
  PROVE  InHand' /\ pc' \in [Threads -> Labels]
         /\ req' \in [Threads -> Requests \union {None}]
         /\ seen' \in [Threads -> Lead \union {None}]
<1>1. /\ pc' = [pc EXCEPT ![t] = "idle"]
      /\ req' = [req EXCEPT ![t] = None]
      /\ seen' = [seen EXCEPT ![t] = None]
  BY DEF Return
<1>2. InHand'
  <2> SUFFICES ASSUME NEW u \in Threads, pc'[u] # "idle"
               PROVE  LET c == draft'[req'[u].draft].command IN
                      /\ req'[u] \in Requests
                      /\ draft'[req'[u].draft] # None
                      /\ pc'[u] = "load" => c.action = "update_lead" /\ lead'[c.lead] # None
                      /\ pc'[u] = "insert" => c.action # "update_lead"
                      /\ pc'[u] = "commit" =>
                           IF c.action = "update_lead"
                           THEN lead'[c.lead] # None /\ seen'[u] # None
                           ELSE lock' = u /\ (c.action = "create_lead" => lead'[c.lead] = None)
    BY DEF InHand
  <2>1. /\ u # t /\ pc'[u] = pc[u] /\ req'[u] = req[u] /\ seen'[u] = seen[u]
    BY <1>1 DEF TypeOK
  <2>2. QED
    BY <2>1 DEF IInv, InHand
<1>3. QED
  BY <1>1, <1>2 DEF TypeOK, Labels

----------------------------------------------------------------------------
Good == TypeOK /\ IInv

LEMMA CreateDraftStep ==
  ASSUME Good, NEW u \in Users, NEW c \in Commands, NEW d \in Drafts, CreateDraft(u, c, d)
  PROVE  Good'
<1> USE DEF Good
<1>1. UNCHANGED <<lead, tasks, late, lock, pc, req, seen, replies>>
  BY DEF CreateDraft, threads
<1>2. PICK a \in Audit : a.key = None /\ a.status # "success" /\ audits' = audits \union {a}
  BY LogShape DEF CreateDraft, Log
<1>3. \/ draft' = draft
      \/ draft' = [draft EXCEPT ![d] = [actor |-> u, command |-> c, status |-> "pending"]]
  BY DEF CreateDraft
<1>4. draft[d] = None /\ tasks[d] = 0 /\ Successes(d) = {}
  BY DEF CreateDraft, IInv, EffectsAreAudited, KeysAreUnique, Successes
<1>5. [actor |-> u, command |-> c, status |-> "pending"] \in Draft
  BY DEF Draft
<1>6. \A e \in Drafts :
        /\ draft[e] # None => draft'[e] = draft[e]
        /\ draft[e] = None /\ draft'[e] # None => e = d
  BY <1>3, <1>4 DEF TypeOK
<1>7. TypeOK'
  BY <1>1, <1>2, <1>3, <1>5 DEF TypeOK
<1>8. InHand'
  BY SMTT(20), <1>1, <1>6, WorkShape DEF IInv, InHand
<1>9. KeysAreUnique' /\ EffectsAreAudited'
  BY <1>1, <1>2, <1>4, <1>6, LoggedKept
<1>10. RepliesAreAudited'
  BY <1>1, <1>2, RepliesKept
<1>11. QED
  BY <1>7, <1>8, <1>9, <1>10 DEF IInv

LEMMA DeadlineStep ==
  ASSUME Good, NEW d \in Drafts, Deadline(d)
  PROVE  Good'
<1> USE DEF Good
<1>1. UNCHANGED <<tables, lock, threads, replies>> /\ late' = late \union {d}
  BY DEF Deadline
<1>2. TypeOK'
  BY <1>1 DEF TypeOK, tables, threads
<1>3. InHand'
  BY <1>1 DEF IInv, InHand, tables, threads
<1>4. QED
  BY <1>1, <1>2, <1>3, RowsKept, RepliesKept DEF IInv, tables

LEMMA ConfirmStep ==
  ASSUME Good, NEW t \in Threads, NEW r \in Requests, Confirm(t, r)
  PROVE  Good'
<1> USE DEF Good
<1>1. /\ UNCHANGED <<tables, late, lock, seen, replies>>
      /\ req' = [req EXCEPT ![t] = r] /\ pc' = [pc EXCEPT ![t] = "lookup"]
      /\ draft[r.draft] # None
  BY DEF Confirm, Goto
<1>2. TypeOK'
  BY <1>1 DEF TypeOK, tables, Labels
<1>3. InHand'
  BY <1>1 DEF TypeOK, IInv, InHand, tables
<1>4. QED
  BY <1>1, <1>2, <1>3, RowsKept, RepliesKept DEF IInv, tables

(* A thread goes on to a statement that is no write of a lead or a task. *)
LEMMA MovesOn ==
  ASSUME Good, NEW t \in Threads, pc[t] # "idle",
         NEW label \in Labels \ {"idle", "load", "insert", "commit"}, Goto(t, label),
         lock' \in {lock, None}, lock' # lock => lock = t,
         UNCHANGED <<tables, late, req, seen, replies>>
  PROVE  Good'
<1> USE DEF Good
<1>1. pc' = [pc EXCEPT ![t] = label]
  BY DEF Goto
<1>2. TypeOK'
  BY <1>1 DEF TypeOK, tables
<1>3. InHand'
  BY <1>1 DEF TypeOK, IInv, InHand, tables
<1>4. QED
  BY <1>2, <1>3, RowsKept, RepliesKept DEF IInv, tables

(* A request ends and no row is written. *)
LEMMA GivesUp ==
  ASSUME Good, NEW t \in Threads, Return(t),
         lock' \in {lock, None}, lock' # lock => lock = t,
         UNCHANGED <<tables, late, replies>>
  PROVE  Good'
<1> USE DEF Good
<1>1. /\ InHand' /\ pc' \in [Threads -> Labels]
      /\ req' \in [Threads -> Requests \union {None}]
      /\ seen' \in [Threads -> Lead \union {None}]
  <2>1. \A u \in Threads \ {t} : pc[u] # "idle" =>
          LET d == req[u].draft IN
          /\ draft'[d] # None
          /\ draft'[d].command = draft[d].command
          /\ lock = u => lock' = u
    BY DEF tables, IInv, InHand
  <2>2. UNCHANGED lead
    BY DEF tables
  <2>3. QED
    BY <2>1, <2>2, ReturnKept
<1>2. TypeOK'
  BY <1>1 DEF TypeOK, tables
<1>3. QED
  BY <1>1, <1>2, RowsKept, RepliesKept DEF IInv, tables

(* A request is answered with the row of its key, or refused. *)
LEMMA Replays ==
  ASSUME Good, NEW t \in Threads, pc[t] # "idle",
         NEW a \in AuditOf(req[t]),
         IF a.actor = req[t].user THEN Reply(t, a) ELSE Return(t) /\ UNCHANGED replies,
         UNCHANGED <<tables, late, lock>>
  PROVE  Good'
<1> USE DEF Good
<1>1. CASE a.actor # req[t].user
  BY <1>1, GivesUp
<1>2. CASE a.actor = req[t].user
  <2>1. /\ Return(t)
        /\ replies' = replies \union {[user |-> req[t].user, key |-> req[t].key, result |-> a]}
    BY <1>2 DEF Reply
  <2>2. \A u \in Threads \ {t} : pc[u] # "idle" =>
          LET d == req[u].draft IN
          /\ draft'[d] # None
          /\ draft'[d].command = draft[d].command
          /\ lock = u => lock' = u
    BY DEF tables, IInv, InHand
  <2>3. UNCHANGED <<lead, audits>>
    BY DEF tables
  <2>4. /\ InHand' /\ pc' \in [Threads -> Labels]
        /\ req' \in [Threads -> Requests \union {None}]
        /\ seen' \in [Threads -> Lead \union {None}]
    BY <2>1, <2>2, <2>3, ReturnKept
  <2>5. RepliesAreAudited' /\ replies' \subseteq [user: Users, key: Keys, result: Audit]
    BY <1>2, <2>1, <2>3, ReplayKept
  <2>6. TypeOK'
    BY <2>4, <2>5 DEF TypeOK, tables
  <2>7. QED
    BY <2>4, <2>5, <2>6, RowsKept DEF IInv
<1>3. QED
  BY <1>1, <1>2

LEMMA LookUpStep ==
  ASSUME Good, NEW t \in Threads, LookUp(t) \/ Replay(t)
  PROVE  Good'
<1>1. pc[t] # "idle" /\ UNCHANGED <<tables, late, lock>>
  BY DEF LookUp, Replay
<1>2. CASE \E a \in AuditOf(req[t]) :
             IF a.actor = req[t].user THEN Reply(t, a) ELSE Return(t) /\ UNCHANGED replies
  BY <1>1, <1>2, Replays
<1>3. CASE Return(t) /\ UNCHANGED replies
  BY <1>1, <1>3, GivesUp
<1>4. CASE Goto(t, "read") /\ UNCHANGED <<req, seen, replies>>
  BY <1>1, <1>4, MovesOn DEF Labels
<1>5. QED
  BY <1>2, <1>3, <1>4 DEF LookUp, Replay

LEMMA ReadDraftStep ==
  ASSUME Good, NEW t \in Threads, ReadDraft(t)
  PROVE  Good'
<1>1. pc[t] # "idle" /\ UNCHANGED <<tables, late, lock, replies>>
  BY DEF ReadDraft
<1>2. CASE Return(t)
  BY <1>1, <1>2, GivesUp
<1>3. CASE UNCHANGED <<req, seen>> /\ (Goto(t, "expire") \/ Goto(t, "check"))
  BY <1>1, <1>3, MovesOn DEF Labels
<1>4. QED
  BY <1>2, <1>3 DEF ReadDraft

(* A failure is audited, and the draft may be given up. *)
LEMMA LoggedStep ==
  ASSUME Good, NEW t \in Threads, Expire(t) \/ RecordFailure(t)
  PROVE  Good'
<1> USE DEF Good
<1>1. /\ pc[t] # "idle" /\ Return(t)
      /\ UNCHANGED <<lead, tasks, late, lock, replies>>
      /\ audits' = audits \union {Log("failed", req[t].user, req[t].draft)}
      /\ draft' = draft \/ draft' = [draft EXCEPT ![req[t].draft].status = "expired"]
  BY DEF Expire, RecordFailure
<1>2. /\ req[t].user \in Users /\ req[t].draft \in Drafts
      /\ draft[req[t].draft] \in Draft
  BY <1>1, WorkShape DEF IInv
<1>3. PICK a \in Audit : a.key = None /\ a.status # "success" /\ audits' = audits \union {a}
  BY <1>1, <1>2, LogShape DEF Log
<1>4. draft' \in [Drafts -> Draft \union {None}]
  <2>1. [draft[req[t].draft] EXCEPT !.status = "expired"] \in Draft
    BY <1>2 DEF Draft
  <2>2. QED
    BY <1>1, <2>1 DEF TypeOK
<1>5. \A d \in Drafts :
        /\ draft[d] # None => /\ draft'[d] # None
                              /\ draft'[d].command = draft[d].command
                              /\ draft'[d].status \in {draft[d].status, "expired"}
        /\ draft[d] = None => draft'[d] = None
  <2>1. ASSUME NEW d \in Drafts
        PROVE  /\ draft[d] # None => /\ draft'[d] # None
                                     /\ draft'[d].command = draft[d].command
                                     /\ draft'[d].status \in {draft[d].status, "expired"}
               /\ draft[d] = None => draft'[d] = None
    <3>1. CASE draft'[d] = draft[d]
      BY <3>1
    <3>2. CASE d = req[t].draft /\ draft'[d] = [draft[d] EXCEPT !.status = "expired"]
      BY <1>2, <1>4, <3>2 DEF Draft
    <3>3. QED
      BY <1>1, <3>1, <3>2 DEF TypeOK
  <2>2. QED
    BY <2>1
<1>6. /\ InHand' /\ pc' \in [Threads -> Labels]
      /\ req' \in [Threads -> Requests \union {None}]
      /\ seen' \in [Threads -> Lead \union {None}]
  <2>1. \A u \in Threads \ {t} : pc[u] # "idle" =>
          LET d == req[u].draft IN
          /\ draft'[d] # None
          /\ draft'[d].command = draft[d].command
          /\ lock = u => lock' = u
    BY <1>1, <1>5, WorkShape DEF IInv, InHand
  <2>2. QED
    BY <1>1, <2>1, ReturnKept
<1>7. KeysAreUnique' /\ EffectsAreAudited'
  BY <1>1, <1>3, <1>5, LoggedKept
<1>8. RepliesAreAudited'
  BY <1>1, <1>3, RepliesKept
<1>9. TypeOK'
  BY <1>1, <1>3, <1>4, <1>6 DEF TypeOK
<1>10. QED
  BY <1>6, <1>7, <1>8, <1>9 DEF IInv

(* The checks pass: an update goes on with a lead that is there. *)
LEMMA CheckStep ==
  ASSUME Good, NEW t \in Threads, Check(t)
  PROVE  Good'
<1> USE DEF Good
<1> DEFINE c == draft[req[t].draft].command
<1>1. pc[t] # "idle" /\ UNCHANGED <<tables, late, lock, req, seen, replies>>
  BY DEF Check
<1>2. c \in Commands
  BY <1>1, WorkShape DEF IInv
<1>3. CASE Goto(t, "fail")
  BY <1>1, <1>3, MovesOn DEF Labels
<1>4. CASE Goto(t, "load") /\ Permitted(req[t].user, c) /\ c.action = "update_lead"
  <2>1. lead[c.lead] # None
    BY <1>4 DEF Permitted
  <2>2. TypeOK'
    BY <1>1, <1>4 DEF TypeOK, Goto, tables, Labels
  <2>3. InHand'
    BY <1>1, <1>4, <2>1 DEF TypeOK, IInv, InHand, Goto, tables
  <2>4. QED
    BY <1>1, <2>2, <2>3, RowsKept, RepliesKept DEF IInv, tables
<1>5. CASE Goto(t, "insert") /\ c.action # "update_lead"
  <2>1. TypeOK'
    BY <1>1, <1>5 DEF TypeOK, Goto, tables, Labels
  <2>2. InHand'
    BY <1>1, <1>5 DEF TypeOK, IInv, InHand, Goto, tables
  <2>3. QED
    BY <1>1, <2>1, <2>2, RowsKept, RepliesKept DEF IInv, tables
<1>6. QED
  BY <1>3, <1>4, <1>5 DEF Check

LEMMA LoadStep ==
  ASSUME Good, NEW t \in Threads, Load(t)
  PROVE  Good'
<1> USE DEF Good
<1> DEFINE c == draft[req[t].draft].command
<1>1. /\ pc[t] = "load" /\ UNCHANGED <<tables, late, lock, req, replies>>
      /\ seen' = [seen EXCEPT ![t] = lead[c.lead]]
      /\ pc' = [pc EXCEPT ![t] = "commit"]
  BY DEF Load, Goto
<1>2. c.action = "update_lead" /\ lead[c.lead] # None
  BY <1>1 DEF IInv, InHand
<1>3. c.lead \in Companies
  BY <1>1, WorkShape, CommandShape DEF IInv
<1>4. TypeOK'
  BY <1>1, <1>3 DEF TypeOK, tables, Labels
<1>5. InHand'
  <2>1. ASSUME NEW u \in Threads, u # t
        PROVE  pc'[u] = pc[u] /\ seen'[u] = seen[u] /\ req'[u] = req[u]
    BY <1>1, <2>1 DEF TypeOK
  <2>2. pc'[t] = "commit" /\ seen'[t] = lead[c.lead] /\ req'[t] = req[t]
    BY <1>1 DEF TypeOK
  <2>3. UNCHANGED <<lead, draft, lock>>
    BY <1>1 DEF tables
  <2>4. ASSUME NEW u \in Threads, pc'[u] # "idle"
        PROVE  LET e == draft[req[u].draft].command IN
               /\ req[u] \in Requests
               /\ draft[req[u].draft] # None
               /\ pc'[u] = "load" => e.action = "update_lead" /\ lead[e.lead] # None
               /\ pc'[u] = "insert" => e.action # "update_lead"
               /\ pc'[u] = "commit" =>
                    IF e.action = "update_lead"
                    THEN lead[e.lead] # None /\ seen'[u] # None
                    ELSE lock = u /\ (e.action = "create_lead" => lead[e.lead] = None)
    <3>1. CASE u = t
      BY <1>1, <1>2, <2>2, <3>1, WorkShape DEF IInv, InHand
    <3>2. CASE u # t
      BY <2>1, <2>4, <3>2 DEF IInv, InHand
    <3>3. QED
      BY <3>1, <3>2
  <2>5. QED
    BY <1>1, <2>3, <2>4 DEF InHand
<1>6. QED
  BY <1>1, <1>4, <1>5, RowsKept, RepliesKept DEF IInv, tables

(* The flush of a new row takes the lock, with the lead still missing. *)
LEMMA InsertStep ==
  ASSUME Good, NEW t \in Threads, Insert(t)
  PROVE  Good'
<1> USE DEF Good
<1> DEFINE c == draft[req[t].draft].command
<1>1. pc[t] = "insert" /\ lock = None /\ UNCHANGED <<tables, late, req, seen, replies>>
  BY DEF Insert
<1>2. CASE Goto(t, "replay") /\ UNCHANGED lock
  BY <1>1, <1>2, MovesOn DEF Labels
<1>3. CASE /\ Goto(t, "commit") /\ lock' = t
           /\ ~(c.action = "create_lead" /\ lead[c.lead] # None)
  <2>1. c.action # "update_lead"
    BY <1>1 DEF IInv, InHand
  <2>2. pc' = [pc EXCEPT ![t] = "commit"]
    BY <1>3 DEF Goto
  <2>3. TypeOK'
    BY <1>1, <1>3, <2>2 DEF TypeOK, tables, Labels
  <2>4. InHand'
    BY <1>1, <1>3, <2>1, <2>2 DEF TypeOK, IInv, InHand, tables
  <2>5. QED
    BY <1>1, <2>3, <2>4, RowsKept, RepliesKept DEF IInv, tables
<1>4. QED
  BY <1>2, <1>3 DEF Insert

(* The effect, the status and the audit row are committed together. *)
LEMMA CommitStep ==
  ASSUME Good, NEW t \in Threads, Commit(t)
  PROVE  Good'
<1> USE DEF Good
<1> DEFINE r == req[t]
           c == draft[r.draft].command
<1> SUFFICES ASSUME NEW a,
                    a = [status |-> "success", actor |-> r.user, draft |-> r.draft, key |-> r.key]
             PROVE  Good'
  OBVIOUS
<1>1. /\ pc[t] = "commit" /\ lock \in {None, t} /\ lock' = None
      /\ AuditOf(r) = {}
      /\ lead' = [lead EXCEPT ![c.lead] = LeadAfter(t, c)]
      /\ tasks' = [tasks EXCEPT ![r.draft] =
                     IF c.action = "create_follow_up_task" THEN @ + 1 ELSE @]
      /\ draft' = [draft EXCEPT ![r.draft].status = "confirmed"]
      /\ audits' = audits \union {a}
      /\ replies' = replies \union {[user |-> r.user, key |-> r.key, result |-> a]}
      /\ Return(t) /\ UNCHANGED late
  BY DEF Commit, Reply
<1>2. /\ r \in Requests /\ r.user \in Users /\ r.draft \in Drafts /\ r.key \in Keys
      /\ draft[r.draft] \in Draft /\ c \in Commands
  BY <1>1, WorkShape DEF IInv
<1>3. /\ a \in Audit /\ a.status = "success" /\ a.actor = r.user
      /\ a.draft = r.draft /\ a.key = r.key /\ a.key # None
  BY <1>2, SuccessShape
<1>4. /\ c.lead \in Companies
      /\ c.action \in {"create_lead", "update_lead", "create_follow_up_task"}
  BY <1>2, CommandShape
<1>5. /\ c.action # "create_follow_up_task" => LeadAfter(t, c) \in Lead
      /\ c.action = "create_follow_up_task" => LeadAfter(t, c) = lead[c.lead]
  BY <1>1, LeadAfterShape DEF IInv
<1> HIDE DEF c
<1>6. lead' \in [Companies -> Lead \union {None}]
  BY <1>1, <1>4, <1>5 DEF TypeOK
<1>7. \A x \in Companies : lead[x] # None => lead'[x] # None
  BY <1>1, <1>4, <1>5 DEF TypeOK
<1>8. tasks' \in [Drafts -> Nat]
  BY <1>1, <1>2 DEF TypeOK
<1>9. draft' \in [Drafts -> Draft \union {None}]
  <2>1. [draft[r.draft] EXCEPT !.status = "confirmed"] \in Draft
    BY <1>2 DEF Draft
  <2>2. QED
    BY <1>1, <2>1 DEF TypeOK
<1>10. /\ draft'[r.draft] # None
       /\ draft'[r.draft].command = draft[r.draft].command
       /\ draft'[r.draft].status = "confirmed"
       /\ \A d \in Drafts : d # r.draft => draft'[d] = draft[d]
  <2>1. draft'[r.draft] = [draft[r.draft] EXCEPT !.status = "confirmed"]
    BY <1>1, <1>2 DEF TypeOK
  <2>2. [draft[r.draft] EXCEPT !.status = "confirmed"] \in Draft
    BY <1>2 DEF Draft
  <2>3. QED
    BY <1>1, <1>2, <2>1, <2>2 DEF TypeOK, Draft
<1>11. a \notin audits /\ \A b \in audits : b.key # a.key
  BY <1>1, <1>3 DEF AuditOf
<1>12. InHand' /\ pc' \in [Threads -> Labels]
       /\ req' \in [Threads -> Requests \union {None}]
       /\ seen' \in [Threads -> Lead \union {None}]
  <2>1. /\ pc' = [pc EXCEPT ![t] = "idle"]
        /\ req' = [req EXCEPT ![t] = None]
        /\ seen' = [seen EXCEPT ![t] = None]
    BY <1>1 DEF Return
  <2>2. ASSUME NEW u \in Threads, pc'[u] # "idle"
        PROVE  LET e == draft'[req'[u].draft].command IN
               /\ req'[u] \in Requests
               /\ draft'[req'[u].draft] # None
               /\ pc'[u] = "load" => e.action = "update_lead" /\ lead'[e.lead] # None
               /\ pc'[u] = "insert" => e.action # "update_lead"
               /\ pc'[u] = "commit" =>
                    IF e.action = "update_lead"
                    THEN lead'[e.lead] # None /\ seen'[u] # None
                    ELSE lock' = u /\ (e.action = "create_lead" => lead'[e.lead] = None)
    <3>1. u # t /\ pc'[u] = pc[u] /\ req'[u] = req[u] /\ seen'[u] = seen[u]
      BY <2>1, <2>2 DEF TypeOK
    <3>2. /\ req[u] \in Requests /\ req[u].draft \in Drafts
          /\ draft[req[u].draft].command \in Commands /\ draft[req[u].draft] # None
      BY <2>2, <3>1, WorkShape DEF IInv, InHand
    <3>3. /\ draft'[req[u].draft] # None
          /\ draft'[req[u].draft].command = draft[req[u].draft].command
      BY <1>10, <3>2
    <3>4. draft[req[u].draft].command.lead \in Companies
      BY <3>2, CommandShape
    <3>5. lock # u
      BY <1>1, <3>1
    <3>6. QED
      BY <1>7, <2>2, <3>1, <3>2, <3>3, <3>4, <3>5 DEF IInv, InHand
  <2>3. InHand'
    BY <2>2 DEF InHand
  <2>4. QED
    BY <2>1, <2>3 DEF TypeOK, Labels
<1>13. KeysAreUnique'
  <2>1. IsFiniteSet(audits')
    BY <1>1, FS_AddElement DEF IInv, KeysAreUnique
  <2>2. \A x, y \in audits' : x.key # None /\ x.key = y.key => x = y
    BY <1>1, <1>11 DEF IInv, KeysAreUnique
  <2>3. \A x \in audits' : x.status = "success" => x.draft \in Drafts
    BY <1>1, <1>3, KeyedIsSuccess DEF TypeOK
  <2>4. \A x \in audits' : x.status = "success" => draft'[x.draft] # None
    BY <1>1, <1>3, <1>10, <2>3 DEF IInv, KeysAreUnique
  <2>5. QED
    BY <2>1, <2>2, <2>4 DEF KeysAreUnique
<1>14. EffectsAreAudited'
  <2>1. ASSUME NEW d \in Drafts
        PROVE  /\ tasks'[d] = IF draft'[d] # None
                                 /\ draft'[d].command.action = "create_follow_up_task"
                              THEN Cardinality(Successes(d)') ELSE 0
               /\ Successes(d)' # {} => draft'[d].status # "pending"
    <3>1. /\ tasks[d] = IF draft[d] # None
                           /\ draft[d].command.action = "create_follow_up_task"
                        THEN Cardinality(Successes(d)) ELSE 0
          /\ Successes(d) # {} => draft[d].status # "pending"
      BY DEF IInv, EffectsAreAudited
    <3>2. CASE d # r.draft
      <4>1. Successes(d)' = Successes(d)
        BY <1>1, <1>3, <3>2 DEF Successes
      <4>2. tasks'[d] = tasks[d] /\ draft'[d] = draft[d]
        BY <1>1, <1>2, <1>10, <3>2 DEF TypeOK
      <4>3. QED
        BY <3>1, <4>1, <4>2
    <3>3. CASE d = r.draft
      <4>1. Successes(d)' = Successes(d) \union {a} /\ a \notin Successes(d)
        BY <1>1, <1>3, <1>11, <3>3 DEF Successes
      <4>2. IsFiniteSet(Successes(d))
        BY FS_Subset DEF IInv, KeysAreUnique, Successes
      <4>3. Cardinality(Successes(d)') = Cardinality(Successes(d)) + 1
        BY <4>1, <4>2, FS_AddElement
      <4>4. tasks'[d] = IF c.action = "create_follow_up_task" THEN tasks[d] + 1 ELSE tasks[d]
        BY <1>1, <1>2, <3>3 DEF TypeOK
      <4>5. draft[d] # None
        BY <1>2, <3>3
      <4>6. QED
        BY <1>10, <3>1, <3>3, <4>3, <4>4, <4>5 DEF c
    <3>4. QED
      BY <3>2, <3>3
  <2>2. QED
    BY <2>1 DEF EffectsAreAudited
<1>15. RepliesAreAudited' /\ replies' \subseteq [user: Users, key: Keys, result: Audit]
  <2>1. [user |-> r.user, key |-> r.key, result |-> a] \in [user: Users, key: Keys, result: Audit]
    BY <1>2, <1>3
  <2>2. RepliesAreAudited'
    BY <1>1, <1>3 DEF IInv, RepliesAreAudited
  <2>3. QED
    BY <1>1, <2>1, <2>2 DEF TypeOK
<1>16. TypeOK'
  BY <1>1, <1>3, <1>6, <1>8, <1>9, <1>12, <1>15 DEF TypeOK
<1>17. QED
  BY <1>12, <1>13, <1>14, <1>15, <1>16 DEF IInv

LEMMA CrashStep ==
  ASSUME Good, Crash
  PROVE  Good'
<1> USE DEF Good
<1>1. TypeOK'
  BY DEF Crash, TypeOK, tables, Labels
<1>2. InHand'
  BY DEF Crash, InHand
<1>3. QED
  BY <1>1, <1>2, RowsKept, RepliesKept DEF Crash, IInv, tables

(* The invariant holds from the start and no step leaves it. *)
THEOREM Inductive == Spec => [](TypeOK /\ IInv)
<1>1. Init => Good
  <2> SUFFICES ASSUME Init PROVE Good
    OBVIOUS
  <2>1. TypeOK
    BY DEF Init, TypeOK, Lead, Stages, Labels
  <2>2. InHand /\ RepliesAreAudited
    BY DEF Init, InHand, RepliesAreAudited
  <2>3. KeysAreUnique
    BY FS_EmptySet DEF Init, KeysAreUnique
  <2>4. EffectsAreAudited
    BY FS_EmptySet DEF Init, EffectsAreAudited, Successes
  <2>5. QED
    BY <2>1, <2>2, <2>3, <2>4 DEF Good, IInv
<1>2. Good /\ [Next]_vars => Good'
  <2> SUFFICES ASSUME Good, [Next]_vars PROVE Good'
    OBVIOUS
  <2>1. ASSUME NEW t \in Threads, Run(t) PROVE Good'
    <3>1. CASE CommitRefused(t)
      BY <3>1, MovesOn DEF CommitRefused, Labels
    <3>2. CASE LockTimeout(t)
      BY <3>2, GivesUp DEF LockTimeout
    <3>3. CASE CommitFails(t)
      BY <3>3, GivesUp DEF CommitFails
    <3>4. QED
      BY <2>1, <3>1, <3>2, <3>3, LookUpStep, ReadDraftStep, LoggedStep, CheckStep,
         LoadStep, InsertStep, CommitStep DEF Run
  <2>2. CASE UNCHANGED vars
    <3>1. UNCHANGED tables /\ UNCHANGED replies /\ audits' = audits
      BY <2>2 DEF vars, tables
    <3>2. TypeOK' /\ InHand'
      BY <2>2 DEF Good, TypeOK, IInv, InHand, vars, tables, threads
    <3>3. QED
      BY <3>1, <3>2, RowsKept, RepliesKept DEF Good, IInv
  <2>3. QED
    BY <2>1, <2>2, CreateDraftStep, DeadlineStep, ConfirmStep, CrashStep DEF Next
<1>3. QED
  BY <1>1, <1>2, PTL DEF Spec, Good

(* Drafts, audit rows, leads and threads keep their form. *)
THEOREM TypeCorrect == Spec => []TypeOK
BY Inductive, PTL

(* Tasks and audit rows with a key go together, whatever fails between a   *)
(* confirmation and its answer.                                            *)
THEOREM AuditedEffects == Spec => []EffectsAreAudited
<1>1. TypeOK /\ IInv => EffectsAreAudited
  BY DEF IInv
<1>2. QED
  BY <1>1, Inductive, PTL

(* A key stands for one result of one user, however requests race for it. *)
THEOREM AgreeingReplies == Spec => []RepliesAgree
<1>1. TypeOK /\ IInv => RepliesAgree
  <2> SUFFICES ASSUME TypeOK, IInv PROVE RepliesAgree
    OBVIOUS
  <2>1. \A r \in replies : r.key # None
    BY DEF TypeOK
  <2>2. QED
    BY <2>1 DEF IInv, KeysAreUnique, RepliesAreAudited, RepliesAgree
<1>2. QED
  BY <1>1, Inductive, PTL

(* Updates merge: a commit changes a column of a lead to what its draft    *)
(* asks for or not at all.                                                 *)
THEOREM MergedUpdates == Spec => UpdatesMerge
<1> DEFINE Merges == \A x \in Companies :
             lead[x] # None /\ lead'[x] # lead[x] =>
               \E a \in audits' \ audits :
                 LET c == draft[a.draft].command IN
                 /\ lead'[x].owner \in {lead[x].owner, c.owner}
                 /\ lead'[x].stage \in {lead[x].stage, c.stage}
<1>1. TypeOK /\ IInv /\ [Next]_vars => [Merges]_vars
  <2> SUFFICES ASSUME TypeOK, IInv, Next, NEW x \in Companies,
                      lead[x] # None, lead'[x] # lead[x]
               PROVE  \E a \in audits' \ audits :
                        LET c == draft[a.draft].command IN
                        /\ lead'[x].owner \in {lead[x].owner, c.owner}
                        /\ lead'[x].stage \in {lead[x].stage, c.stage}
    OBVIOUS
  <2>1. PICK t \in Threads : Commit(t)
    BY DEF Next, Run, CreateDraft, Deadline, Confirm, LookUp, ReadDraft, Expire, Check,
           Load, Insert, CommitRefused, Replay, RecordFailure, LockTimeout, CommitFails,
           Crash, tables
  <2> DEFINE r == req[t]
             c == draft[r.draft].command
             a == [status |-> "success", actor |-> r.user, draft |-> r.draft, key |-> r.key]
  <2>2. /\ pc[t] = "commit" /\ AuditOf(r) = {}
        /\ lead' = [lead EXCEPT ![c.lead] = LeadAfter(t, c)]
        /\ audits' = audits \union {a}
    BY <2>1 DEF Commit
  <2>3. r \in Requests /\ c \in Commands
    BY <2>2, WorkShape DEF IInv
  <2>4. a.draft = r.draft /\ a \in audits' \ audits
    BY <2>2, <2>3, SuccessShape DEF AuditOf
  <2>5. /\ c.action \in {"create_lead", "update_lead", "create_follow_up_task"}
        /\ c.lead \in Companies
    BY <2>3, CommandShape
  <2> HIDE DEF a, c
  <2>6. x = c.lead /\ lead'[x] = LeadAfter(t, c)
    BY <2>2, <2>5 DEF TypeOK
  <2>7. c.action = "update_lead"
    <3>1. c.action # "create_follow_up_task"
      BY <2>6 DEF LeadAfter
    <3>2. c.action # "create_lead"
      BY <2>2, <2>6 DEF IInv, InHand, c
    <3>3. QED
      BY <2>5, <3>1, <3>2
  <2>8. LeadAfter(t, c) =
          [owner |-> Column(c.owner, seen[t].owner, lead[c.lead].owner),
           stage |-> Column(c.stage, seen[t].stage, lead[c.lead].stage)]
    BY <2>7 DEF LeadAfter
  <2>9. /\ lead'[x].owner \in {lead[x].owner, c.owner}
        /\ lead'[x].stage \in {lead[x].stage, c.stage}
    BY <2>6, <2>8, ColumnMerges
  <2>10. QED
    BY <2>4, <2>9 DEF c
<1>2. QED
  BY <1>1, Inductive, PTL DEF Spec, UpdatesMerge
=============================================================================
