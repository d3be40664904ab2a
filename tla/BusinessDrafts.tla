---------------------------- MODULE BusinessDrafts ----------------------------
(***************************************************************************)
(* Sales actions of one tenant: a member has a draft of an action made and *)
(* confirms it, which writes a lead or a follow-up task                    *)
(* (app/services/business_service.py, app/api/business.py).                *)
(*                                                                         *)
(* The confirmation endpoint is a plain `def` function on a pool thread,   *)
(* as in HandoffDesk: a SELECT reads what is committed, the first write    *)
(* takes the write lock until commit or rollback, and the session keeps    *)
(* the objects it has loaded.  Unlike the HR desk, a confirmation does not *)
(* claim its draft with a conditional UPDATE: it relies on the status it   *)
(* has read, on the unique idempotency key and on the unique lead.         *)
(***************************************************************************)
EXTENDS Naturals, FiniteSets, TLC

CONSTANTS
  Users,     \* active members of the tenant
  Role,      \* [Users -> {"admin", "agent", "employee"}]; an owner is an admin
  Companies, \* a lead is known by its company and contact, which are unique
  Commands,  \* the actions that are asked for, see Command
  Drafts,    \* ActionDraft.id
  Keys,      \* values of the Idempotency-Key header
  Threads,   \* confirmations that may run at the same time
  None

Stages == {"new", "qualified"}
Lead == [owner: Users, stage: Stages]

(* The validated payloads: at least one change in an update. *)
Command ==
  [action: {"create_lead"}, lead: Companies, owner: Users \union {None}]
    \union {c \in [action: {"update_lead"}, lead: Companies,
                   owner: Users \union {None}, stage: Stages \union {None}] :
              c.owner # None \/ c.stage # None}
    \union [action: {"create_follow_up_task"}, lead: Companies,
            assignee: Users \union {None}]

Requests == [user: Users, draft: Drafts, key: Keys]
Draft == [actor: Users, command: Commands, status: {"pending", "confirmed", "expired"}]

ASSUME DraftsAssumption ==
  /\ None \notin Users \union Drafts \union Threads \union Keys
  /\ None \notin Lead \union Draft \union Requests
  /\ Role \in [Users -> {"admin", "agent", "employee"}]
  /\ Commands \subseteq Command

VARIABLES
  lead,    \* the Lead rows, None where there is none
  tasks,   \* how many FollowUpTask rows came from each draft
  draft,   \* the ActionDraft rows, None where there is none
  late,    \* the drafts whose expires_at has passed
  audits,  \* AuditLog rows; those of failures and drafts have no key
  lock,    \* the thread whose transaction holds the write lock
  pc,      \* the next statement of each thread
  req,     \* user, draft and key of the confirmation a thread runs
  seen,    \* the Lead object loaded by the session of a thread
  replies  \* history: what confirmations were answered with

tables  == <<lead, tasks, draft, audits>>
threads == <<pc, req, seen>>
vars    == <<tables, late, lock, threads, replies>>

Audit == [status: {"success"}, actor: Users, draft: Drafts, key: Keys]
           \union [status: {"failed", "draft_created"}, actor: Users,
                   draft: Drafts, key: {None}]
           \union [status: {"rejected"}, actor: Users, draft: {None}, key: {None}]

Init ==
  /\ lead \in [Companies -> {None} \union [owner: Users, stage: {"new"}]]
  /\ tasks = [d \in Drafts |-> 0]
  /\ draft = [d \in Drafts |-> None]
  /\ late = {}
  /\ audits = {}
  /\ lock = None
  /\ pc = [t \in Threads |-> "idle"]
  /\ req = [t \in Threads |-> None]
  /\ seen = [t \in Threads |-> None]
  /\ replies = {}

----------------------------------------------------------------------------
(* _check_command: an agent works on leads and tasks of their own. *)
MayOnly(u, whom) == Role[u] = "admin" \/ whom \in {None, u}

Permitted(u, c) ==
  /\ Role[u] # "employee"
  /\ CASE c.action = "create_lead" -> lead[c.lead] = None /\ MayOnly(u, c.owner)
       [] c.action = "update_lead" -> /\ lead[c.lead] # None
                                      /\ MayOnly(u, lead[c.lead].owner)
                                      /\ MayOnly(u, c.owner)
       [] OTHER                    -> MayOnly(u, c.assignee) /\ lead[c.lead] # None

Log(status, u, d) == [status |-> status, actor |-> u, draft |-> d, key |-> None]

(* create_draft, one call on the event loop; a rejected command leaves an  *)
(* audit row and no draft.                                                 *)
CreateDraft(u, c, d) ==
  /\ draft[d] = None
  /\ lock = None
  /\ IF Permitted(u, c)
     THEN /\ draft' = [draft EXCEPT ![d] =
               [actor |-> u, command |-> c, status |-> "pending"]]
          /\ audits' = audits \union {Log("draft_created", u, d)}
     ELSE /\ audits' = audits \union {Log("rejected", u, None)}
          /\ UNCHANGED draft
  /\ UNCHANGED <<lead, tasks, late, lock, threads, replies>>

(* Ten minutes have passed; nothing asks about a draft that is done. *)
Deadline(d) ==
  /\ draft[d] # None /\ draft[d].status = "pending"
  /\ late' = late \union {d}
  /\ UNCHANGED <<tables, lock, threads, replies>>

----------------------------------------------------------------------------
(* confirm_draft *)

(* Mutant: keys are per draft. *)
AuditOfDraft(r) == {a \in audits : a.key = r.key /\ a.draft = r.draft}

(* The audit row that AuditLog.idempotency_key leads to, in the tenant. *)
AuditOf(r) == {a \in audits : a.key = r.key}

Goto(t, label) == pc' = [pc EXCEPT ![t] = label]

(* The request is answered and the session of the thread is closed. *)
Return(t) ==
  /\ pc' = [pc EXCEPT ![t] = "idle"]
  /\ req' = [req EXCEPT ![t] = None]
  /\ seen' = [seen EXCEPT ![t] = None]

Reply(t, a) ==
  /\ replies' = replies \union {[user |-> req[t].user, key |-> req[t].key, result |-> a]}
  /\ Return(t)

Confirm(t, r) ==
  /\ pc[t] = "idle"
  /\ draft[r.draft] # None
  /\ req' = [req EXCEPT ![t] = r]
  /\ Goto(t, "lookup")
  /\ UNCHANGED <<tables, late, lock, seen, replies>>

(* The key was used: the result is replayed to the user who used it, and   *)
(* anybody else is refused.                                                *)
LookUp(t) ==
  /\ pc[t] = "lookup"
  /\ \/ \E a \in AuditOf(req[t]) :
          IF a.actor = req[t].user THEN Reply(t, a)
          ELSE Return(t) /\ UNCHANGED replies
     \/ /\ AuditOf(req[t]) = {}
        /\ Goto(t, "read")
        /\ UNCHANGED <<req, seen, replies>>
  /\ UNCHANGED <<tables, late, lock>>

ReadDraft(t) ==
  LET d == req[t].draft IN
  /\ pc[t] = "read"
  /\ IF draft[d].actor # req[t].user \/ draft[d].status # "pending"
     THEN Return(t)
     ELSE /\ Goto(t, IF d \in late THEN "expire" ELSE "check")
          /\ UNCHANGED <<req, seen>>
  /\ UNCHANGED <<tables, late, lock, replies>>

(* The draft is marked, whatever it has become, and audited. *)
Expire(t) ==
  LET r == req[t] IN
  /\ pc[t] = "expire"
  /\ lock = None
  /\ draft' = [draft EXCEPT ![r.draft].status = "expired"]
  /\ audits' = audits \union {Log("failed", r.user, r.draft)}
  /\ Return(t)
  /\ UNCHANGED <<lead, tasks, late, lock, replies>>

(* "Re-check policy and data immediately before the write": the reads of   *)
(* _check_command, whose objects the session does not keep.                *)
Check(t) ==
  LET r == req[t]
      c == draft[r.draft].command
  IN
  /\ pc[t] = "check"
  /\ Goto(t, IF ~Permitted(r.user, c) THEN "fail"
             ELSE IF c.action = "update_lead" THEN "load" ELSE "insert")
  /\ UNCHANGED <<tables, late, lock, req, seen, replies>>

(* _execute of an update: the lead is read once more. *)
Load(t) ==
  /\ pc[t] = "load"
  /\ seen' = [seen EXCEPT ![t] = lead[draft[req[t].draft].command.lead]]
  /\ Goto(t, "commit")
  /\ UNCHANGED <<tables, late, lock, req, replies>>

(* The flush of a new lead or task; uq_lead_tenant_company_email may refuse*)
(* the lead.                                                               *)
Insert(t) ==
  LET c == draft[req[t].draft].command IN
  /\ pc[t] = "insert"
  /\ lock = None
  /\ IF c.action = "create_lead" /\ lead[c.lead] # None
     THEN Goto(t, "replay") /\ UNCHANGED lock
     ELSE Goto(t, "commit") /\ lock' = t
  /\ UNCHANGED <<tables, late, req, seen, replies>>

(* Mutant: the UPDATE writes every column of the object. *)
ColumnAlways(asked, loaded, stored) == IF asked # None THEN asked ELSE loaded

(* The UPDATE writes the columns that differ from the object as it was     *)
(* loaded, and leaves the others as they are stored.                       *)
Column(asked, loaded, stored) ==
  IF asked # None /\ asked # loaded THEN asked ELSE stored

(* The lead after the action, as it is committed. *)
LeadAfter(t, c) ==
  CASE c.action = "create_lead" ->
         [owner |-> IF c.owner = None THEN req[t].user ELSE c.owner, stage |-> "new"]
    [] c.action = "update_lead" ->
         [owner |-> Column(c.owner, seen[t].owner, lead[c.lead].owner),
          stage |-> Column(c.stage, seen[t].stage, lead[c.lead].stage)]
    [] OTHER -> lead[c.lead]

(* Mutant: the task is committed before the audit row meets its key. *)
CommitRefusedLate(t) ==
  /\ pc[t] = "commit"
  /\ lock \in {None, t}
  /\ AuditOf(req[t]) # {}
  /\ lock' = None
  /\ tasks' = [tasks EXCEPT ![req[t].draft] =
       IF draft[req[t].draft].command.action = "create_follow_up_task" THEN @ + 1 ELSE @]
  /\ Goto(t, "replay")
  /\ UNCHANGED <<lead, draft, audits, late, req, seen, replies>>

(* The effect, the status of the draft and the audit row with the key are  *)
(* committed together.                                                     *)
Commit(t) ==
  LET r == req[t]
      c == draft[r.draft].command
      a == [status |-> "success", actor |-> r.user, draft |-> r.draft, key |-> r.key]
  IN
  /\ pc[t] = "commit"
  /\ lock \in {None, t}
  /\ lock' = None
  /\ AuditOf(r) = {}
  /\ lead' = [lead EXCEPT ![c.lead] = LeadAfter(t, c)]
  /\ tasks' = [tasks EXCEPT ![r.draft] =
                 IF c.action = "create_follow_up_task" THEN @ + 1 ELSE @]
  /\ draft' = [draft EXCEPT ![r.draft].status = "confirmed"]
  /\ audits' = audits \union {a}
  /\ Reply(t, a)
  /\ UNCHANGED late

(* uq_audit_tenant_idempotency refuses: all of it is rolled back. *)
CommitRefused(t) ==
  /\ pc[t] = "commit"
  /\ lock \in {None, t}
  /\ AuditOf(req[t]) # {}
  /\ lock' = None
  /\ Goto(t, "replay")
  /\ UNCHANGED <<tables, late, req, seen, replies>>

(* After IntegrityError: the result of the key, if it is the user's own;   *)
(* else WRITE_CONFLICT.                                                    *)
Replay(t) ==
  /\ pc[t] = "replay"
  /\ \/ \E a \in AuditOf(req[t]) :
          IF a.actor = req[t].user THEN Reply(t, a)
          ELSE Return(t) /\ UNCHANGED replies
     \/ /\ AuditOf(req[t]) = {}
        /\ Return(t) /\ UNCHANGED replies
  /\ UNCHANGED <<tables, late, lock>>

(* _record_failure, a transaction of its own. *)
RecordFailure(t) ==
  /\ pc[t] = "fail"
  /\ lock = None
  /\ audits' = audits \union {Log("failed", req[t].user, req[t].draft)}
  /\ Return(t)
  /\ UNCHANGED <<lead, tasks, draft, late, lock, replies>>

----------------------------------------------------------------------------
(* A statement gives up waiting for the lock after the busy timeout, or a  *)
(* commit fails: an error nobody catches, and the session is rolled back.  *)
LockTimeout(t) ==
  /\ pc[t] \in {"expire", "insert", "fail", "commit"}
  /\ lock \notin {None, t}
  /\ Return(t)
  /\ UNCHANGED <<tables, late, lock, replies>>

CommitFails(t) ==
  /\ pc[t] \in {"expire", "fail", "commit"}
  /\ lock \in {None, t}
  /\ lock' = None
  /\ Return(t)
  /\ UNCHANGED <<tables, late, replies>>

(* The process dies: what was not committed is rolled back. *)
Crash ==
  /\ \E t \in Threads : pc[t] # "idle"
  /\ lock' = None
  /\ pc' = [t \in Threads |-> "idle"]
  /\ req' = [t \in Threads |-> None]
  /\ seen' = [t \in Threads |-> None]
  /\ UNCHANGED <<tables, late, replies>>

Run(t) ==
  \/ LookUp(t) \/ ReadDraft(t) \/ Expire(t) \/ Check(t) \/ Load(t) \/ Insert(t)
  \/ Commit(t) \/ CommitRefused(t) \/ Replay(t) \/ RecordFailure(t)
  \/ LockTimeout(t) \/ CommitFails(t)

Next ==
  \/ \E u \in Users, c \in Commands, d \in Drafts : CreateDraft(u, c, d)
  \/ \E d \in Drafts : Deadline(d)
  \/ \E t \in Threads : (\E r \in Requests : Confirm(t, r)) \/ Run(t)
  \/ Crash

Spec == Init /\ [][Next]_vars

----------------------------------------------------------------------------
Labels == {"idle", "lookup", "read", "expire", "check", "load", "insert",
           "commit", "replay", "fail"}

(* Every variable has its type. *)
TypeOK ==
  /\ lead \in [Companies -> Lead \union {None}]
  /\ tasks \in [Drafts -> Nat]
  /\ draft \in [Drafts -> Draft \union {None}]
  /\ late \subseteq Drafts
  /\ audits \subseteq Audit
  /\ lock \in Threads \union {None}
  /\ pc \in [Threads -> Labels]
  /\ req \in [Threads -> Requests \union {None}]
  /\ seen \in [Threads -> Lead \union {None}]
  /\ replies \subseteq [user: Users, key: Keys, result: Audit]

Successes(d) == {a \in audits : a.status = "success" /\ a.draft = d}

(* Every task a confirmation writes has its own audit row with a key, and  *)
(* every such row its task: no failure, timeout, refused key or crash      *)
(* leaves one without the other, and a draft gives no more tasks than keys *)
(* were spent on it.  A draft that took effect is no longer pending,       *)
(* however many requests saw it pending and whatever its deadline.         *)
EffectsAreAudited ==
  \A d \in Drafts :
    /\ tasks[d] = IF draft[d] # None /\ draft[d].command.action = "create_follow_up_task"
                  THEN Cardinality(Successes(d)) ELSE 0
    /\ Successes(d) # {} => draft[d].status # "pending"

(* An idempotency key stands for one result of one user: two answers under *)
(* a key are the same, also across users and after races for it, and       *)
(* nobody is answered with the action of another.                          *)
RepliesAgree ==
  /\ \A r, s \in replies : r.key = s.key => r.result = s.result
  /\ \A r \in replies : r.user = r.result.actor

(* No update is lost: confirmations that run at the same time merge, and a *)
(* lead gets an owner or a stage only from a draft that asks for it, never *)
(* from the object a session had loaded before another commit.             *)
UpdatesMerge ==
  [][\A x \in Companies :
       lead[x] # None /\ lead'[x] # lead[x] =>
         \E a \in audits' \ audits :
           LET c == draft[a.draft].command IN
           /\ lead'[x].owner \in {lead[x].owner, c.owner}
           /\ lead'[x].stage \in {lead[x].stage, c.stage}]_vars

(* "Re-check policy and data immediately before the write" and an agent    *)
(* cannot pass a lead on (business_service.py:246 and 113): only the draft *)
(* of an admin moves a lead to another owner.                              *)
TransfersAreAdmins ==
  [][\A c \in Companies :
       lead[c] # None /\ lead'[c].owner # lead[c].owner =>
         \E a \in audits' \ audits : Role[a.actor] = "admin"]_vars

----------------------------------------------------------------------------
(* The inductive invariant behind the safety properties. *)

(* A confirmation works on a draft that was made, and between Check and    *)
(* Commit on the action the draft asks for.  From its flush on a new lead  *)
(* or task is protected by the lock, so that the lead is still missing; an *)
(* update has loaded a lead, and a lead is never deleted.                  *)
InHand ==
  \A t \in Threads : pc[t] # "idle" =>
    LET c == draft[req[t].draft].command IN
    /\ req[t] \in Requests
    /\ draft[req[t].draft] # None
    /\ pc[t] = "load" => c.action = "update_lead" /\ lead[c.lead] # None
    /\ pc[t] = "insert" => c.action # "update_lead"
    /\ pc[t] = "commit" =>
         IF c.action = "update_lead"
         THEN lead[c.lead] # None /\ seen[t] # None
         ELSE lock = t /\ (c.action = "create_lead" => lead[c.lead] = None)

(* A key is in one audit row only, and a row of success names a draft. *)
KeysAreUnique ==
  /\ IsFiniteSet(audits)
  /\ \A a, b \in audits : a.key # None /\ a.key = b.key => a = b
  /\ \A a \in audits : a.status = "success" => draft[a.draft] # None

RepliesAreAudited ==
  \A r \in replies :
    r.result \in audits /\ r.result.key = r.key /\ r.result.actor = r.user

IInv == InHand /\ KeysAreUnique /\ EffectsAreAudited /\ RepliesAreAudited
=============================================================================
