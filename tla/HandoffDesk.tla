----------------------------- MODULE HandoffDesk -----------------------------
(***************************************************************************)
(* HR support handoffs of one tenant: an employee confirms a draft the     *)
(* agent prepared, HR assigns and resolves the handoff this creates        *)
(* (app/services/hr_support_service.py).                                   *)
(*                                                                         *)
(* The endpoints are plain `def` functions: they run on pool threads and   *)
(* interleave between any two SQL statements.  A SELECT reads what is      *)
(* committed and the session keeps the object it loaded; the first         *)
(* statement that writes takes the write lock of the database, which the   *)
(* transaction holds until it commits or rolls back.  A transaction's own  *)
(* writes are visible to others from its commit on, so this module makes   *)
(* them there.                                                             *)
(***************************************************************************)
EXTENDS Naturals, Sequences

CONSTANTS
  Drafts,     \* HandoffDraft.id
  Handoffs,   \* SupportHandoff.id (uuid4: never used twice)
  Keys,       \* values of the Idempotency-Key header
  Staff,      \* HR users who assign and resolve, and may be assigned
  Threads,    \* requests that may run at the same time
  MaxCrashes, \* bound on the crashes of a behaviour
  None

(* A SupportHandoff row.  The table does not record the draft: that field  *)
(* is history.                                                             *)
Row == [draft: Drafts, status: {"open", "assigned", "resolved"},
        assignee: Staff \union {None}, resolver: Staff \union {None}]

ASSUME DeskAssumption ==
  /\ None \notin Drafts \union Handoffs \union Staff \union Threads \union Row
  /\ MaxCrashes \in Nat

VARIABLES
  draft,    \* HandoffDraft.status
  late,     \* the drafts whose expires_at has passed
  handoff,  \* the SupportHandoff rows, None where there is none
  audits,   \* AuditLog rows of confirmations: the key leads to the result
  trail,    \* AuditLog rows of each handoff: <<status before, after>>
  lock,     \* the thread whose transaction holds the write lock
  pc,       \* the next statement of each thread
  req,      \* what the request of a thread asks for
  seen,     \* SupportHandoff object loaded by the session of a thread
  replies,  \* history: confirmations answered with a handoff
  crashes   \* crashes so far, against MaxCrashes

tables  == <<draft, handoff, audits, trail>>
threads == <<pc, req, seen>>
vars    == <<tables, late, lock, threads, replies, crashes>>

----------------------------------------------------------------------------
NoRequest == [verb |-> "none"]
Confirmations == [verb: {"confirm"}, draft: Drafts, key: Keys]
Updates == [verb: {"assign", "resolve"}, handoff: Handoffs, staff: Staff]

(* Mutant: the key itself is not compared. *)
AuditOfDraft(r) == {a \in audits : a.draft = r.draft}

(* The audit row that AuditLog.idempotency_key leads to. *)
AuditOf(r) == {a \in audits : a.draft = r.draft /\ a.key = r.key}

Goto(t, label) == pc' = [pc EXCEPT ![t] = label]

(* The request is answered and the session of the thread is closed. *)
Return(t) ==
  /\ pc' = [pc EXCEPT ![t] = "idle"]
  /\ req' = [req EXCEPT ![t] = NoRequest]
  /\ seen' = [seen EXCEPT ![t] = None]

Reply(t, h) ==
  /\ replies' = replies \union
       {[draft |-> req[t].draft, key |-> req[t].key, handoff |-> h]}
  /\ Return(t)

Init ==
  /\ draft = [d \in Drafts |-> "none"]
  /\ late = {}
  /\ handoff = [h \in Handoffs |-> None]
  /\ audits = {}
  /\ trail = [h \in Handoffs |-> <<>>]
  /\ lock = None
  /\ pc = [t \in Threads |-> "idle"]
  /\ req = [t \in Threads |-> NoRequest]
  /\ seen = [t \in Threads |-> None]
  /\ replies = {}
  /\ crashes = 0

----------------------------------------------------------------------------
(* create_handoff_draft, one transaction of the assistant's own session *)
CreateDraft(d) ==
  /\ draft[d] = "none"
  /\ lock = None
  /\ draft' = [draft EXCEPT ![d] = "pending"]
  /\ UNCHANGED <<late, handoff, audits, trail, lock, threads, replies, crashes>>

(* Ten minutes have passed. *)
Deadline(d) ==
  /\ draft[d] # "none"
  /\ late' = late \union {d}
  /\ UNCHANGED <<tables, lock, threads, replies, crashes>>

----------------------------------------------------------------------------
(* confirm_handoff_draft, called by the employee the draft belongs to: for *)
(* anybody else the first two reads end in an error and change nothing.    *)

Confirm(t, d, k) ==
  /\ pc[t] = "idle"
  /\ draft[d] # "none"
  /\ req' = [req EXCEPT ![t] = [verb |-> "confirm", draft |-> d, key |-> k]]
  /\ Goto(t, "lookup")
  /\ UNCHANGED <<tables, late, lock, seen, replies, crashes>>

(* The audit row of this very key, then the handoff it names. *)
LookUp(t) ==
  /\ pc[t] = "lookup"
  /\ \/ \E a \in AuditOf(req[t]) :
          IF handoff[a.handoff] # None THEN Reply(t, a.handoff)
          ELSE Return(t) /\ UNCHANGED replies
     \/ /\ AuditOf(req[t]) = {}
        /\ Goto(t, "read")
        /\ UNCHANGED <<req, seen, replies>>
  /\ UNCHANGED <<tables, late, lock, crashes>>

ReadDraft(t) ==
  LET d == req[t].draft IN
  /\ pc[t] = "read"
  /\ IF draft[d] # "pending"
     THEN Return(t)
     ELSE /\ Goto(t, IF d \in late THEN "expire" ELSE "claim")
          /\ UNCHANGED <<req, seen>>
  /\ UNCHANGED <<tables, late, lock, replies, crashes>>

(* Mutant: a status nobody knows. *)
ExpireTimedOut(t) ==
  /\ pc[t] = "expire"
  /\ lock = None
  /\ draft' = [draft EXCEPT ![req[t].draft] = "timed_out"]
  /\ Return(t)
  /\ UNCHANGED <<late, handoff, audits, trail, lock, replies, crashes>>

(* UPDATE ... SET status = 'expired' WHERE id = ..., and commit: the write *)
(* names the row, not the status the session read.                         *)
Expire(t) ==
  /\ pc[t] = "expire"
  /\ lock = None
  /\ draft' = [draft EXCEPT ![req[t].draft] = "expired"]
  /\ Return(t)
  /\ UNCHANGED <<late, handoff, audits, trail, lock, replies, crashes>>

(* Mutant: the claim does not ask for a pending draft. *)
ClaimAnyway(t) ==
  /\ pc[t] = "claim"
  /\ lock = None
  /\ lock' = t
  /\ Goto(t, "insert")
  /\ UNCHANGED <<tables, late, req, seen, replies, crashes>>

(* UPDATE ... SET status = 'confirmed' WHERE ... AND status = 'pending' *)
Claim(t) ==
  /\ pc[t] = "claim"
  /\ lock = None
  /\ draft[req[t].draft] = "pending"
  /\ lock' = t
  /\ Goto(t, "insert")
  /\ UNCHANGED <<tables, late, req, seen, replies, crashes>>

(* Mutant: a lost claim is tried again, without end. *)
ClaimRetries(t) ==
  /\ pc[t] = "claim"
  /\ lock = None
  /\ draft[req[t].draft] # "pending"
  /\ UNCHANGED vars

ClaimLost(t) ==
  /\ pc[t] = "claim"
  /\ lock = None
  /\ draft[req[t].draft] # "pending"
  /\ Goto(t, "replay")
  /\ UNCHANGED <<tables, late, lock, req, seen, replies, crashes>>

(* The handoff and the audit row are inserted and everything is committed; *)
(* uq_audit_tenant_idempotency may refuse, and rolls everything back.      *)
CommitConfirm(t) ==
  LET r == req[t] IN
  /\ pc[t] = "insert"
  /\ lock' = None
  /\ IF AuditOf(r) = {}
     THEN \E h \in Handoffs :
            /\ handoff[h] = None
            /\ draft' = [draft EXCEPT ![r.draft] = "confirmed"]
            /\ handoff' = [handoff EXCEPT ![h] =
                 [draft |-> r.draft, status |-> "open",
                  assignee |-> None, resolver |-> None]]
            /\ audits' = audits \union
                 {[draft |-> r.draft, key |-> r.key, handoff |-> h]}
            /\ trail' = [trail EXCEPT ![h] = <<<<"none", "open">>>>]
            /\ Reply(t, h)
     ELSE /\ Goto(t, "replay")
          /\ UNCHANGED <<tables, req, seen, replies>>
  /\ UNCHANGED <<late, crashes>>

(* What a lost claim or a refused commit is answered with. *)
Replay(t) ==
  /\ pc[t] = "replay"
  /\ \/ \E a \in AuditOf(req[t]) : Reply(t, a.handoff)
     \/ /\ AuditOf(req[t]) = {}
        /\ Return(t)
        /\ UNCHANGED replies
  /\ UNCHANGED <<tables, late, lock, crashes>>

----------------------------------------------------------------------------
(* update_handoff_status *)

Allowed(verb) == IF verb = "assign" THEN {"open"} ELSE {"open", "assigned"}

(* The row is loaded, and checked as it was loaded. *)
Update(t, r) ==
  /\ pc[t] = "idle"
  /\ handoff[r.handoff] # None
  /\ handoff[r.handoff].status \in Allowed(r.verb)
  /\ req' = [req EXCEPT ![t] = r]
  /\ seen' = [seen EXCEPT ![t] = handoff[r.handoff]]
  /\ Goto(t, "flush")
  /\ UNCHANGED <<tables, late, lock, replies, crashes>>

(* UPDATE ... WHERE id = ...: the changed columns, whatever the row is now *)
Flush(t) ==
  /\ pc[t] = "flush"
  /\ lock = None
  /\ lock' = t
  /\ Goto(t, "audit")
  /\ UNCHANGED <<tables, late, req, seen, replies, crashes>>

(* Mutant: before and after are swapped. *)
EntryBackwards(t, status) == <<status, seen[t].status>>

(* before_json and after_json, as far as the status goes. *)
Entry(t, status) == <<seen[t].status, status>>

(* The audit row compares the object before and after, and is committed    *)
(* together with the change.                                               *)
CommitUpdate(t) ==
  LET r == req[t]
      status == IF r.verb = "assign" THEN "assigned" ELSE "resolved"
  IN
  /\ pc[t] = "audit"
  /\ handoff' = [handoff EXCEPT ![r.handoff] =
       IF r.verb = "assign"
       THEN [@ EXCEPT !.status = status, !.assignee = r.staff]
       ELSE [@ EXCEPT !.status = status, !.resolver = r.staff]]
  /\ trail' = [trail EXCEPT ![r.handoff] = Append(@, Entry(t, status))]
  /\ lock' = None
  /\ Return(t)
  /\ UNCHANGED <<draft, late, audits, replies, crashes>>

----------------------------------------------------------------------------
(* A statement that waits for the write lock gives up after the busy       *)
(* timeout; the error leaves the service and the session is closed.        *)
LockTimeout(t) ==
  /\ pc[t] \in {"expire", "claim", "flush"}
  /\ lock # None
  /\ Return(t)
  /\ UNCHANGED <<tables, late, lock, replies, crashes>>

(* The commit fails (disk full, locked by readers) and is rolled back. *)
CommitFails(t) ==
  /\ pc[t] \in {"insert", "audit"}
  /\ lock' = None
  /\ Return(t)
  /\ UNCHANGED <<tables, late, replies, crashes>>

(* The process dies: open transactions are rolled back. *)
Crash ==
  /\ crashes < MaxCrashes
  /\ crashes' = crashes + 1
  /\ lock' = None
  /\ pc' = [t \in Threads |-> "idle"]
  /\ req' = [t \in Threads |-> NoRequest]
  /\ seen' = [t \in Threads |-> None]
  /\ UNCHANGED <<tables, late, replies>>

----------------------------------------------------------------------------
Run(t) ==
  \/ LookUp(t) \/ ReadDraft(t) \/ Expire(t) \/ Claim(t) \/ ClaimLost(t)
  \/ CommitConfirm(t) \/ Replay(t)
  \/ Flush(t) \/ CommitUpdate(t)
  \/ LockTimeout(t) \/ CommitFails(t)

Next ==
  \/ \E d \in Drafts : CreateDraft(d) \/ Deadline(d)
  \/ \E t \in Threads :
       \/ \E d \in Drafts, k \in Keys : Confirm(t, d, k)
       \/ \E r \in Updates : Update(t, r)
       \/ Run(t)
  \/ Crash

Spec == Init /\ [][Next]_vars

(* A thread that can execute its next statement eventually does, and one   *)
(* that waits for the lock gets it or times out: in both cases some step   *)
(* of Run(t) stays enabled, so weak fairness is what the scheduler and the *)
(* busy timeout give.                                                      *)
FairSpec == Spec /\ \A t \in Threads : WF_vars(Run(t))

----------------------------------------------------------------------------
Labels == {"idle", "lookup", "read", "expire", "claim", "insert", "replay",
           "flush", "audit"}
Moves == {"none", "open", "assigned", "resolved"} \X {"open", "assigned", "resolved"}
Receipts == [draft: Drafts, key: Keys, handoff: Handoffs]

(* Every variable has its type. *)
TypeOK ==
  /\ draft \in [Drafts -> {"none", "pending", "confirmed", "expired"}]
  /\ late \in SUBSET Drafts
  /\ handoff \in [Handoffs -> Row \union {None}]
  /\ audits \in SUBSET Receipts
  /\ trail \in [Handoffs -> Seq(Moves)]
  /\ lock \in Threads \union {None}
  /\ pc \in [Threads -> Labels]
  /\ req \in [Threads -> Confirmations \union Updates \union {NoRequest}]
  /\ seen \in [Threads -> Row \union {None}]
  /\ replies \in SUBSET Receipts
  /\ crashes \in 0..MaxCrashes

Open == {h \in Handoffs : handoff[h] # None}

(* However many confirmations of a draft run, fail and are retried, with   *)
(* one key or several, the draft turns into one handoff at most, and it    *)
(* turns into one exactly when it is confirmed: a draft still pending has  *)
(* none, a confirmed one has its own.                                      *)
OneHandoffPerDraft ==
  /\ \A g, h \in Open : handoff[g].draft = handoff[h].draft => g = h
  /\ \A h \in Open : draft[handoff[h].draft] # "pending"
  /\ \A d \in Drafts : draft[d] = "confirmed" => \E h \in Open : handoff[h].draft = d

(* Whoever is told a handoff for a draft is told the same one, also after  *)
(* a crash or a timeout, and only under the key it was created with; and   *)
(* what was told exists.                                                   *)
RepliesAgree ==
  /\ \A a, b \in replies : a.draft = b.draft => a = b
  /\ \A a \in replies : handoff[a.handoff] # None /\ handoff[a.handoff].draft = a.draft

(* The audit trail of a handoff ends with the status the handoff has, and  *)
(* has one entry for its creation and one for each later change.           *)
TrailIsCurrent ==
  \A h \in Handoffs :
    IF handoff[h] = None THEN trail[h] = <<>>
    ELSE /\ trail[h] # <<>>
         /\ trail[h][1] = <<"none", "open">>
         /\ trail[h][Len(trail[h])][2] = handoff[h].status

(* No request hangs on the write lock: every one is answered. *)
RequestsEnd == \A t \in Threads : pc[t] # "idle" ~> pc[t] = "idle"

(* hr_support_service.py:213: "仅 open 请求可被指派".  A handoff becomes   *)
(* assigned only from open: the code does not keep this when the row was   *)
(* resolved after it was loaded.                                           *)
AssignedFromOpen ==
  [][\A h \in Handoffs :
       handoff'[h] # handoff[h] /\ handoff'[h] # None /\ handoff'[h].status = "assigned"
       => handoff[h].status = "open"]_vars

(* tests/test_hr_support_api.py:296, "expired draft cannot create handoff":*)
(* the code lets a late second confirmation mark as expired a draft that   *)
(* has just been confirmed.                                                *)
ExpiredHasNoHandoff ==
  \A h \in Open : draft[handoff[h].draft] # "expired"

----------------------------------------------------------------------------
(* The inductive invariant behind OneHandoffPerDraft, RepliesAgree and     *)
(* TrailIsCurrent.                                                         *)

(* The statements between the first write and the commit run under the     *)
(* lock, one thread at a time.                                             *)
LockProtects == \A t \in Threads : pc[t] \in {"insert", "audit"} <=> lock = t

(* What a thread relies on between two statements. *)
RequestInHand ==
  \A t \in Threads :
    /\ pc[t] \in {"lookup", "read", "expire", "claim", "insert", "replay"} =>
         req[t] \in Confirmations
    /\ pc[t] = "insert" => draft[req[t].draft] = "pending"
    /\ pc[t] \in {"flush", "audit"} =>
         /\ req[t] \in Updates
         /\ handoff[req[t].handoff] # None
         /\ seen[t] \in Row

(* A draft, its handoff and the audit row of its confirmation come and     *)
(* stay together.                                                          *)
DraftSettled ==
  /\ \A h \in Open : draft[handoff[h].draft] \in {"confirmed", "expired"}
  /\ \A a \in audits : /\ handoff[a.handoff] # None
                       /\ handoff[a.handoff].draft = a.draft
  /\ \A a, b \in audits : a.draft = b.draft => a = b
  /\ replies \subseteq audits

IInv ==
  /\ LockProtects
  /\ RequestInHand
  /\ DraftSettled
  /\ OneHandoffPerDraft
  /\ TrailIsCurrent
=============================================================================
