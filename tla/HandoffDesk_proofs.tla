-------------------------- MODULE HandoffDesk_proofs --------------------------
(***************************************************************************)
(* Theorems about HandoffDesk, for any number of drafts, keys, concurrent  *)
(* requests, timeouts and crashes.                                         *)
(***************************************************************************)
EXTENDS HandoffDesk, SequenceTheorems, TLAPS

USE DeskAssumption

(* A row or an id is never mistaken for None, and a confirmation is never  *)
(* mistaken for an update.                                                 *)
LEMMA RequestShapes ==
  /\ \A r \in Confirmations : r.draft \in Drafts /\ r.key \in Keys
  /\ \A r \in Updates : /\ r.handoff \in Handoffs /\ r.staff \in Staff
                        /\ r.verb \in {"assign", "resolve"}
BY DEF Confirmations, Updates

(* The one audit row of a confirmation request, as a receipt. *)
LEMMA AuditIsReceipt ==
  ASSUME TypeOK, NEW r \in Confirmations, NEW a \in AuditOf(r)
  PROVE  /\ a \in audits /\ a \in Receipts
         /\ a = [draft |-> r.draft, key |-> r.key, handoff |-> a.handoff]
BY DEF TypeOK, AuditOf, Receipts, Confirmations

(* An update leaves a row in its place that belongs to the same draft. *)
LEMMA RowChanges ==
  ASSUME TypeOK, NEW t \in Threads, req[t] \in Updates,
         handoff[req[t].handoff] \in Row, CommitUpdate(t)
  PROVE  LET h == req[t].handoff
             status == IF req[t].verb = "assign" THEN "assigned" ELSE "resolved"
         IN /\ h \in Handoffs
            /\ handoff'[h] \in Row
            /\ handoff'[h].draft = handoff[h].draft
            /\ handoff'[h].status = status
            /\ \A g \in Handoffs \ {h} : handoff'[g] = handoff[g]
            /\ trail' = [trail EXCEPT ![h] = Append(@, Entry(t, status))]
<1> DEFINE h == req[t].handoff
           row == handoff[h]
           status == IF req[t].verb = "assign" THEN "assigned" ELSE "resolved"
<1>1. h \in Handoffs /\ req[t].staff \in Staff
  BY RequestShapes
<1>2. \/ handoff' = [handoff EXCEPT ![h] =
             [row EXCEPT !.status = status, !.assignee = req[t].staff]]
      \/ handoff' = [handoff EXCEPT ![h] =
             [row EXCEPT !.status = status, !.resolver = req[t].staff]]
  BY DEF CommitUpdate
<1>3. /\ [row EXCEPT !.status = status, !.assignee = req[t].staff] \in Row
      /\ [row EXCEPT !.status = status, !.resolver = req[t].staff] \in Row
  BY <1>1 DEF Row
<1>4. \/ handoff'[h] = [row EXCEPT !.status = status, !.assignee = req[t].staff]
      \/ handoff'[h] = [row EXCEPT !.status = status, !.resolver = req[t].staff]
  BY <1>1, <1>2 DEF TypeOK
<1>5. handoff'[h].draft = row.draft /\ handoff'[h].status = status
  BY <1>4 DEF Row
<1>6. \A g \in Handoffs \ {h} : handoff'[g] = handoff[g]
  BY <1>2 DEF TypeOK
<1>7. trail' = [trail EXCEPT ![h] = Append(@, Entry(t, status))]
  BY DEF CommitUpdate
<1>8. QED
  BY <1>1, <1>3, <1>4, <1>5, <1>6, <1>7

(* Every step keeps the types. *)
LEMMA TypeOKStep == TypeOK /\ RequestInHand /\ [Next]_vars => TypeOK'
<1> SUFFICES ASSUME TypeOK, RequestInHand, [Next]_vars
             PROVE  TypeOK'
  OBVIOUS
<1> USE DEF TypeOK, Labels, tables, threads, Goto, Return
<1>1. ASSUME NEW d \in Drafts, CreateDraft(d) PROVE TypeOK'
  BY <1>1 DEF CreateDraft
<1>2. ASSUME NEW d \in Drafts, Deadline(d) PROVE TypeOK'
  BY <1>2 DEF Deadline
<1>3. ASSUME NEW t \in Threads, NEW d \in Drafts, NEW k \in Keys, Confirm(t, d, k)
      PROVE  TypeOK'
  BY <1>3 DEF Confirm, Confirmations
<1>4. ASSUME NEW t \in Threads, NEW r \in Updates, Update(t, r) PROVE TypeOK'
  <2>1. seen'[t] \in Row
    BY <1>4, RequestShapes DEF Update
  <2>2. QED
    BY <1>4, <2>1 DEF Update
<1>5. ASSUME NEW t \in Threads, LookUp(t) PROVE TypeOK'
  <2>1. req[t] \in Confirmations
    BY <1>5 DEF LookUp, RequestInHand
  <2>2. replies' \in SUBSET Receipts
    <3>1. CASE \E a \in AuditOf(req[t]) : Reply(t, a.handoff)
      BY <1>5, <2>1, <3>1, AuditIsReceipt DEF Reply
    <3>2. CASE UNCHANGED replies
      BY <3>2
    <3>3. QED
      BY <1>5, <3>1, <3>2 DEF LookUp
  <2>3. QED
    BY ZenonT(20), <1>5, <2>2 DEF LookUp, Reply
<1>6. ASSUME NEW t \in Threads, ReadDraft(t) PROVE TypeOK'
  BY <1>6 DEF ReadDraft
<1>7. ASSUME NEW t \in Threads, Expire(t) PROVE TypeOK'
  BY <1>7 DEF Expire
<1>8. ASSUME NEW t \in Threads, Claim(t) PROVE TypeOK'
  BY <1>8 DEF Claim
<1>9. ASSUME NEW t \in Threads, ClaimLost(t) PROVE TypeOK'
  BY <1>9 DEF ClaimLost
<1>10. ASSUME NEW t \in Threads, CommitConfirm(t) PROVE TypeOK'
  <2>1. req[t] \in Confirmations
    BY <1>10 DEF CommitConfirm, RequestInHand
  <2>2. CASE AuditOf(req[t]) = {}
    <3>1. PICK h \in Handoffs :
            /\ draft' = [draft EXCEPT ![req[t].draft] = "confirmed"]
            /\ handoff' = [handoff EXCEPT ![h] =
                 [draft |-> req[t].draft, status |-> "open",
                  assignee |-> None, resolver |-> None]]
            /\ audits' = audits \union
                 {[draft |-> req[t].draft, key |-> req[t].key, handoff |-> h]}
            /\ trail' = [trail EXCEPT ![h] = <<<<"none", "open">>>>]
            /\ Reply(t, h)
      BY <1>10, <2>2 DEF CommitConfirm
    <3>2. [draft |-> req[t].draft, status |-> "open",
           assignee |-> None, resolver |-> None] \in Row
      BY <2>1, RequestShapes DEF Row
    <3>3. [draft |-> req[t].draft, key |-> req[t].key, handoff |-> h] \in Receipts
      BY <2>1, RequestShapes DEF Receipts
    <3>4. <<<<"none", "open">>>> \in Seq(Moves)
      <4>1. <<"none", "open">> \in Moves
        BY DEF Moves
      <4>2. \A S, x : x \in S => <<x>> \in Seq(S)
        OBVIOUS
      <4>3. QED
        BY <4>1, <4>2
    <3>5. UNCHANGED <<late, crashes>> /\ lock' = None
      BY <1>10 DEF CommitConfirm
    <3>6. QED
      BY <3>1, <3>2, <3>3, <3>4, <3>5 DEF Reply
  <2>3. CASE AuditOf(req[t]) # {}
    BY <1>10, <2>3 DEF CommitConfirm
  <2>4. QED
    BY <2>2, <2>3
<1>11. ASSUME NEW t \in Threads, Replay(t) PROVE TypeOK'
  <2>1. req[t] \in Confirmations
    BY <1>11 DEF Replay, RequestInHand
  <2>2. replies' \in SUBSET Receipts
    <3>1. CASE \E a \in AuditOf(req[t]) : Reply(t, a.handoff)
      BY <1>11, <2>1, <3>1, AuditIsReceipt DEF Reply
    <3>2. CASE UNCHANGED replies
      BY <3>2
    <3>3. QED
      BY <1>11, <3>1, <3>2 DEF Replay
  <2>3. QED
    BY <1>11, <2>2 DEF Replay, Reply
<1>12. ASSUME NEW t \in Threads, Flush(t) PROVE TypeOK'
  BY <1>12 DEF Flush
<1>13. ASSUME NEW t \in Threads, CommitUpdate(t) PROVE TypeOK'
  <2>1. /\ req[t] \in Updates /\ handoff[req[t].handoff] \in Row /\ seen[t] \in Row
    BY <1>13, RequestShapes DEF CommitUpdate, RequestInHand
  <2> DEFINE h == req[t].handoff
             status == IF req[t].verb = "assign" THEN "assigned" ELSE "resolved"
  <2>2. handoff' \in [Handoffs -> Row \union {None}]
    <3>1. /\ [handoff[h] EXCEPT !.status = status, !.assignee = req[t].staff] \in Row
          /\ [handoff[h] EXCEPT !.status = status, !.resolver = req[t].staff] \in Row
      BY <2>1, RequestShapes DEF Row
    <3>2. QED
      BY <1>13, <3>1 DEF CommitUpdate
  <2>3. trail' \in [Handoffs -> Seq(Moves)]
    <3>1. Entry(t, status) \in Moves
      BY <2>1 DEF Row, Moves, Entry
    <3>2. Append(trail[h], Entry(t, status)) \in Seq(Moves)
      BY <2>1, <3>1, RequestShapes, AppendProperties
    <3>3. QED
      BY <1>13, <3>2 DEF CommitUpdate
  <2>4. QED
    BY <1>13, <2>2, <2>3 DEF CommitUpdate
<1>14. ASSUME NEW t \in Threads, LockTimeout(t) PROVE TypeOK'
  BY <1>14 DEF LockTimeout
<1>15. ASSUME NEW t \in Threads, CommitFails(t) PROVE TypeOK'
  BY <1>15 DEF CommitFails
<1>16. ASSUME Crash PROVE TypeOK'
  BY <1>16 DEF Crash
<1>17. CASE UNCHANGED vars
  BY <1>17 DEF vars
<1>18. QED
  BY <1>1, <1>2, <1>3, <1>4, <1>5, <1>6, <1>7, <1>8, <1>9, <1>10, <1>11, <1>12,
     <1>13, <1>14, <1>15, <1>16, <1>17 DEF Next, Run

(* The lock is taken by a first write and given back by a commit or a      *)
(* rollback, and nothing else moves it.                                    *)
LEMMA LockProtectsStep == TypeOK /\ LockProtects /\ [Next]_vars => LockProtects'
<1> SUFFICES ASSUME TypeOK, LockProtects, [Next]_vars
             PROVE  LockProtects'
  OBVIOUS
<1> USE DEF TypeOK, LockProtects, threads, Goto, Return
<1>1. ASSUME NEW d \in Drafts, CreateDraft(d) PROVE LockProtects'
  BY <1>1 DEF CreateDraft
<1>2. ASSUME NEW t \in Threads, NEW d \in Drafts, NEW k \in Keys, Confirm(t, d, k)
      PROVE  LockProtects'
  BY <1>2 DEF Confirm
<1>3. ASSUME NEW t \in Threads, NEW r \in Updates, Update(t, r) PROVE LockProtects'
  BY <1>3 DEF Update
<1>4. ASSUME NEW t \in Threads, LookUp(t) PROVE LockProtects'
  BY <1>4 DEF LookUp, Reply
<1>5. ASSUME NEW t \in Threads, ReadDraft(t) PROVE LockProtects'
  BY <1>5 DEF ReadDraft
<1>6. ASSUME NEW t \in Threads, Expire(t) PROVE LockProtects'
  BY <1>6 DEF Expire
<1>7. ASSUME NEW t \in Threads, Claim(t) \/ Flush(t) PROVE LockProtects'
  BY <1>7 DEF Claim, Flush
<1>8. ASSUME NEW t \in Threads, ClaimLost(t) PROVE LockProtects'
  BY <1>8 DEF ClaimLost
<1>9. ASSUME NEW t \in Threads, CommitConfirm(t) PROVE LockProtects'
  BY SMTT(20), <1>9 DEF CommitConfirm, Reply
<1>10. ASSUME NEW t \in Threads, Replay(t) PROVE LockProtects'
  BY <1>10 DEF Replay, Reply
<1>11. ASSUME NEW t \in Threads, CommitUpdate(t) \/ CommitFails(t)
       PROVE  LockProtects'
  BY <1>11 DEF CommitUpdate, CommitFails
<1>12. ASSUME NEW t \in Threads, LockTimeout(t) PROVE LockProtects'
  BY <1>12 DEF LockTimeout
<1>13. ASSUME Crash PROVE LockProtects'
  BY <1>13 DEF Crash
<1>14. CASE UNCHANGED <<lock, threads>>
  BY <1>14
<1>15. QED
  BY <1>1, <1>2, <1>3, <1>4, <1>5, <1>6, <1>7, <1>8, <1>9, <1>10, <1>11, <1>12,
     <1>13, <1>14 DEF Next, Run, Deadline, vars

(* The draft of a thread about to insert stays pending: whoever would      *)
(* change it needs the lock this thread holds.                             *)
LEMMA RequestInHandStep ==
  TypeOK /\ LockProtects /\ RequestInHand /\ [Next]_vars => RequestInHand'
<1> SUFFICES ASSUME TypeOK, LockProtects, RequestInHand, [Next]_vars
             PROVE  RequestInHand'
  OBVIOUS
<1> USE DEF TypeOK, RequestInHand, LockProtects, tables, threads, Goto, Return
<1>1. ASSUME NEW d \in Drafts, CreateDraft(d) PROVE RequestInHand'
  BY <1>1, RequestShapes DEF CreateDraft
<1>2. ASSUME NEW t \in Threads, NEW d \in Drafts, NEW k \in Keys, Confirm(t, d, k)
      PROVE  RequestInHand'
  BY <1>2 DEF Confirm, Confirmations
<1>3. ASSUME NEW t \in Threads, NEW r \in Updates, Update(t, r) PROVE RequestInHand'
  <2>1. handoff[r.handoff] \in Row
    BY <1>3, RequestShapes DEF Update
  <2>2. QED
    BY <1>3, <2>1 DEF Update
<1>4. ASSUME NEW t \in Threads, LookUp(t) PROVE RequestInHand'
  BY <1>4 DEF LookUp, Reply
<1>5. ASSUME NEW t \in Threads, ReadDraft(t) PROVE RequestInHand'
  BY <1>5 DEF ReadDraft
<1>6. ASSUME NEW t \in Threads, Expire(t) PROVE RequestInHand'
  BY <1>6, RequestShapes DEF Expire
<1>7. ASSUME NEW t \in Threads, Claim(t) PROVE RequestInHand'
  BY <1>7 DEF Claim
<1>8. ASSUME NEW t \in Threads, Flush(t) PROVE RequestInHand'
  BY <1>8 DEF Flush
<1>9. ASSUME NEW t \in Threads, ClaimLost(t) PROVE RequestInHand'
  BY <1>9 DEF ClaimLost
<1>10. ASSUME NEW t \in Threads, CommitConfirm(t) PROVE RequestInHand'
  <2>1. CASE UNCHANGED tables
    BY <1>10, <2>1 DEF CommitConfirm, Reply
  <2>2. CASE AuditOf(req[t]) = {}
    <3>1. PICK h \in Handoffs :
            /\ handoff[h] = None
            /\ draft' = [draft EXCEPT ![req[t].draft] = "confirmed"]
            /\ handoff' = [handoff EXCEPT ![h] =
                 [draft |-> req[t].draft, status |-> "open",
                  assignee |-> None, resolver |-> None]]
            /\ Reply(t, h)
      BY <1>10, <2>2 DEF CommitConfirm
    <3>2. handoff'[h] \in Row
      BY <1>10, <3>1, RequestShapes DEF CommitConfirm, Row
    <3>3. \A g \in Handoffs : handoff[g] # None => handoff'[g] # None
      BY <3>1, <3>2
    <3>4. \A u \in Threads : pc[u] = "insert" => u = t
      BY <1>10 DEF CommitConfirm
    <3>5. QED
      BY <3>1, <3>3, <3>4, RequestShapes DEF Reply
  <2>3. QED
    BY <1>10, <2>1, <2>2 DEF CommitConfirm
<1>11. ASSUME NEW t \in Threads, Replay(t) PROVE RequestInHand'
  BY <1>11 DEF Replay, Reply
<1>12. ASSUME NEW t \in Threads, CommitUpdate(t) PROVE RequestInHand'
  <2>1. req[t] \in Updates /\ handoff[req[t].handoff] \in Row
    BY <1>12, RequestShapes DEF CommitUpdate
  <2>2. handoff'[req[t].handoff] \in Row
    BY <1>12, <2>1, RowChanges DEF TypeOK
  <2>3. \A g \in Handoffs : handoff[g] # None => handoff'[g] # None
    BY <1>12, <2>2 DEF CommitUpdate
  <2>4. QED
    BY <1>12, <2>3, RequestShapes DEF CommitUpdate
<1>13. ASSUME NEW t \in Threads, LockTimeout(t) \/ CommitFails(t)
       PROVE  RequestInHand'
  BY <1>13 DEF LockTimeout, CommitFails
<1>14. ASSUME Crash PROVE RequestInHand'
  BY <1>14 DEF Crash
<1>15. CASE UNCHANGED <<tables, threads>>
  BY <1>15
<1>16. QED
  BY <1>1, <1>2, <1>3, <1>4, <1>5, <1>6, <1>7, <1>8, <1>9, <1>10, <1>11, <1>12,
     <1>13, <1>14, <1>15 DEF Next, Run, Deadline, vars

(* What a confirmation commits, spelled out: the constraint on the         *)
(* idempotency key never refuses it.                                       *)
LEMMA ConfirmCommits ==
  ASSUME TypeOK, RequestInHand, DraftSettled,
         NEW t \in Threads, CommitConfirm(t)
  PROVE  LET r == req[t] IN
         /\ r \in Confirmations /\ r.draft \in Drafts
         /\ draft[r.draft] = "pending"
         /\ \A g \in Open : handoff[g].draft # r.draft
         /\ \A a \in audits : a.draft # r.draft
         /\ draft' = [draft EXCEPT ![r.draft] = "confirmed"]
         /\ \E h \in Handoffs :
              /\ handoff[h] = None
              /\ handoff'[h] # None /\ handoff'[h].draft = r.draft
              /\ handoff'[h].status = "open"
              /\ \A g \in Handoffs \ {h} : handoff'[g] = handoff[g]
              /\ audits' = audits \union
                   {[draft |-> r.draft, key |-> r.key, handoff |-> h]}
              /\ replies' = replies \union
                   {[draft |-> r.draft, key |-> r.key, handoff |-> h]}
              /\ trail' = [trail EXCEPT ![h] = <<<<"none", "open">>>>]
<1> DEFINE r == req[t]
<1>1. r \in Confirmations /\ r.draft \in Drafts /\ draft[r.draft] = "pending"
  BY RequestShapes DEF RequestInHand, CommitConfirm
<1>2. \A g \in Open : handoff[g].draft # r.draft
  BY <1>1 DEF DraftSettled
<1>3. \A a \in audits : a.draft # r.draft
  <2> SUFFICES ASSUME NEW a \in audits, a.draft = r.draft PROVE FALSE
    OBVIOUS
  <2>1. a.handoff \in Handoffs
    BY DEF TypeOK, Receipts
  <2>2. a.handoff \in Open /\ handoff[a.handoff].draft = r.draft
    BY <2>1 DEF DraftSettled, Open
  <2>3. QED
    BY <1>2, <2>2
<1>4. AuditOf(r) = {}
  BY <1>3 DEF AuditOf
<1>5. PICK h \in Handoffs :
        /\ handoff[h] = None
        /\ draft' = [draft EXCEPT ![r.draft] = "confirmed"]
        /\ handoff' = [handoff EXCEPT ![h] =
             [draft |-> r.draft, status |-> "open",
              assignee |-> None, resolver |-> None]]
        /\ audits' = audits \union
             {[draft |-> r.draft, key |-> r.key, handoff |-> h]}
        /\ trail' = [trail EXCEPT ![h] = <<<<"none", "open">>>>]
        /\ Reply(t, h)
  BY <1>4 DEF CommitConfirm
<1>6. handoff'[h] = [draft |-> r.draft, status |-> "open",
                     assignee |-> None, resolver |-> None]
  BY <1>5 DEF TypeOK
<1>7. handoff'[h] \in Row
  BY <1>1, <1>6 DEF Row
<1>8. handoff'[h].draft = r.draft /\ handoff'[h].status = "open"
  BY <1>6
<1>9. \A g \in Handoffs \ {h} : handoff'[g] = handoff[g]
  BY <1>5 DEF TypeOK
<1>10. replies' = replies \union
         {[draft |-> r.draft, key |-> r.key, handoff |-> h]}
  BY <1>5 DEF Reply
<1>11. QED
  BY <1>1, <1>2, <1>3, <1>5, <1>7, <1>8, <1>9, <1>10

(* A draft, its handoff and its audit row stay together. *)
LEMMA SettledStep ==
  TypeOK /\ RequestInHand /\ DraftSettled /\ OneHandoffPerDraft /\ [Next]_vars
    => DraftSettled' /\ OneHandoffPerDraft'
<1> SUFFICES ASSUME TypeOK, RequestInHand, DraftSettled, OneHandoffPerDraft,
                    [Next]_vars
             PROVE  DraftSettled' /\ OneHandoffPerDraft'
  OBVIOUS
<1> USE DEF DraftSettled, OneHandoffPerDraft, Open
<1>1. ASSUME NEW d \in Drafts, CreateDraft(d)
      PROVE  DraftSettled' /\ OneHandoffPerDraft'
  BY <1>1 DEF CreateDraft, TypeOK
<1>2. ASSUME NEW t \in Threads, Expire(t)
      PROVE  DraftSettled' /\ OneHandoffPerDraft'
  BY <1>2 DEF Expire, TypeOK
<1>3. ASSUME NEW t \in Threads, NEW a \in AuditOf(req[t]), Reply(t, a.handoff),
             req[t] \in Confirmations, UNCHANGED tables
      PROVE  DraftSettled' /\ OneHandoffPerDraft'
  <2>1. replies' = replies \union {a}
    BY <1>3, AuditIsReceipt DEF Reply
  <2>2. a \in audits
    BY <1>3, AuditIsReceipt
  <2>3. QED
    BY <1>3, <2>1, <2>2 DEF tables
<1>4. CASE UNCHANGED <<tables, replies>>
  BY <1>4 DEF tables
<1>5. ASSUME NEW t \in Threads, LookUp(t) \/ Replay(t)
      PROVE  DraftSettled' /\ OneHandoffPerDraft'
  <2>1. req[t] \in Confirmations /\ UNCHANGED tables
    BY <1>5 DEF LookUp, Replay, RequestInHand
  <2>2. QED
    BY <1>3, <1>4, <1>5, <2>1 DEF LookUp, Replay
<1>6. ASSUME NEW t \in Threads, CommitConfirm(t)
      PROVE  DraftSettled' /\ OneHandoffPerDraft'
  <2> DEFINE r == req[t]
  <2>1. /\ r.draft \in Drafts
        /\ \A g \in Open : handoff[g].draft # r.draft
        /\ \A a \in audits : a.draft # r.draft
        /\ draft' = [draft EXCEPT ![r.draft] = "confirmed"]
    BY <1>6, ConfirmCommits
  <2>2. PICK h \in Handoffs :
          /\ handoff[h] = None
          /\ handoff'[h] # None /\ handoff'[h].draft = r.draft
          /\ \A g \in Handoffs \ {h} : handoff'[g] = handoff[g]
          /\ audits' = audits \union
               {[draft |-> r.draft, key |-> r.key, handoff |-> h]}
          /\ replies' = replies \union
               {[draft |-> r.draft, key |-> r.key, handoff |-> h]}
    BY <1>6, ConfirmCommits
  <2> DEFINE new == [draft |-> r.draft, key |-> r.key, handoff |-> h]
  <2>3. new.draft = r.draft /\ new.handoff = h
    OBVIOUS
  <2>4. audits' = audits \union {new} /\ replies' = replies \union {new}
    BY <2>2
  <2>5. \A a \in audits : a.handoff \in Handoffs \ {h}
    BY <2>2 DEF TypeOK, Receipts
  <2> HIDE DEF new
  <2>6. DraftSettled'
    <3>1. \A g \in Open' : draft'[handoff'[g].draft] \in {"confirmed", "expired"}
      BY SMTT(20), <2>1, <2>2 DEF TypeOK, Row
    <3>2. \A a \in audits' : /\ handoff'[a.handoff] # None
                             /\ handoff'[a.handoff].draft = a.draft
      BY <2>2, <2>3, <2>4, <2>5
    <3>3. \A a, b \in audits' : a.draft = b.draft => a = b
      BY <2>1, <2>3, <2>4
    <3>4. QED
      BY <2>4, <3>1, <3>2, <3>3
  <2>7. OneHandoffPerDraft'
    <3>1. \A f, g \in Open' : handoff'[f].draft = handoff'[g].draft => f = g
      BY <2>1, <2>2
    <3>2. ASSUME NEW d \in Drafts, draft'[d] = "confirmed"
          PROVE  \E g \in Open' : handoff'[g].draft = d
      <4>1. CASE d = r.draft
        BY <2>2, <4>1
      <4>2. CASE d # r.draft
        <5>1. draft[d] = "confirmed"
          BY <2>1, <3>2, <4>2 DEF TypeOK
        <5>2. PICK g \in Open : handoff[g].draft = d
          BY <5>1
        <5>3. g \in Handoffs \ {h}
          BY <2>2, <5>2
        <5>4. QED
          BY <2>2, <5>2, <5>3
      <4>3. QED
        BY <4>1, <4>2
    <3>3. \A g \in Open' : draft'[handoff'[g].draft] # "pending"
      BY <2>6
    <3>4. QED
      BY <3>1, <3>2, <3>3
  <2>8. QED
    BY <2>6, <2>7
<1>7. ASSUME NEW t \in Threads, CommitUpdate(t)
      PROVE  DraftSettled' /\ OneHandoffPerDraft'
  <2>1. req[t] \in Updates /\ handoff[req[t].handoff] \in Row
    BY <1>7, RequestShapes DEF CommitUpdate, RequestInHand, TypeOK
  <2>2. \A g \in Handoffs : /\ handoff'[g] = None <=> handoff[g] = None
                            /\ handoff'[g].draft = handoff[g].draft
    BY <1>7, <2>1, RowChanges
  <2>3. UNCHANGED <<draft, audits, replies>>
    BY <1>7 DEF CommitUpdate
  <2>4. \A a \in audits : a.handoff \in Handoffs
    BY DEF TypeOK, Receipts
  <2>5. QED
    BY <2>2, <2>3, <2>4
<1>8. QED
  BY <1>1, <1>2, <1>4, <1>5, <1>6, <1>7
     DEF Next, Run, vars, tables, Deadline, Confirm, Update, ReadDraft, Claim,
         ClaimLost, Flush, LockTimeout, CommitFails, Crash

(* The trail grows with the row and ends with its status. *)
LEMMA TrailStep ==
  TypeOK /\ RequestInHand /\ DraftSettled /\ TrailIsCurrent /\ [Next]_vars
    => TrailIsCurrent'
<1> SUFFICES ASSUME TypeOK, RequestInHand, DraftSettled, TrailIsCurrent,
                    [Next]_vars
             PROVE  TrailIsCurrent'
  OBVIOUS
<1>1. CASE UNCHANGED <<handoff, trail>>
  BY <1>1 DEF TrailIsCurrent
<1>2. ASSUME NEW t \in Threads, CommitConfirm(t) PROVE TrailIsCurrent'
  <2>1. PICK h \in Handoffs :
          /\ handoff'[h] # None /\ handoff'[h].status = "open"
          /\ \A g \in Handoffs \ {h} : handoff'[g] = handoff[g]
          /\ trail' = [trail EXCEPT ![h] = <<<<"none", "open">>>>]
    BY <1>2, ConfirmCommits
  <2>2. /\ trail'[h] = <<<<"none", "open">>>>
        /\ \A g \in Handoffs \ {h} : trail'[g] = trail[g]
    BY <2>1 DEF TypeOK
  <2>3. QED
    BY <2>1, <2>2 DEF TrailIsCurrent
<1>3. ASSUME NEW t \in Threads, CommitUpdate(t) PROVE TrailIsCurrent'
  <2> DEFINE h == req[t].handoff
             status == IF req[t].verb = "assign" THEN "assigned" ELSE "resolved"
             entry == Entry(t, status)
  <2>1. req[t] \in Updates /\ handoff[h] # None /\ handoff[h] \in Row
    BY <1>3, RequestShapes DEF CommitUpdate, RequestInHand, TypeOK
  <2>2. /\ h \in Handoffs
        /\ handoff'[h] \in Row /\ handoff'[h].status = status
        /\ \A g \in Handoffs \ {h} : handoff'[g] = handoff[g]
        /\ trail' = [trail EXCEPT ![h] = Append(@, entry)]
    BY <1>3, <2>1, RowChanges
  <2>3. /\ trail'[h] = Append(trail[h], entry)
        /\ \A g \in Handoffs \ {h} : trail'[g] = trail[g]
    BY <2>2 DEF TypeOK
  <2>4. /\ trail[h] \in Seq(Moves) /\ trail[h] # <<>>
        /\ trail[h][1] = <<"none", "open">>
    BY <2>1, <2>2 DEF TypeOK, TrailIsCurrent
  <2>5. entry[2] = status
    BY DEF Entry
  <2> HIDE DEF entry, status
  <2>6. /\ trail'[h] # <<>>
        /\ trail'[h][1] = <<"none", "open">>
        /\ trail'[h][Len(trail'[h])] = entry
    BY SMTT(20), <2>3, <2>4
  <2>7. QED
    BY <2>2, <2>3, <2>5, <2>6 DEF TrailIsCurrent
<1>4. QED
  BY <1>1, <1>2, <1>3
     DEF Next, Run, vars, tables, CreateDraft, Deadline, Confirm, Update, LookUp,
         ReadDraft, Expire, Claim, ClaimLost, Replay, Flush, LockTimeout,
         CommitFails, Crash

(* The invariant holds from the start and no step leaves it. *)
THEOREM Inductive == Spec => [](TypeOK /\ IInv)
<1>1. Init => TypeOK /\ IInv
  BY DEF Init, TypeOK, IInv, LockProtects, RequestInHand, DraftSettled,
         OneHandoffPerDraft, TrailIsCurrent, Open, Labels
<1>2. TypeOK /\ IInv /\ [Next]_vars => TypeOK' /\ IInv'
  BY TypeOKStep, LockProtectsStep, RequestInHandStep, SettledStep, TrailStep
     DEF IInv
<1>3. QED
  BY <1>1, <1>2, PTL DEF Spec

(* Every variable of the desk keeps its type. *)
THEOREM TypeCorrect == Spec => []TypeOK
BY Inductive, PTL

(* A draft turns into one handoff at most, and into one exactly when it is *)
(* confirmed, whatever is retried, times out or dies.                      *)
THEOREM DraftsConfirmOnce == Spec => []OneHandoffPerDraft
<1>1. TypeOK /\ IInv => OneHandoffPerDraft
  BY DEF IInv
<1>2. QED
  BY <1>1, Inductive, PTL

(* All confirmations of a draft that are answered with a handoff are       *)
(* answered with the same one.                                             *)
THEOREM RepliesTheorem == Spec => []RepliesAgree
<1>1. TypeOK /\ IInv => RepliesAgree
  BY DEF IInv, DraftSettled, RepliesAgree
<1>2. QED
  BY <1>1, Inductive, PTL

(* The audit trail of a handoff ends with its status. *)
THEOREM TrailTheorem == Spec => []TrailIsCurrent
<1>1. TypeOK /\ IInv => TrailIsCurrent
  BY DEF IInv
<1>2. QED
  BY <1>1, Inductive, PTL
=============================================================================
