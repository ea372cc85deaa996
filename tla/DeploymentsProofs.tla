-------------------------- MODULE DeploymentsProofs --------------------------
(* Theorems about Deployments, for any environments, people, runners and    *)
(* workers, any number of deployments and assignments, and any crashes,     *)
(* broken connections, stops of the node and cancellations.                 *)
EXTENDS Deployments, TLAPS

---------------------------------------------------------------------------
(* The inductive invariant *)

\* Up to verification the status of a row says how many events it has seen.
Sequence ==
  [awaiting_approval |-> 0, queued |-> 0, preparing |-> 1, converging_services |-> 2,
   migrating |-> 3, activating |-> 4]

\* What every row satisfies, stored or computed.
Good(n) ==
  /\ n.status \in Executing \cup {"verification_failed"} => n.runner # None
  /\ NeedsApproval(n.environment, n.kind) /\ n.status \notin {"awaiting_approval", "cancelled"}
       => n.approver \in Administrators \ {n.requester}
  /\ n.status \in DOMAIN Sequence => n.sequence = Sequence[n.status]

Rows == \A d \in Stored : Good(row[d]) /\ d <= requests

\* A row that is computed from one past dispatch has the runner and the token
\* that the stored row has by now: no one writes those any more.
Settled(work) ==
  work.expected \notin Pending =>
    /\ row[work.id].status \notin Pending
    /\ row[work.id].runner = work.new.runner
    /\ row[work.id].token = work.new.token

Inserts(work) ==
  /\ work.id \notin Stored
  /\ work.new.status \in Pending /\ work.new.runner = None

Updates(work) ==
  /\ work.id \in Stored /\ Settled(work)
  /\ work.expected \in Cancellable /\ work.new.sequence = Sequence[work.expected]
  /\ work.new.status = "cancelled" \/ (work.new.status = "queued" /\ work.expected \in Pending)

Records(work) ==
  /\ work.id \in Stored /\ Settled(work)
  /\ work.expected \in {"queued", "verification_failed"} \cup Executing
  /\ work.new.status \notin Pending
  /\ work.expected = "queued" =>
       /\ work.new.status = "preparing"
       /\ work.via # None =>
            work.via = work.new.runner /\ AssignmentOf(work) \in held \ started
  /\ work.expected = "verification_failed" => work.new.status = "verifying"

\* What a worker has in hand.
Hand(work) ==
  /\ work.step \in Writes => Good(work.new)
  /\ work.step = "insert" => Inserts(work)
  /\ work.step = "update" => Updates(work)
  /\ work.step = "event" => Records(work)
  /\ work.step = "answer" => /\ work.via = work.assignment.runner
                             /\ work.assignment \in held
                             /\ work.assignment.token \in recorded
  /\ work.step \in {"verify", "confirm"} => work.id \in Stored

Hands == worker \in [Workers -> Work] /\ \A w \in Workers : Hand(worker[w])

\* A channel handles one message at a time, and a request has an id of its own.
Apart(v, w) ==
  /\ worker[v] # Idle /\ worker[w] # Idle /\ worker[v].via = worker[w].via =>
       worker[v].via = None
  /\ worker[v].step = "insert" /\ worker[w].step = "insert" => worker[v].id # worker[w].id

Exclusive ==
  /\ \A v, w \in Workers : v # w => Apart(v, w)
  /\ \A w \in Workers : worker[w].step = "insert" => worker[w].id <= requests

\* Assignments that are about: held by a runner, in a row, or in a worker's hand.
Carries(work, a) ==
  \/ (work.step \in Writes /\ work.new.runner # None /\ a = AssignmentOf(work))
  \/ (work.step \in {"offer", "answer"} /\ a = work.assignment)

InRow(a) ==
  a.id \in Stored /\ row[a.id].runner = a.runner /\ row[a.id].token = a.token

Known(a) ==
  \/ a \in held
  \/ (InRow(a) /\ a.runner # None)
  \/ \E w \in Workers : Carries(worker[w], a)

\* A token belongs to one assignment; once its acceptance is recorded the row
\* names that assignment and has left the queue.
Assignments ==
  /\ \A a \in Assignment : Known(a) => a.id \in Stored /\ a.token <= tokens
  /\ \A a, b \in Assignment : Known(a) /\ Known(b) /\ a.token = b.token => a = b
  /\ \A a \in Assignment : Known(a) /\ a.token \in recorded =>
       InRow(a) /\ row[a.id].status \notin Pending
  /\ \A t \in recorded : t <= tokens
  /\ \A a \in started : a.token \in recorded

\* The unique indexes.
Indexed ==
  /\ \A d, e \in Stored : Occupies(row[d]) /\ Occupies(row[e]) /\ d # e =>
       row[d].environment # row[e].environment
  /\ \A d, e \in Stored, r \in Runners : Engages(row[d], r) /\ Engages(row[e], r) => d = e

\* Connections and what is sent again over them: all of their types, and no
\* theorem needs more.
Links ==
  /\ failures \in 0..MaxFailures
  /\ unanswered \subseteq Ids /\ replays \subseteq Ids
  /\ link \in [Runners -> {"joined", "away", "deaf"}]

IInv == TypeOK /\ Rows /\ Hands /\ Exclusive /\ Assignments /\ Indexed
---------------------------------------------------------------------------
(* Types *)

\* What a worker may have in hand, field by field.
LEMMA WorkFields ==
  ASSUME NEW work \in Work
  PROVE  /\ work # Idle => work.via \in Runners \cup {None}
         /\ work.step \in Writes =>
              /\ work # Idle
              /\ work.id \in Ids /\ work.expected \in Status /\ work.new \in Row
         /\ work.step \in {"offer", "answer"} =>
              work # Idle /\ work.assignment \in Assignment
         /\ work.step \in {"verify", "confirm"} => work # Idle /\ work.id \in Ids
         /\ work = Idle => work.step = "idle"
<1>1. CASE work = Idle
  BY <1>1 DEF Idle, Writes
<1>2. CASE work \in [step : {"insert", "update", "event"}, via : Runners \cup {None},
                     id : Ids, expected : Status, new : Row]
  BY <1>2 DEF Idle, Writes
<1>3. CASE work \in [step : {"offer", "answer"}, via : Runners \cup {None}, assignment : Assignment]
  BY <1>3 DEF Idle, Writes
<1>4. CASE work \in [step : {"verify", "confirm"}, via : Runners \cup {None}, id : Ids]
  BY <1>4 DEF Idle, Writes
<1> QED
  BY <1>1, <1>2, <1>3, <1>4 DEF Work

\* What a use case takes in hand has its type.
LEMMA WriteType ==
  ASSUME NEW step \in Writes, NEW via \in Runners \cup {None}, NEW d \in Ids,
         NEW expected \in Status, NEW new \in Row
  PROVE  [step |-> step, via |-> via, id |-> d, expected |-> expected, new |-> new] \in Work
BY DEF Work, Writes

\* So do the offer or the answer of an assignment,
LEMMA AnswerType ==
  ASSUME NEW step \in {"offer", "answer"}, NEW via \in Runners \cup {None}, NEW a \in Assignment
  PROVE  [step |-> step, via |-> via, assignment |-> a] \in Work
BY DEF Work

\* and a verification or its confirmation.
LEMMA VerifyType ==
  ASSUME NEW step \in {"verify", "confirm"}, NEW via \in Runners \cup {None}, NEW d \in Ids
  PROVE  [step |-> step, via |-> via, id |-> d] \in Work
BY DEF Work

\* A stored row has the type of a row, and a row is stored.
LEMMA StoredRows ==
  ASSUME TypeOK
  PROVE  /\ Stored \subseteq Ids
         /\ \A d \in Stored : row[d] \in Row
         /\ \A d \in Ids : row[d] \in Row => d \in Stored
BY RowAssumption DEF TypeOK, Stored

\* Rows and assignments, field by field.
LEMMA RowFields ==
  ASSUME NEW n \in Row
  PROVE  /\ n.status \in Status /\ n.environment \in Environments /\ n.kind \in Kinds
         /\ n.requester \in People /\ n.approver \in People \cup {None}
         /\ n.runner \in Runners \cup {None} /\ n.token \in Tokens
         /\ n.sequence \in 0..MaxSequence
BY DEF Row

\* An event changes a row's status and sequence only.
LEMMA AdvancedRow ==
  ASSUME NEW n \in Row, NEW status \in Status, n.sequence < MaxSequence
  PROVE  LET m == Advanced(n, status) IN
         /\ m \in Row
         /\ m.status = status /\ m.sequence = n.sequence + 1
         /\ m.environment = n.environment /\ m.kind = n.kind /\ m.requester = n.requester
         /\ m.approver = n.approver /\ m.runner = n.runner /\ m.token = n.token
<1>1. n.sequence + 1 \in 0..MaxSequence
  BY DeploymentsAssumption DEF Row
<1> QED
  BY <1>1 DEF Row, Advanced

\* A row that gets a new status, an approver, or a runner and a token.
LEMMA ChangedRow ==
  ASSUME NEW n \in Row, NEW status \in Status, NEW person \in People,
         NEW r \in Runners, NEW token \in Tokens
  PROVE  /\ [n EXCEPT !.status = status] \in Row
         /\ [n EXCEPT !.status = status, !.approver = person] \in Row
         /\ [n EXCEPT !.runner = r, !.token = token] \in Row
BY DEF Row

---------------------------------------------------------------------------
(* Steps that leave the rows alone *)

\* Connections that are left alone.
LEMMA LinksKept ==
  ASSUME IInv, UNCHANGED <<failures, unanswered, link, replays>>
  PROVE  Links'
BY DEF Links, IInv, TypeOK

Gets(w, work) == worker' = [worker EXCEPT ![w] = work]

\* Worker w goes on to `work', something else it has in hand or nothing; runners
\* may get, start or forget assignments.
Taking(w, work) ==
  /\ work \in Work /\ worker' = [worker EXCEPT ![w] = work] /\ Hand(work)
  /\ \A v \in Workers \ {w} :
       worker[v] # Idle /\ work # Idle /\ worker[v].via = work.via => work.via = None
  /\ requests' \in 0..MaxDeployments /\ requests <= requests'
  /\ work.step = "insert" => /\ work.id <= requests'
                             /\ requests < work.id \/ work = worker[w]
  /\ tokens' \in Tokens /\ tokens <= tokens'
  /\ \A a \in Assignment : Carries(work, a) =>
       Known(a) \/ (a.id \in Stored /\ tokens < a.token /\ a.token = tokens')
  /\ \A a \in held' : a \in Assignment /\ Known(a)
  /\ \A a \in (held \ held') \cup (started' \ started), v \in Workers :
       worker'[v] # Idle => worker'[v].via # a.runner
  /\ started' \subseteq held' /\ \A a \in started' : a.token \in recorded
  /\ Links'
  /\ UNCHANGED <<row, recorded>>

\* The invariant is kept when the rows are.
LEMMA TakingKeeps ==
  ASSUME IInv, NEW w \in Workers, NEW work \in Work, Taking(w, work)
  PROVE  IInv'
<1>1. /\ worker' \in [Workers -> Work] /\ worker'[w] = work
      /\ \A v \in Workers \ {w} : worker'[v] = worker[v]
  BY DEF IInv, Hands, Taking
<1>2. TypeOK'
  <2>1. \A v \in Workers : worker'[v] \in Work
    BY <1>1 DEF IInv, TypeOK
  <2> QED
    BY <2>1 DEF Taking, IInv, TypeOK, Links
<1>3. UNCHANGED <<row, recorded, Stored>>
  BY DEF Taking, Stored
<1>4. Rows'
  <2>1. \A d \in Stored : d \in Ids /\ d <= requests
    BY StoredRows DEF IInv, Rows
  <2>2. requests \in Nat /\ requests' \in Nat /\ requests <= requests'
    BY DEF Taking, IInv, TypeOK
  <2>3. \A d \in Stored : d <= requests'
    BY <2>1, <2>2 DEF Ids
  <2> QED
    BY <1>3, <2>3 DEF IInv, Rows, Good
<1>5. Hands'
  <2> SUFFICES ASSUME NEW v \in Workers PROVE Hand(worker[v])'
    BY <1>1 DEF Hands
  <2> DEFINE hand == worker'[v]
  <2>1. Hand(hand)
    BY <1>1 DEF IInv, Hands, Taking
  <2>2. /\ hand \in Work
        /\ \A a \in (held \ held') \cup (started' \ started) : hand # Idle => hand.via # a.runner
    BY <1>2 DEF Taking, TypeOK
  <2>3. hand.step = "answer" => hand # Idle /\ hand.assignment \in held'
    BY <2>1, <2>2, WorkFields DEF Hand
  <2>4. hand.step = "event" /\ hand.expected = "queued" /\ hand.via # None =>
          AssignmentOf(hand) \in held' \ started'
    BY <2>1, <2>2, WorkFields DEF Hand, Records, AssignmentOf, Writes
  <2> QED
    BY <1>3, <2>1, <2>3, <2>4 DEF Hand, Good, Inserts, Updates, Records, Settled, AssignmentOf
<1>6. Exclusive'
  <2>1. requests \in Nat /\ requests' \in Nat /\ requests <= requests'
    BY DEF Taking, IInv, TypeOK
  <2>2. \A v \in Workers : worker'[v].step = "insert" => worker'[v].id <= requests'
    <3> SUFFICES ASSUME NEW v \in Workers, worker'[v].step = "insert"
                 PROVE  worker'[v].id <= requests'
      OBVIOUS
    <3>1. worker'[v] \in Work /\ worker'[v].id \in Ids
      BY <1>2, WorkFields DEF TypeOK, Writes
    <3>2. CASE v = w
      BY <1>1, <2>1, <3>2 DEF Taking
    <3>3. CASE v # w
      BY <1>1, <2>1, <3>1, <3>3 DEF IInv, Exclusive, Ids
    <3> QED
      BY <3>2, <3>3
  <2>3. ASSUME NEW v \in Workers \ {w}
        PROVE  /\ worker[v] # Idle /\ work # Idle /\ worker[v].via = work.via => work.via = None
               /\ worker[v].step = "insert" /\ work.step = "insert" => worker[v].id # work.id
    <3>1. worker[v].step = "insert" => worker[v].id \in Ids /\ worker[v].id <= requests
      BY WorkFields DEF IInv, TypeOK, Exclusive, Writes
    <3>2. worker[v].step = "insert" /\ worker[w].step = "insert" => worker[v].id # worker[w].id
      BY DEF IInv, Exclusive, Apart
    <3>3. work.step = "insert" => work.id \in Ids
      BY WorkFields DEF Writes
    <3> QED
      BY <2>1, <3>1, <3>2, <3>3 DEF Taking, Ids
  <2>4. ASSUME NEW u \in Workers, NEW v \in Workers, u # v PROVE Apart(u, v)'
    BY <1>1, <2>3, <2>4 DEF Apart, IInv, Exclusive
  <2> QED
    BY <2>2, <2>4 DEF Exclusive
<1>7. Assignments'
  <2>1. ASSUME NEW a \in Assignment, Known(a)'
        PROVE  \/ Known(a)
               \/ (a.id \in Stored /\ tokens < a.token /\ a.token = tokens' /\ Carries(work, a))
    <3>1. \/ Known(a)
          \/ (InRow(a) /\ a.runner # None)
          \/ \E v \in Workers : Carries(worker'[v], a)
      BY <1>3, <2>1 DEF Known, InRow, Carries, AssignmentOf, Taking
    <3>2. ASSUME NEW v \in Workers, Carries(worker'[v], a)
          PROVE  \/ Known(a)
                 \/ (a.id \in Stored /\ tokens < a.token /\ a.token = tokens' /\ Carries(work, a))
      <4>1. CASE v = w
        BY <1>1, <3>2, <4>1 DEF Taking
      <4>2. CASE v # w
        BY <1>1, <3>2, <4>2 DEF Known
      <4> QED
        BY <4>1, <4>2
    <3> QED
      BY <3>1, <3>2 DEF Known
  <2>2. /\ tokens \in Nat /\ tokens' \in Nat /\ tokens <= tokens'
        /\ \A a \in Assignment : a.token \in Nat
        /\ \A t \in recorded : t \in Nat
    BY DEF Taking, IInv, TypeOK, Tokens, Assignment
  <2>3. /\ \A a \in Assignment : Known(a) => a.id \in Stored /\ a.token <= tokens
        /\ \A a, b \in Assignment : Known(a) /\ Known(b) /\ a.token = b.token => a = b
        /\ \A a \in Assignment : Known(a) /\ a.token \in recorded =>
             InRow(a) /\ row[a.id].status \notin Pending
        /\ \A t \in recorded : t <= tokens
        /\ \A a \in started : a.token \in recorded
    BY DEF IInv, Assignments
  <2>4. ASSUME NEW a \in Assignment, Known(a)' PROVE a.id \in Stored' /\ a.token <= tokens'
    BY <1>3, <2>1, <2>2, <2>3, <2>4
  <2>5. ASSUME NEW a \in Assignment, NEW b \in Assignment, Known(a)', Known(b)', a.token = b.token
        PROVE  a = b
    <3>1. CASE Known(a) /\ Known(b)
      BY <2>3, <2>5, <3>1
    <3>2. CASE ~ Known(a) /\ ~ Known(b)
      <4>1. Carries(work, a) /\ Carries(work, b)
        BY <2>1, <2>5, <3>2
      <4>2. work.step \in Writes => work.step \notin {"offer", "answer"}
        BY DEF Writes
      <4> QED
        BY <4>1, <4>2 DEF Carries
    <3>3. CASE Known(a) /\ ~ Known(b)
      BY <2>1, <2>2, <2>3, <2>5, <3>3
    <3>4. CASE ~ Known(a) /\ Known(b)
      BY <2>1, <2>2, <2>3, <2>5, <3>4
    <3> QED
      BY <3>1, <3>2, <3>3, <3>4
  <2>6. ASSUME NEW a \in Assignment, Known(a)', a.token \in recorded'
        PROVE  InRow(a)' /\ row'[a.id].status \notin Pending
    BY <1>3, <2>1, <2>2, <2>3, <2>6 DEF InRow
  <2>7. /\ \A t \in recorded' : t <= tokens'
        /\ \A a \in started' : a.token \in recorded'
    BY <1>3, <2>2, <2>3 DEF Taking
  <2> QED
    BY <2>4, <2>5, <2>6, <2>7 DEF Assignments
<1>8. Indexed'
  BY <1>3 DEF IInv, Indexed, Occupies, Engages
<1> QED
  BY <1>2, <1>4, <1>5, <1>6, <1>7, <1>8 DEF IInv
---------------------------------------------------------------------------
(* What is taken in hand *)

\* The new row of a write is good when the old one is, and its event the next.
LEMMA WriteTaken ==
  ASSUME IInv, NEW w \in Workers, NEW step \in {"update", "event"},
         NEW via \in Runners \cup {None}, NEW d \in Stored, NEW new \in Row,
         Gets(w, Write(step, via, d, new)),
         step = "update" => Updates(Write(step, via, d, new)),
         step = "event" => Records(Write(step, via, d, new)),
         Good(new),
         \A v \in Workers \ {w} : worker[v] # Idle /\ worker[v].via = via => via = None,
         tokens' \in Tokens, tokens <= tokens',
         \/ new.runner = row[d].runner /\ new.token = row[d].token
         \/ tokens < new.token /\ new.token = tokens',
         UNCHANGED <<row, recorded, requests, held, started>>, Links'
  PROVE  IInv'
<1> DEFINE work == Write(step, via, d, new)
<1>1. d \in Ids /\ row[d] \in Row /\ row[d].status \in Status /\ step \in Writes
  BY StoredRows, RowFields DEF IInv, Writes
<1>2. /\ work \in Work /\ work.step = step /\ work.via = via /\ work.id = d /\ work.new = new
      /\ work.expected = row[d].status
  BY <1>1, WriteType DEF Write
<1>3. Hand(work)
  BY <1>2 DEF Hand
<1>4. ASSUME NEW a \in Assignment, Carries(work, a)
      PROVE  Known(a) \/ (a.id \in Stored /\ tokens < a.token /\ a.token = tokens')
  <2>1. a = [id |-> d, runner |-> new.runner, token |-> new.token] /\ new.runner # None
    BY <1>2, <1>4 DEF Carries, AssignmentOf
  <2>2. a.id = d /\ a.runner = new.runner /\ a.token = new.token
    BY <2>1
  <2> QED
    BY <2>1, <2>2 DEF Known, InRow
<1>5. /\ \A a \in held : a \in Assignment /\ Known(a)
      /\ started \subseteq held /\ \A a \in started : a.token \in recorded
      /\ requests \in 0..MaxDeployments /\ requests <= requests
  BY DEF IInv, TypeOK, Assignments, Known
<1>6. Taking(w, work)
  <2> HIDE DEF work
  <2> QED
    BY <1>2, <1>3, <1>4, <1>5 DEF Taking, Gets, work
<1> QED
  BY <1>2, <1>6, TakingKeeps

\* A request computes a row under an id nobody has used.
LEMMA RequestKeeps ==
  ASSUME IInv, NEW w \in Workers, NEW e \in Environments, NEW x \in Artifacts, NEW k \in Kinds,
         NEW p \in People, RequestDeployment(w, e, x, k, p)
  PROVE  IInv'
<1> DEFINE new == NewDeployment(e, x, k, p)
           work == [step |-> "insert", via |-> None, id |-> requests',
                    expected |-> new.status, new |-> new]
<1>1. /\ new.status = IF NeedsApproval(e, k) THEN "awaiting_approval" ELSE "queued"
      /\ new.environment = e /\ new.kind = k /\ new.sequence = 0
      /\ new.runner = None /\ new.approver = None /\ new.requester = p
  BY DEF NewDeployment
<1>2. new \in Row /\ new.status \in Pending /\ new.status \in Status
  <2>1. 0 \in Tokens /\ 0 \in 0..MaxSequence
    BY DeploymentsAssumption DEF Tokens
  <2> QED
    BY <2>1 DEF NewDeployment, Row, Status, Pending
<1>3. /\ requests \in Nat /\ requests' = requests + 1 /\ requests' \in Ids
      /\ requests' \in 0..MaxDeployments
  BY DeploymentsAssumption DEF RequestDeployment, IInv, TypeOK, Ids
<1>4. requests' \notin Stored
  BY <1>3 DEF IInv, Rows, Ids
<1>5. work \in Work
  BY <1>2, <1>3, WriteType DEF Writes
<1>6. Hand(work)
  <2>1. Good(new)
    BY <1>1 DEF Good, Sequence, Executing
  <2> QED
    BY <1>1, <1>2, <1>4, <2>1 DEF Hand, Inserts
<1>7. Taking(w, work)
  <2>1. \A a \in Assignment : ~ Carries(work, a)
    BY <1>1 DEF Carries
  <2>2. /\ \A a \in held : a \in Assignment /\ Known(a)
        /\ started \subseteq held /\ \A a \in started : a.token \in recorded
        /\ tokens \in Tokens /\ tokens <= tokens
    BY DEF IInv, TypeOK, Assignments, Known, Tokens
  <2>3. worker' = [worker EXCEPT ![w] = work]
    BY DEF RequestDeployment, Take
  <2>4. UNCHANGED <<row, recorded, tokens, held, started>> /\ Links'
    BY LinksKept DEF RequestDeployment, runners
  <2>5. work.step = "insert" /\ work.via = None /\ work.id = requests'
    OBVIOUS
  <2> HIDE DEF work, new
  <2> QED
    BY <1>3, <1>5, <1>6, <2>1, <2>2, <2>3, <2>4, <2>5 DEF Taking
<1> QED
  BY <1>5, <1>7, TakingKeeps

\* An approval is another administrator's, and the row is one that waits for it.
LEMMA ApproveKeeps ==
  ASSUME IInv, NEW w \in Workers, NEW d \in Stored, NEW p \in Administrators,
         ApproveDeployment(w, d, p)
  PROVE  IInv'
<1> DEFINE new == [row[d] EXCEPT !.status = "queued", !.approver = p]
<1>1. row[d] \in Row /\ d \in Ids /\ p \in People /\ Good(row[d])
  BY DeploymentsAssumption, StoredRows DEF IInv, Rows
<1>2. row[d].status = "awaiting_approval" /\ p # row[d].requester
  BY DEF ApproveDeployment, MayApprove
<1>3. /\ new.status = "queued" /\ new.approver = p /\ new.requester = row[d].requester
      /\ new.runner = row[d].runner /\ new.token = row[d].token /\ new.sequence = row[d].sequence
  BY <1>1 DEF Row
<1>4. new \in Row
  <2>1. "queued" \in Status
    BY DEF Status, Pending
  <2> QED
    BY <1>1, <2>1 DEF Row
<1>5. Good(new)
  BY <1>1, <1>2, <1>3 DEF Good, Sequence, Executing
<1>6. Updates(Write("update", None, d, new))
  BY <1>1, <1>2, <1>3 DEF Updates, Settled, Write, Cancellable, Pending, Good, Sequence
<1>7. /\ Gets(w, Write("update", None, d, new))
      /\ UNCHANGED <<row, recorded, requests, tokens, held, started>> /\ Links'
  BY LinksKept DEF ApproveDeployment, runners, Take, Gets
<1>8. tokens \in Tokens /\ tokens <= tokens
  BY DEF IInv, TypeOK, Tokens
<1> HIDE DEF new
<1> QED
  BY <1>3, <1>4, <1>5, <1>6, <1>7, <1>8, WriteTaken

\* A cancellation computes the row it read, cancelled.
LEMMA CancelKeeps ==
  ASSUME IInv, NEW w \in Workers, NEW d \in Stored, CancelDeployment(w, d)
  PROVE  IInv'
<1> DEFINE new == [row[d] EXCEPT !.status = "cancelled"]
<1>1. row[d] \in Row /\ d \in Ids /\ Good(row[d])
  BY StoredRows DEF IInv, Rows
<1>2. row[d].status \in Cancellable
  BY DEF CancelDeployment
<1>3. /\ new.status = "cancelled" /\ new.sequence = row[d].sequence
      /\ new.runner = row[d].runner /\ new.token = row[d].token
  BY <1>1 DEF Row
<1>4. new \in Row
  <2>1. "cancelled" \in Status
    BY DEF Status, Final
  <2> QED
    BY <1>1, <2>1 DEF Row
<1>5. Good(new)
  BY <1>3 DEF Good, Sequence, Executing
<1>6. Updates(Write("update", None, d, new))
  <2>1. new.sequence = Sequence[row[d].status]
    BY <1>1, <1>2, <1>3 DEF Good, Sequence, Cancellable
  <2> HIDE DEF new
  <2> QED
    BY <1>2, <1>3, <2>1 DEF Updates, Settled, Write
<1>7. /\ Gets(w, Write("update", None, d, new))
      /\ UNCHANGED <<row, recorded, requests, tokens, held, started>> /\ Links'
  BY LinksKept DEF CancelDeployment, runners, Take, Gets
<1>8. tokens \in Tokens /\ tokens <= tokens
  BY DEF IInv, TypeOK, Tokens
<1> HIDE DEF new
<1> QED
  BY <1>3, <1>4, <1>5, <1>6, <1>7, <1>8, WriteTaken

\* A dispatcher computes an assignment with a token nobody has used.
LEMMA DispatchKeeps ==
  ASSUME IInv, NEW w \in Workers, NEW r \in Runners, Dispatch(w, r)
  PROVE  IInv'
<1>1. PICK d \in NextQueued :
        Take(w, Write("update", None, d, [row[d] EXCEPT !.runner = r, !.token = tokens']))
  BY DEF Dispatch
<1> DEFINE new == [row[d] EXCEPT !.runner = r, !.token = tokens']
<1>2. d \in Stored /\ row[d].status = "queued"
  BY DEF NextQueued, Dispatchable, In
<1>3. row[d] \in Row /\ Good(row[d])
  BY <1>2, StoredRows DEF IInv, Rows
<1>4. /\ tokens' \in Tokens /\ tokens < tokens' /\ tokens <= tokens'
      /\ UNCHANGED <<row, recorded, requests, held, started>> /\ Links'
  BY DeploymentsAssumption, LinksKept DEF Dispatch, runners, IInv, TypeOK, Tokens
<1>5. /\ new \in Row
      /\ new.status = "queued" /\ new.sequence = row[d].sequence
      /\ new.environment = row[d].environment /\ new.kind = row[d].kind
      /\ new.requester = row[d].requester /\ new.approver = row[d].approver
      /\ new.runner = r /\ new.token = tokens'
  BY <1>2, <1>3, <1>4 DEF Row
<1>6. Good(new)
  BY <1>2, <1>3, <1>5 DEF Good, Executing
<1>7. Updates(Write("update", None, d, new))
  <2>1. new.sequence = Sequence["queued"] /\ "queued" \in Cancellable /\ "queued" \in Pending
    BY <1>2, <1>3, <1>5 DEF Good, Sequence, Cancellable, Pending
  <2> HIDE DEF new
  <2> QED
    BY <1>2, <1>5, <2>1 DEF Updates, Settled, Write
<1>8. Gets(w, Write("update", None, d, new))
  BY <1>1 DEF Take, Gets
<1> HIDE DEF new
<1> QED
  BY <1>2, <1>4, <1>5, <1>6, <1>7, <1>8, WriteTaken

\* Only the runner that holds the assignment gets a row out of the queue.
Expected(via, d, status) ==
  row[d].status = "queued" =>
    /\ status = "preparing" /\ via = row[d].runner /\ via # None
    /\ [id |-> d, runner |-> row[d].runner, token |-> row[d].token] \in held \ started

\* An event computes the row that follows, which is good if its runner, its
\* approval and its sequence are.
LEMMA EventTaken ==
  ASSUME IInv, NEW w \in Workers, NEW via \in Runners \cup {None}, NEW d \in Stored,
         NEW status \in Status,
         row[d].status \in {"queued", "verification_failed"} \cup Executing,
         status \notin Pending \cup {"cancelled"},
         row[d].sequence < MaxSequence,
         status \in DOMAIN Sequence => row[d].sequence + 1 = Sequence[status],
         Expected(via, d, status),
         row[d].status = "verification_failed" => status = "verifying",
         Gets(w, Write("event", via, d, Advanced(row[d], status))),
         \A v \in Workers \ {w} : worker[v] # Idle /\ worker[v].via = via => via = None,
         UNCHANGED <<row, recorded, requests, tokens, held, started>>, Links'
  PROVE  IInv'
<1> DEFINE new == Advanced(row[d], status)
<1>1. row[d] \in Row /\ Good(row[d])
  BY StoredRows DEF IInv, Rows
<1>2. /\ new \in Row
      /\ new.status = status /\ new.sequence = row[d].sequence + 1
      /\ new.environment = row[d].environment /\ new.kind = row[d].kind
      /\ new.requester = row[d].requester /\ new.approver = row[d].approver
      /\ new.runner = row[d].runner /\ new.token = row[d].token
  BY <1>1, AdvancedRow
<1> HIDE DEF new
<1>3. Good(new)
  <2>1. new.runner # None
    BY <1>1, <1>2 DEF Good, Expected
  <2>2. row[d].status \notin {"awaiting_approval", "cancelled"}
    BY DEF Executing
  <2> QED
    BY <1>1, <1>2, <2>1, <2>2 DEF Good
<1>4. Records(Write("event", via, d, new))
  <2> DEFINE work == Write("event", via, d, new)
  <2>1. /\ work.id = d /\ work.via = via /\ work.expected = row[d].status /\ work.new = new
    BY DEF Write
  <2>2. row[d].status \notin Pending \ {"queued"}
    BY DEF Pending, Executing
  <2>3. AssignmentOf(work) = [id |-> d, runner |-> row[d].runner, token |-> row[d].token]
    BY <1>2, <2>1 DEF AssignmentOf
  <2> HIDE DEF work
  <2>4. Records(work)
    BY <1>2, <2>1, <2>2, <2>3 DEF Records, Settled, Expected
  <2> QED
    BY <2>4 DEF work
<1>5. tokens \in Tokens /\ tokens <= tokens
  BY DEF IInv, TypeOK, Tokens
<1>6. \/ new.runner = row[d].runner /\ new.token = row[d].token
      \/ tokens < new.token /\ new.token = tokens'
  BY <1>2
<1>7. new \in Row
  BY <1>2
<1>8. tokens' \in Tokens /\ tokens <= tokens'
  BY <1>5
<1> QED
  BY <1>3, <1>4, <1>6, <1>7, <1>8, WriteTaken DEF new

\* The row an assignment is of is there, and its runner is one.
LEMMA HeldAssignments ==
  ASSUME IInv, NEW a \in held
  PROVE  /\ a \in Assignment /\ a.id \in Stored /\ a.id \in Ids /\ a.runner \in Runners
         /\ a.runner # None /\ Known(a)
         /\ a = [id |-> a.id, runner |-> a.runner, token |-> a.token]
         /\ row[a.id] \in Row /\ Good(row[a.id])
<1>1. a \in Assignment /\ Known(a)
  BY DEF IInv, TypeOK, Known
<1>2. a.id \in Stored
  BY <1>1 DEF IInv, Assignments
<1>3. a.id \in Ids /\ a.runner \in Runners /\ a = [id |-> a.id, runner |-> a.runner, token |-> a.token]
  BY <1>1 DEF Assignment
<1> QED
  BY <1>1, <1>2, <1>3, DeploymentsAssumption, StoredRows DEF IInv, Rows

\* What steps that take work keep.
LEMMA Unmoved ==
  ASSUME IInv
  PROVE  /\ \A a \in held : a \in Assignment /\ Known(a)
         /\ started \subseteq held /\ \A a \in started : a.token \in recorded
         /\ requests \in 0..MaxDeployments /\ requests <= requests
         /\ tokens \in Tokens /\ tokens <= tokens
BY DEF IInv, TypeOK, Assignments, Known, Tokens

\* A failed verification is computed to be tried again.
LEMMA RetryKeeps ==
  ASSUME IInv, NEW w \in Workers, NEW d \in Stored, RetryVerification(w, d)
  PROVE  IInv'
<1>1. row[d] \in Row /\ row[d].sequence \in Nat
  BY StoredRows, RowFields DEF IInv
<1>2. /\ row[d].status = "verification_failed" /\ row[d].sequence < MaxSequence
      /\ Gets(w, Write("event", None, d, Advanced(row[d], "verifying")))
      /\ UNCHANGED <<row, recorded, requests, tokens, held, started>> /\ Links'
  BY <1>1, DeploymentsAssumption, LinksKept DEF RetryVerification, runners, Take, Gets
<1>3. /\ "verifying" \in Status /\ "verifying" \notin Pending \cup {"cancelled"}
      /\ "verifying" \notin DOMAIN Sequence
  BY DEF Status, Executing, Pending, Sequence
<1>4. Expected(None, d, "verifying")
  BY <1>2 DEF Expected
<1> QED
  BY <1>2, <1>3, <1>4, EventTaken

\* A runner reports the next phase of a row that is its own.
LEMMA ReportKeeps ==
  ASSUME IInv, NEW w \in Workers, NEW a \in started, NEW status \in Status,
         ReportPhase(w, a, status)
  PROVE  IInv'
<1>1. a \in held /\ a.id \in Stored /\ row[a.id] \in Row /\ Good(row[a.id]) /\ a.runner \in Runners
  BY HeldAssignments DEF IInv, TypeOK
<1>2. /\ row[a.id].status \in DOMAIN NextReports
      /\ status \in NextReports[row[a.id].status]
      /\ Gets(w, Write("event", a.runner, a.id, Advanced(row[a.id], status)))
      /\ UNCHANGED <<row, recorded, requests, tokens, held, started>>
  BY DEF ReportPhase, Take, Gets
<1>3. /\ row[a.id].status \in Executing /\ row[a.id].status \in DOMAIN Sequence
      /\ row[a.id].status \in {"preparing", "converging_services", "migrating", "activating"}
      /\ row[a.id].status # "queued" /\ row[a.id].status # "verification_failed"
  BY <1>2 DEF NextReports, Executing, Sequence
<1>4. status \in {"converging_services", "migrating", "activating", "verifying", "failed"}
  BY <1>2, <1>3 DEF NextReports
<1>5. row[a.id].sequence = Sequence[row[a.id].status]
  BY <1>1, <1>3 DEF Good
<1>6. row[a.id].sequence < MaxSequence
  BY <1>3, <1>5, DeploymentsAssumption DEF Sequence
<1>7. status \in DOMAIN Sequence => row[a.id].sequence + 1 = Sequence[status]
  BY <1>2, <1>3, <1>5 DEF Sequence, NextReports
<1>8. status \notin Pending \cup {"cancelled"}
  BY <1>4 DEF Pending
<1>9. \A v \in Workers \ {w} : worker[v] # Idle /\ worker[v].via = a.runner => a.runner = None
  BY DEF ReportPhase, ChannelFree
<1>10. PICK d \in Stored : d = a.id
  BY <1>1
<1>11. PICK via \in Runners \cup {None} : via = a.runner
  BY <1>1
<1>12. /\ row[d].status \in Executing
       /\ row[d].status # "verification_failed" /\ Expected(via, d, status)
       /\ Gets(w, Write("event", via, d, Advanced(row[d], status)))
       /\ row[d].sequence < MaxSequence
       /\ status \in DOMAIN Sequence => row[d].sequence + 1 = Sequence[status]
       /\ \A v \in Workers \ {w} : worker[v] # Idle /\ worker[v].via = via => via = None
  BY <1>2, <1>3, <1>6, <1>7, <1>9, <1>10, <1>11 DEF Expected
<1>13. UNCHANGED <<row, recorded, requests, tokens, held, started>> /\ Links'
  <2>1. a.id \in Ids
    BY <1>1, StoredRows DEF IInv
  <2> QED
    BY <1>2, <2>1 DEF ReportPhase, Links, IInv, TypeOK
<1> QED
  BY <1>8, <1>12, <1>13, EventTaken

\* The runner forgets an offer that is refused.
LEMMA ForgetKeeps ==
  ASSUME IInv, NEW w \in Workers, NEW a \in held, a \notin started,
         \A v \in Workers : worker'[v] # Idle => worker'[v].via # a.runner,
         worker' = worker \/ worker' = [worker EXCEPT ![w] = Idle],
         held' = held \ {a},
         UNCHANGED <<row, recorded, requests, tokens, started>>, Links'
  PROVE  IInv'
<1>1. worker \in [Workers -> Work] /\ worker[w] \in Work /\ Idle \in Work /\ Hand(worker[w])
  BY DEF IInv, TypeOK, Hands, Work
<1>2. CASE worker' = [worker EXCEPT ![w] = Idle]
  <2>1. Hand(Idle) /\ Idle.step \notin {"insert", "offer", "answer"} \cup Writes
    BY DEF Hand, Idle, Writes
  <2>2. \A b \in Assignment : ~ Carries(Idle, b)
    BY <2>1 DEF Carries
  <2>3. Taking(w, Idle)
    BY <1>1, <1>2, <2>1, <2>2, Unmoved DEF Taking
  <2> QED
    BY <1>1, <2>3, TakingKeeps
<1>3. CASE worker' = worker
  <2>1. worker' = [worker EXCEPT ![w] = worker[w]]
    BY <1>1, <1>3
  <2>2. \A b \in Assignment : Carries(worker[w], b) => Known(b)
    BY DEF Known
  <2>3. \A v \in Workers \ {w} :
          worker[v] # Idle /\ worker[w] # Idle /\ worker[v].via = worker[w].via =>
            worker[w].via = None
    BY DEF IInv, Exclusive, Apart
  <2>4. worker[w].step = "insert" => worker[w].id <= requests
    BY DEF IInv, Exclusive
  <2>5. Taking(w, worker[w])
    BY <1>1, <2>1, <2>2, <2>3, <2>4, Unmoved DEF Taking
  <2> QED
    BY <1>1, <2>5, TakingKeeps
<1> QED
  BY <1>2, <1>3

\* An acceptance is repeated to a runner, computed, or refused.
LEMMA AcceptKeeps ==
  ASSUME IInv, NEW w \in Workers, NEW a \in held \ started, AcceptOffer(w, a)
  PROVE  IInv'
<1>1. /\ a \in Assignment /\ a.id \in Stored /\ a.runner \in Runners /\ a.runner # None
      /\ Known(a) /\ row[a.id] \in Row /\ Good(row[a.id])
      /\ a = [id |-> a.id, runner |-> a.runner, token |-> a.token]
  BY HeldAssignments
<1>2. \A v \in Workers : worker[v] # Idle => worker[v].via # a.runner
  BY DEF AcceptOffer, ChannelFree
<1>3. UNCHANGED <<row, recorded, requests, tokens, started>> /\ Links'
  BY LinksKept DEF AcceptOffer
<1>4. CASE /\ a.token \in recorded /\ held' = held
           /\ Take(w, [step |-> "answer", via |-> a.runner, assignment |-> a])
  <2> DEFINE work == [step |-> "answer", via |-> a.runner, assignment |-> a]
  <2>1. /\ work \in Work /\ worker' = [worker EXCEPT ![w] = work]
        /\ work.step = "answer" /\ work.via = a.runner /\ work.assignment = a
    BY <1>1, <1>4, AnswerType DEF Take
  <2> HIDE DEF work
  <2>2. Hand(work)
    BY <1>4, <2>1 DEF Hand, Writes
  <2>3. \A b \in Assignment : Carries(work, b) => Known(b)
    BY <1>1, <2>1 DEF Carries, Writes
  <2>4. Taking(w, work)
    BY <1>2, <1>3, <1>4, <2>1, <2>2, <2>3, Unmoved DEF Taking
  <2> QED
    BY <2>1, <2>4, TakingKeeps
<1>5. CASE /\ a.token \notin recorded
           /\ Acceptable(a) /\ held' = held
           /\ Take(w, Write("event", a.runner, a.id, Advanced(row[a.id], "preparing")))
  <2>1. PICK d \in Stored : d = a.id
    BY <1>1
  <2>2. PICK via \in Runners \cup {None} : via = a.runner
    BY <1>1
  <2>3. row[d].status \in Status
    BY <1>1, <2>1, RowFields
  <2>4. row[d].status = "queued"
    BY <1>5, <2>1, <2>3 DEF Acceptable, Transitions, Status, Pending, Executing, Final
  <2>5. row[d].sequence = 0
    BY <1>1, <2>1, <2>4 DEF Good, Sequence
  <2>6. /\ "preparing" \in Status /\ "preparing" \notin Pending \cup {"cancelled"}
        /\ row[d].sequence + 1 = Sequence["preparing"] /\ row[d].sequence < MaxSequence
    BY <2>5, DeploymentsAssumption DEF Status, Executing, Pending, Sequence
  <2>7. /\ Gets(w, Write("event", via, d, Advanced(row[d], "preparing")))
        /\ \A v \in Workers \ {w} : worker[v] # Idle /\ worker[v].via = via => via = None
    BY <1>2, <1>5, <2>1, <2>2 DEF Take, Gets
  <2>8. Expected(via, d, "preparing")
    BY <1>1, <1>5, <2>1, <2>2 DEF Acceptable, Expected
  <2>9. UNCHANGED <<row, recorded, requests, tokens, held, started>> /\ Links'
    BY <1>3, <1>5
  <2> QED
    BY <2>4, <2>6, <2>7, <2>8, <2>9, EventTaken
<1>6. CASE held' = held \ {a} /\ worker' = worker
  BY <1>2, <1>3, <1>6, ForgetKeeps
<1> QED
  BY <1>4, <1>5, <1>6 DEF AcceptOffer

\* The verifying event is served again, or forgotten.
LEMMA ResendKeeps ==
  ASSUME IInv, NEW w \in Workers, NEW a \in started, ResendVerifying(w, a)
  PROVE  IInv'
<1>1. /\ a.id \in Stored /\ a.id \in Ids /\ a.runner \in Runners
  BY HeldAssignments DEF IInv, TypeOK
<1>2. \A v \in Workers : worker[v] # Idle => worker[v].via # a.runner
  BY DEF ResendVerifying, ChannelFree
<1>3. UNCHANGED <<row, recorded, requests, tokens, held, started>> /\ Links'
  BY DEF ResendVerifying, Links, IInv, TypeOK
<1>4. CASE /\ unanswered' = unanswered
           /\ Take(w, [step |-> "verify", via |-> a.runner, id |-> a.id])
  <2> DEFINE work == [step |-> "verify", via |-> a.runner, id |-> a.id]
  <2>1. /\ work \in Work /\ worker' = [worker EXCEPT ![w] = work]
        /\ work.step = "verify" /\ work.via = a.runner /\ work.id = a.id
    BY <1>1, <1>4, VerifyType DEF Take
  <2> HIDE DEF work
  <2>2. Hand(work)
    BY <1>1, <2>1 DEF Hand, Writes
  <2>3. \A b \in Assignment : ~ Carries(work, b)
    BY <2>1 DEF Carries, Writes
  <2>4. Taking(w, work)
    BY <1>2, <1>3, <1>4, <2>1, <2>2, <2>3, Unmoved DEF Taking
  <2> QED
    BY <2>1, <2>4, TakingKeeps
<1>5. CASE unanswered' = unanswered \ {a.id} /\ worker' = worker
  <2>1. /\ worker \in [Workers -> Work] /\ worker[w] \in Work /\ Hand(worker[w])
        /\ worker' = [worker EXCEPT ![w] = worker[w]]
    BY <1>5 DEF IInv, Hands
  <2>2. \A b \in Assignment : Carries(worker[w], b) => Known(b)
    BY DEF Known
  <2>3. \A v \in Workers \ {w} :
          worker[v] # Idle /\ worker[w] # Idle /\ worker[v].via = worker[w].via =>
            worker[w].via = None
    BY DEF IInv, Exclusive, Apart
  <2>4. worker[w].step = "insert" => worker[w].id <= requests
    BY DEF IInv, Exclusive
  <2>5. Taking(w, worker[w])
    BY <1>3, <1>5, <2>1, <2>2, <2>3, <2>4, Unmoved DEF Taking
  <2> QED
    BY <2>1, <2>5, TakingKeeps
<1> QED
  BY <1>4, <1>5 DEF ResendVerifying

---------------------------------------------------------------------------
(* What is served without a write *)

\* A worker that is done, or dead.
LEMMA DoneKeeps ==
  ASSUME IInv, NEW w \in Workers, worker' = [worker EXCEPT ![w] = Idle],
         \A a \in held' : a \in Assignment /\ Known(a),
         \A a \in (held \ held') \cup (started' \ started), v \in Workers :
           worker'[v] # Idle => worker'[v].via # a.runner,
         started' \subseteq held', \A a \in started' : a.token \in recorded, Links',
         UNCHANGED <<row, recorded, requests, tokens>>
  PROVE  IInv'
<1>1. Idle \in Work /\ Hand(Idle) /\ Idle.step \notin {"insert", "offer", "answer"} \cup Writes
  BY DEF Work, Hand, Idle, Writes
<1>2. \A b \in Assignment : ~ Carries(Idle, b)
  BY <1>1 DEF Carries
<1>3. Taking(w, Idle)
  BY <1>1, <1>2, Unmoved DEF Taking
<1> QED
  BY <1>1, <1>3, TakingKeeps

\* What is offered is an assignment that is about, held from now on or lost.
LEMMA OfferKeeps ==
  ASSUME IInv, NEW w \in Workers, Offer(w)
  PROVE  IInv'
<1>1. worker[w].assignment \in Assignment /\ Known(worker[w].assignment)
  <2>1. worker[w] \in Work /\ worker[w].step = "offer"
    BY DEF Offer, IInv, TypeOK
  <2> QED
    BY <2>1, WorkFields DEF Known, Carries
<1>2. held' = held \/ held' = held \cup {worker[w].assignment}
  BY DEF Offer
<1>3. Links'
  BY LinksKept DEF Offer
<1> QED
  BY <1>1, <1>2, <1>3, Unmoved, DoneKeeps DEF Offer

\* A runner starts what it holds and was answered.
LEMMA AnswerKeeps ==
  ASSUME IInv, NEW w \in Workers, Answer(w)
  PROVE  IInv'
<1> DEFINE a == worker[w].assignment
<1>1. /\ a \in held /\ a.token \in recorded /\ worker[w].via = a.runner
      /\ worker[w] # Idle /\ a.runner # None
  <2>1. /\ worker[w] \in Work /\ worker[w].step = "answer" /\ a \in held /\ a.token \in recorded
        /\ worker[w].via = a.runner
    BY DEF Answer, IInv, TypeOK, Hands, Hand
  <2> QED
    BY <2>1, WorkFields, HeldAssignments
<1>2. worker' = [worker EXCEPT ![w] = Idle] /\ started' = started \cup {a} /\ worker \in [Workers -> Work]
  BY DEF Answer, IInv, Hands
<1>3. \A v \in Workers : worker'[v] # Idle => worker'[v].via # a.runner
  BY <1>1, <1>2 DEF IInv, Exclusive, Apart
<1>4. Links' /\ UNCHANGED <<row, recorded, requests, tokens, held>>
  BY LinksKept DEF Answer
<1> HIDE DEF a
<1> QED
  BY <1>1, <1>2, <1>3, <1>4, Unmoved, DoneKeeps

\* A verifying event that was answered is not sent again.
LEMMA ConfirmKeeps ==
  ASSUME IInv, NEW w \in Workers, Confirm(w)
  PROVE  IInv'
<1>1. Links'
  BY DEF Confirm, Links, IInv, TypeOK
<1> QED
  BY <1>1, Unmoved, DoneKeeps DEF Confirm

---------------------------------------------------------------------------
(* Connections, the node and its processes *)

\* What a worker may be left with: all it had, nothing, or a handler whose reply
\* does not arrive.
Left(before, after) ==
  \/ after = before
  \/ after = Idle
  \/ /\ before # Idle /\ before.step \notin {"answer", "confirm"}
     /\ after = [before EXCEPT !.via = None]

\* The parts of a handler that lost its connection.
LEMMA LeftFields ==
  ASSUME NEW before \in Work, NEW after, Left(before, after)
  PROVE  /\ after \in Work
         /\ after # Idle =>
              /\ before # Idle /\ after.step = before.step
              /\ after.via = before.via \/ after.via = None
              /\ after.step \in Writes =>
                   /\ after.id = before.id /\ after.expected = before.expected
                   /\ after.new = before.new
              /\ after.step \in {"offer", "answer"} => after.assignment = before.assignment
              /\ after.step \in {"verify", "confirm"} => after.id = before.id
              /\ after.step = "answer" => after = before
<1>1. CASE before = Idle \/ after = Idle \/ after = before
  BY <1>1 DEF Left, Work
<1>2. CASE before # Idle /\ after = [before EXCEPT !.via = None] /\ before.step # "answer"
  <2>1. CASE before \in [step : {"insert", "update", "event"}, via : Runners \cup {None},
                         id : Ids, expected : Status, new : Row]
    BY <1>2, <2>1 DEF Work, Writes
  <2>2. CASE before \in [step : {"offer", "answer"}, via : Runners \cup {None},
                         assignment : Assignment]
    BY <1>2, <2>2 DEF Work, Writes
  <2>3. CASE before \in [step : {"verify", "confirm"}, via : Runners \cup {None}, id : Ids]
    BY <1>2, <2>3 DEF Work, Writes
  <2> QED
    BY <1>2, <2>1, <2>2, <2>3 DEF Work
<1> QED
  BY <1>1, <1>2 DEF Left

\* What is left in hand is as good as it was.
LEMMA LeftHand ==
  ASSUME NEW before \in Work, NEW after, Left(before, after), Hand(before)
  PROVE  Hand(after)
<1>1. CASE after = Idle
  BY <1>1 DEF Hand, Idle, Writes
<1>2. CASE after # Idle /\ after # before
  <2>1. /\ after.step = before.step /\ after.via = None /\ after.step # "answer"
        /\ after.step \in Writes =>
             /\ after.id = before.id /\ after.expected = before.expected
             /\ after.new = before.new
        /\ after.step \in {"verify", "confirm"} => after.id = before.id
    <3>1. after.via = None
      <4>1. after = [before EXCEPT !.via = None] /\ before # Idle
        BY <1>2 DEF Left
      <4> QED
        BY <4>1 DEF Work
    <3> QED
      BY <1>2, <3>1, LeftFields
  <2>2. CASE after.step = "insert"
    BY <2>1, <2>2 DEF Hand, Inserts, Writes
  <2>3. CASE after.step = "update"
    BY <2>1, <2>3 DEF Hand, Updates, Settled, Writes
  <2>4. CASE after.step = "event"
    BY <2>1, <2>4 DEF Hand, Records, Settled, Writes
  <2>5. CASE after.step \notin Writes
    BY <2>1, <2>5 DEF Hand, Writes
  <2> QED
    BY <2>2, <2>3, <2>4, <2>5 DEF Writes
<1> QED
  BY <1>1, <1>2

\* Nothing goes wrong when handlers die or lose their connection.
LEMMA LeavingKeeps ==
  ASSUME IInv, worker' \in [Workers -> Work], \A w \in Workers : Left(worker[w], worker'[w]),
         UNCHANGED <<row, recorded, requests, tokens, held, started>>, Links'
  PROVE  IInv'
<1>1. Stored' = Stored /\ row' = row
  BY DEF Stored
<1>2. TypeOK'
  BY DEF IInv, TypeOK, Links
<1>3. Rows'
  BY <1>1 DEF IInv, Rows, Good
<1>4. ASSUME NEW w \in Workers
      PROVE  /\ worker[w] \in Work /\ Hand(worker'[w])
             /\ worker'[w] # Idle =>
                  /\ worker[w] # Idle /\ worker'[w].step = worker[w].step
                  /\ worker'[w].via = worker[w].via \/ worker'[w].via = None
                  /\ worker'[w].step \in Writes =>
                       worker'[w].id = worker[w].id /\ worker'[w].new = worker[w].new
                  /\ worker'[w].step \in {"offer", "answer"} =>
                       worker'[w].assignment = worker[w].assignment
  <2>1. worker[w] \in Work /\ Hand(worker[w]) /\ Left(worker[w], worker'[w])
    BY DEF IInv, TypeOK, Hands
  <2> QED
    BY <2>1, LeftFields, LeftHand
<1>5. Hands'
  <2>1. ASSUME NEW w \in Workers PROVE Hand(worker[w])'
    BY <1>1, <1>4 DEF Hand, Good, Inserts, Updates, Records, Settled, AssignmentOf
  <2> QED
    BY <2>1 DEF Hands
<1>6. Exclusive'
  <2>1. ASSUME NEW v \in Workers, NEW w \in Workers, v # w PROVE Apart(v, w)'
    <3>1. Apart(v, w)
      BY <2>1 DEF IInv, Exclusive
    <3>2. Idle.step # "insert" /\ "insert" \in Writes
      BY DEF Idle, Writes
    <3> QED
      BY <1>4, <3>1, <3>2 DEF Apart
  <2>2. ASSUME NEW w \in Workers, worker'[w].step = "insert" PROVE worker'[w].id <= requests'
    <3>1. worker'[w] # Idle /\ "insert" \in Writes
      BY <2>2 DEF Idle, Writes
    <3> QED
      BY <1>4, <2>2, <3>1 DEF IInv, Exclusive
  <2> QED
    BY <2>1, <2>2 DEF Exclusive
<1>7. ASSUME NEW a \in Assignment, Known(a)' PROVE Known(a)
  <2>1. ASSUME NEW w \in Workers, Carries(worker'[w], a) PROVE Carries(worker[w], a)
    <3>1. Idle.step \notin Writes \cup {"offer", "answer"}
      BY DEF Idle, Writes
    <3> QED
      BY <1>4, <2>1, <3>1 DEF Carries, AssignmentOf
  <2>2. \/ a \in held
        \/ InRow(a) /\ a.runner # None
        \/ \E w \in Workers : Carries(worker'[w], a)
    BY <1>1, <1>7 DEF Known, InRow, Carries, AssignmentOf
  <2> QED
    BY <2>1, <2>2 DEF Known
<1>8. Assignments'
  BY <1>1, <1>7 DEF IInv, Assignments, InRow
<1>9. Indexed'
  BY <1>1 DEF IInv, Indexed, Occupies, Engages
<1> QED
  BY <1>2, <1>3, <1>5, <1>6, <1>8, <1>9 DEF IInv

\* The handler of a broken connection goes on by itself.
LEMMA DisconnectKeeps ==
  ASSUME IInv, NEW r \in Runners, Disconnect(r)
  PROVE  IInv'
<1>1. Links'
  BY DeploymentsAssumption DEF Disconnect, Links, IInv, TypeOK
<1>2. ASSUME NEW w \in Workers PROVE Left(worker[w], worker'[w])
  BY DEF Disconnect, Orphaned, Left
<1>3. worker' \in [Workers -> Work]
  <2>1. \A w \in Workers : worker[w] \in Work
    BY DEF IInv, TypeOK
  <2>2. \A w \in Workers : worker'[w] \in Work
    BY <1>2, <2>1, LeftFields
  <2> QED
    BY <2>2 DEF Disconnect
<1>4. UNCHANGED <<row, recorded, requests, tokens, held, started>>
  BY DEF Disconnect
<1> QED
  BY <1>1, <1>2, <1>3, <1>4, LeavingKeeps

\* A node that stops leaves nothing in hand.
LEMMA NodeStopsKeeps ==
  ASSUME IInv, NodeStops
  PROVE  IInv'
<1>1. Links'
  BY DeploymentsAssumption DEF NodeStops, Links, IInv, TypeOK
<1>2. worker' \in [Workers -> Work] /\ \A w \in Workers : Left(worker[w], worker'[w])
  BY DEF NodeStops, Left, Work
<1> QED
  BY <1>1, <1>2, LeavingKeeps DEF NodeStops

\* A process that dies leaves what it has in hand undone.
LEMMA CrashKeeps ==
  ASSUME IInv, NEW w \in Workers, Crash(w)
  PROVE  IInv'
<1>1. Links'
  BY DeploymentsAssumption DEF Crash, Links, IInv, TypeOK
<1>2. worker \in [Workers -> Work] /\ worker' = [worker EXCEPT ![w] = Idle]
  BY DEF Crash, IInv, Hands
<1>3. worker' \in [Workers -> Work] /\ \A v \in Workers : Left(worker[v], worker'[v])
  BY <1>2 DEF Left, Work
<1> QED
  BY <1>1, <1>3, LeavingKeeps DEF Crash

\* A join changes connections only.
LEMMA JoinKeeps ==
  ASSUME IInv, NEW r \in Runners, Join(r)
  PROVE  IInv'
<1>1. Links'
  BY DEF Join, Links, IInv, TypeOK
<1>2. worker' \in [Workers -> Work] /\ \A w \in Workers : Left(worker[w], worker'[w])
  BY DEF Join, Left, IInv, Hands
<1> QED
  BY <1>1, <1>2, LeavingKeeps DEF Join

---------------------------------------------------------------------------
(* What is served without a write, and undone *)

\* A refused acceptance is of a runner whose channel has nothing else in hand.
LEMMA RollBackKeeps ==
  ASSUME IInv, NEW w \in Workers, RollBack(w)
  PROVE  IInv'
<1> DEFINE work == worker[w]
<1>1. /\ worker' = [worker EXCEPT ![w] = Idle]
      /\ UNCHANGED <<row, recorded, requests, tokens, started>> /\ Links'
      /\ worker \in [Workers -> Work]
  BY LinksKept DEF RollBack, IInv, Hands
<1>2. CASE ~ (Accepts(work) /\ work.via # None)
  <2>1. held' = held
    BY <1>2 DEF RollBack
  <2> QED
    BY <1>1, <2>1, Unmoved, DoneKeeps
<1>3. CASE Accepts(work) /\ work.via # None
  <2> DEFINE a == AssignmentOf(work)
  <2>1. /\ held' = held \ {a} /\ work.via = a.runner /\ a \in held /\ a \notin started
        /\ work # Idle
    <3>1. work.step = "event" /\ work.expected = "queued" /\ work \in Work
      BY <1>3 DEF Accepts, IInv, TypeOK
    <3>2. work.via = work.new.runner /\ a \in held \ started
      BY <1>3, <3>1 DEF IInv, Hands, Hand, Records
    <3>3. work # Idle
      BY <3>1, WorkFields DEF Writes
    <3> QED
      BY <1>3, <3>2, <3>3 DEF RollBack, AssignmentOf
  <2>2. a.runner # None
    BY <2>1, HeldAssignments
  <2>3. \A v \in Workers : worker'[v] # Idle => worker'[v].via # a.runner
    BY <1>1, <2>1, <2>2 DEF IInv, Exclusive, Apart
  <2> HIDE DEF a
  <2> QED
    BY <1>1, <2>1, <2>3, ForgetKeeps
<1> QED
  BY <1>2, <1>3

\* A verdict is computed from the row as it is when the probe comes back.
LEMMA VerifyKeeps ==
  ASSUME IInv, NEW w \in Workers, NEW verdict \in {"succeeded", "verification_failed"},
         Verify(w, verdict)
  PROVE  IInv'
<1>1. worker[w] \in Work /\ worker[w].step = "verify" /\ Hand(worker[w])
  BY DEF Verify, IInv, TypeOK, Hands
<1>2. PICK d \in Stored : d = worker[w].id
  BY <1>1 DEF Hand
<1>3. worker[w] # Idle
  BY <1>1, WorkFields
<1>4. PICK via \in Runners \cup {None} : via = worker[w].via
  BY <1>1, <1>3, WorkFields
<1>5. UNCHANGED <<row, recorded, requests, tokens, held, started>> /\ Links'
  BY LinksKept DEF Verify, runners
<1>6. CASE row[d].status = "verifying" /\ row[d].sequence < MaxSequence
  <2>1. Gets(w, Write("event", via, d, Advanced(row[d], verdict)))
    BY <1>2, <1>4, <1>6 DEF Verify, Gets
  <2>2. \A v \in Workers \ {w} : worker[v] # Idle /\ worker[v].via = via => via = None
    BY <1>3, <1>4 DEF IInv, Exclusive, Apart
  <2>3. /\ verdict \in Status /\ verdict \notin Pending \cup {"cancelled"}
        /\ verdict \notin DOMAIN Sequence
        /\ row[d].status \in Executing /\ row[d].status # "verification_failed"
        /\ Expected(via, d, verdict)
    BY <1>6 DEF Status, Final, Executing, Pending, Sequence, Expected
  <2>4. UNCHANGED <<row, recorded, requests, tokens, held, started>> /\ Links'
    BY <1>5
  <2> QED
    BY <1>6, <2>1, <2>2, <2>3, <2>4, EventTaken
<1>7. CASE ~ (row[d].status = "verifying" /\ row[d].sequence < MaxSequence)
  <2>1. worker' = [worker EXCEPT ![w] = Idle]
    BY <1>2, <1>7 DEF Verify
  <2> QED
    BY <1>5, <2>1, Unmoved, DoneKeeps
<1> QED
  BY <1>6, <1>7

---------------------------------------------------------------------------
(* The transaction *)

\* What is known of a write that commits, and of the rows after it.
LEMMA CommitFacts ==
  ASSUME IInv, NEW w \in Workers, Commit(w), NEW work, work = worker[w]
  PROVE  /\ work \in Work /\ work # Idle /\ work.step \in Writes
         /\ work.via \in Runners \cup {None}
         /\ work.id \in Ids /\ work.new \in Row /\ Hand(work) /\ Good(work.new)
         /\ EnvironmentIndex(work.id, work.new) /\ RunnerIndex(work.id, work.new)
         /\ work.step # "insert" => work.id \in Stored /\ row[work.id].status = work.expected
         /\ work.step = "event" => work.new.sequence = row[work.id].sequence + 1
         /\ row' \in [Ids -> Row \cup {None}]
         /\ row'[work.id] = work.new
         /\ \A d \in Ids \ {work.id} : row'[d] = row[d]
         /\ Stored' = Stored \cup {work.id}
         /\ work.id \in Stored /\ row[work.id].status \notin Pending =>
              /\ work.new.status \notin Pending
              /\ work.new.runner = row[work.id].runner /\ work.new.token = row[work.id].token
<1>1. work \in Work /\ work.step \in Writes /\ Hand(work)
  BY DEF Commit, IInv, TypeOK, Hands
<1>2. /\ work.id \in Ids /\ work.new \in Row /\ Good(work.new) /\ work # Idle
      /\ work.via \in Runners \cup {None}
  BY <1>1, WorkFields DEF Hand
<1>3. EnvironmentIndex(work.id, work.new) /\ RunnerIndex(work.id, work.new) /\ Unchanged(work)
  BY DEF Commit, Writable
<1>4. work.step = "update" => work.id \in Stored /\ row[work.id].status = work.expected
  BY <1>1, <1>3 DEF Unchanged, Hand, Updates
<1>5. work.step = "event" =>
        /\ work.id \in Stored /\ row[work.id].status = work.expected
        /\ row[work.id].sequence + 1 = work.new.sequence
  BY <1>1, <1>3 DEF Unchanged, Hand, Records
<1>6. row' = [row EXCEPT ![work.id] = work.new] /\ row \in [Ids -> Row \cup {None}]
  BY DEF Commit, IInv, TypeOK
<1>7. /\ row' \in [Ids -> Row \cup {None}] /\ row'[work.id] = work.new
      /\ \A d \in Ids \ {work.id} : row'[d] = row[d]
  BY <1>2, <1>6
<1>8. work.new # None
  BY <1>2, RowAssumption
<1>9. Stored' = Stored \cup {work.id}
  BY <1>2, <1>7, <1>8 DEF Stored
<1>10. work.id \in Stored /\ row[work.id].status \notin Pending =>
         /\ work.new.status \notin Pending
         /\ work.new.runner = row[work.id].runner /\ work.new.token = row[work.id].token
  <2>1. CASE work.step = "insert"
    BY <1>1, <2>1 DEF Hand, Inserts
  <2>2. CASE work.step = "update"
    BY <1>1, <1>4, <2>2 DEF Hand, Updates, Settled, Pending
  <2>3. CASE work.step = "event"
    BY <1>1, <1>5, <2>3 DEF Hand, Records, Settled
  <2> QED
    BY <1>1, <2>1, <2>2, <2>3 DEF Writes
<1> QED
  BY <1>1, <1>2, <1>3, <1>4, <1>5, <1>7, <1>9, <1>10 DEF Writes

\* An acceptance in hand is of an assignment that is about, and one that can be
\* answered is of an assignment its runner holds.
LEMMA AcceptsFacts ==
  ASSUME IInv, NEW w \in Workers, NEW work, work = worker[w], Accepts(work)
  PROVE  /\ AssignmentOf(work) \in Assignment /\ Known(AssignmentOf(work))
         /\ work.new.runner \in Runners /\ work.new.runner # None
         /\ work.new.status = "preparing" /\ work.new.token \in Tokens /\ work # Idle
         /\ work.via # None =>
              work.via = work.new.runner /\ AssignmentOf(work) \in held \ started
<1>1. work \in Work /\ work.step = "event" /\ work.expected = "queued" /\ Hand(work)
  BY DEF Accepts, IInv, TypeOK, Hands
<1>2. /\ work.new.status = "preparing" /\ Good(work.new)
      /\ work.via # None =>
           work.via = work.new.runner /\ AssignmentOf(work) \in held \ started
  BY <1>1 DEF Hand, Records, Writes
<1>3. work # Idle /\ work.new \in Row /\ work.id \in Ids
  BY <1>1, WorkFields DEF Writes
<1>4. work.new.runner # None /\ work.new.runner \in Runners /\ work.new.token \in Tokens
  BY <1>2, <1>3, RowFields DEF Good, Executing
<1>5. AssignmentOf(work) \in Assignment
  BY <1>3, <1>4 DEF AssignmentOf, Assignment
<1>6. Known(AssignmentOf(work))
  BY <1>1, <1>4 DEF Known, Carries, Writes
<1> QED
  BY <1>2, <1>3, <1>4, <1>5, <1>6

\* What a worker goes on to after its transaction.
LEMMA AfterFacts ==
  ASSUME IInv, NEW w \in Workers, Commit(w), NEW work, work = worker[w],
         NEW next, next = After(work)
  PROVE  /\ next \in Work /\ next.step \notin Writes
         /\ next # Idle => next.via = work.via \/ next.via = None
         /\ next.step \in {"offer", "answer"} =>
              next.assignment = AssignmentOf(work) /\ work.new.runner # None
         /\ next.step = "answer" => Accepts(work) /\ next.via = work.via /\ work.via # None
         /\ next.step \in {"verify", "confirm"} => next.id = work.id
<1>1. /\ work \in Work /\ work.step \in Writes /\ work.via \in Runners \cup {None}
      /\ work.id \in Ids /\ work.new \in Row
  BY CommitFacts
<1>2. work.new.runner # None => AssignmentOf(work) \in Assignment
  BY <1>1, RowFields DEF AssignmentOf, Assignment
<1>3. CASE work.step = "update" /\ work.new.status = "queued" /\ work.new.runner # None
  <2>1. next = [step |-> "offer", via |-> None, assignment |-> AssignmentOf(work)]
    BY <1>3 DEF After
  <2> QED
    BY <1>2, <1>3, <2>1, AnswerType DEF Writes
<1>4. CASE /\ Accepts(work) /\ work.via # None
           /\ next = [step |-> "answer", via |-> work.via, assignment |-> AssignmentOf(work)]
  <2>1. AssignmentOf(work) \in Assignment /\ work.new.runner # None
    BY <1>4, AcceptsFacts
  <2> QED
    BY <1>1, <1>4, <2>1, AnswerType DEF Writes
<1>5. CASE next = [step |-> "verify", via |-> work.via, id |-> work.id]
  BY <1>1, <1>5, VerifyType DEF Writes
<1>6. CASE next = [step |-> "confirm", via |-> work.via, id |-> work.id]
  BY <1>1, <1>6, VerifyType DEF Writes
<1>7. CASE next = Idle
  BY <1>7 DEF Idle, Work, Writes
<1> QED
  BY <1>3, <1>4, <1>5, <1>6, <1>7 DEF After

\* Types and rows after the transaction.
LEMMA CommitTypes ==
  ASSUME IInv, NEW w \in Workers, Commit(w)
  PROVE  /\ TypeOK' /\ Rows'
         /\ worker' \in [Workers -> Work] /\ worker'[w] = After(worker[w])
         /\ \A v \in Workers \ {w} : worker'[v] = worker[v]
<1>0. PICK work : work = worker[w]
  OBVIOUS
<1>1. After(work) \in Work
  BY <1>0, AfterFacts
<1>2. worker' = [worker EXCEPT ![w] = After(work)] /\ worker \in [Workers -> Work]
  BY <1>0 DEF Commit, IInv, Hands
<1>3. /\ worker' \in [Workers -> Work] /\ worker'[w] = After(work)
      /\ \A v \in Workers \ {w} : worker'[v] = worker[v]
  BY <1>1, <1>2
<1>4. UNCHANGED <<requests, tokens, held, started>> /\ Links'
  BY LinksKept DEF Commit, runners
<1>5. /\ work.id \in Ids /\ work.new \in Row /\ Good(work.new) /\ work.step \in Writes
      /\ row' \in [Ids -> Row \cup {None}] /\ row'[work.id] = work.new
      /\ \A d \in Ids \ {work.id} : row'[d] = row[d]
      /\ Stored' = Stored \cup {work.id} /\ Stored \subseteq Ids
      /\ work.step # "insert" => work.id \in Stored
  BY <1>0, CommitFacts, StoredRows DEF IInv
<1>6. recorded' \subseteq Tokens
  <2>1. recorded' = recorded \cup (IF Accepts(work) THEN {work.new.token} ELSE {})
    BY <1>0 DEF Commit
  <2>2. Accepts(work) => work.new.token \in Tokens
    BY <1>0, AcceptsFacts
  <2> QED
    BY <2>1, <2>2 DEF IInv, TypeOK
<1>8. TypeOK'
  <2>1. \A v \in Workers : worker'[v] \in Work
    BY <1>3
  <2> QED
    BY <1>4, <1>5, <1>6, <2>1 DEF IInv, TypeOK, Links
<1>9. Rows'
  <2> SUFFICES ASSUME NEW d \in Stored' PROVE Good(row'[d]) /\ d <= requests
    BY <1>4 DEF Rows, Good
  <2>1. CASE d = work.id
    <3>1. work.step = "insert" => work.id <= requests
      BY <1>0 DEF IInv, Exclusive
    <3> QED
      BY <1>5, <2>1, <3>1 DEF IInv, Rows
  <2>2. CASE d # work.id
    BY <1>5, <2>2 DEF IInv, Rows
  <2> QED
    BY <2>1, <2>2
<1> QED
  BY <1>0, <1>3, <1>8, <1>9

\* What the others have in hand is as good as before.
LEMMA CommitHands ==
  ASSUME IInv, NEW w \in Workers, Commit(w)
  PROVE  Hands'
<1>0. PICK work : work = worker[w]
  OBVIOUS
<1>1. /\ worker' \in [Workers -> Work] /\ worker'[w] = After(work)
      /\ \A v \in Workers \ {w} : worker'[v] = worker[v]
  BY <1>0, CommitTypes
<1>2. /\ work \in Work /\ work # Idle /\ work.step \in Writes /\ work.id \in Ids
      /\ row'[work.id] = work.new /\ \A d \in Ids \ {work.id} : row'[d] = row[d]
      /\ Stored' = Stored \cup {work.id} /\ Stored \subseteq Ids
      /\ work.step # "insert" => work.id \in Stored
      /\ work.id \in Stored /\ row[work.id].status \notin Pending =>
           /\ work.new.status \notin Pending
           /\ work.new.runner = row[work.id].runner /\ work.new.token = row[work.id].token
  BY <1>0, CommitFacts, StoredRows DEF IInv
<1>3. /\ held' = held /\ started' = started
      /\ recorded' = recorded \cup (IF Accepts(work) THEN {work.new.token} ELSE {})
  BY <1>0 DEF Commit, runners
<1>4. ASSUME NEW v \in Workers \ {w} PROVE Hand(worker[v])'
  <2>0. PICK other : other = worker[v] /\ other = worker'[v]
    BY <1>1
  <2>1. other \in Work /\ Hand(other)
    BY <2>0 DEF IInv, TypeOK, Hands
  <2>2. other.step \in {"update", "event"} /\ other.id \in Stored /\ Settled(other) =>
          other.id \in Stored' /\ (other.expected \notin Pending =>
            /\ row'[other.id].status \notin Pending
            /\ row'[other.id].runner = other.new.runner
            /\ row'[other.id].token = other.new.token)
    <3> SUFFICES ASSUME other.id \in Stored, Settled(other), other.expected \notin Pending
                 PROVE  /\ row'[other.id].status \notin Pending
                        /\ row'[other.id].runner = other.new.runner
                        /\ row'[other.id].token = other.new.token
      BY <1>2
    <3>1. CASE other.id = work.id
      BY <1>2, <3>1 DEF Settled
    <3>2. CASE other.id # work.id
      BY <1>2, <3>2 DEF Settled
    <3> QED
      BY <3>1, <3>2
  <2>3. other.step = "insert" => other.id \notin Stored'
    <3> SUFFICES ASSUME other.step = "insert" PROVE other.id \notin Stored'
      OBVIOUS
    <3>1. other.id \notin Stored
      BY <2>1 DEF Hand, Inserts
    <3>2. other.id # work.id
      <4>1. CASE work.step = "insert"
        BY <1>0, <2>0, <4>1 DEF IInv, Exclusive, Apart
      <4>2. CASE work.step # "insert"
        BY <1>2, <3>1, <4>2
      <4> QED
        BY <4>1, <4>2
    <3> QED
      BY <1>2, <3>1, <3>2
  <2>6. other.step = "insert" => Inserts(worker[v])'
    BY <2>0, <2>1, <2>3 DEF Hand, Inserts
  <2>7. other.step = "update" => Updates(worker[v])'
    BY <2>0, <2>1, <2>2 DEF Hand, Updates, Settled
  <2>8. other.step = "event" => Records(worker[v])'
    BY <1>3, <2>0, <2>1, <2>2 DEF Hand, Records, Settled, AssignmentOf
  <2> QED
    BY <1>2, <1>3, <2>0, <2>1, <2>6, <2>7, <2>8 DEF Hand, Good
<1>5. Hand(worker[w])'
  <2>0. PICK next : next = After(work) /\ next = worker'[w]
    BY <1>1
  <2>1. /\ next \in Work /\ next.step \notin Writes
        /\ next.step = "answer" =>
             /\ Accepts(work) /\ next.via = work.via /\ work.via # None
             /\ next.assignment = AssignmentOf(work)
        /\ next.step \in {"verify", "confirm"} => next.id = work.id
    BY <1>0, <2>0, AfterFacts
  <2>2. next.step = "answer" => /\ next.via = next.assignment.runner
                                /\ next.assignment \in held'
                                /\ next.assignment.token \in recorded'
    <3> SUFFICES ASSUME Accepts(work), work.via # None
                 PROVE  /\ work.via = AssignmentOf(work).runner
                        /\ AssignmentOf(work) \in held'
                        /\ AssignmentOf(work).token \in recorded'
      BY <2>1
    <3>1. AssignmentOf(work) \in held /\ work.via = work.new.runner
      BY <1>0, AcceptsFacts
    <3> QED
      BY <1>3, <3>1 DEF AssignmentOf
  <2> QED
    BY <1>2, <2>0, <2>1, <2>2 DEF Hand, Writes
<1> QED
  BY <1>1, <1>4, <1>5 DEF Hands

\* Channels stay busy with one message, ids with one request.
LEMMA CommitExclusive ==
  ASSUME IInv, NEW w \in Workers, Commit(w)
  PROVE  Exclusive'
<1>0. PICK work : work = worker[w]
  OBVIOUS
<1>00. PICK next : next = After(work)
  OBVIOUS
<1>1. /\ worker'[w] = next /\ \A v \in Workers \ {w} : worker'[v] = worker[v]
      /\ requests' = requests
  BY <1>0, <1>00, CommitTypes DEF Commit
<1>2. /\ work # Idle /\ next.step # "insert"
      /\ next # Idle => next.via = work.via \/ next.via = None
  BY <1>0, <1>00, AfterFacts, CommitFacts DEF Writes
<1>3. ASSUME NEW u \in Workers, NEW v \in Workers, u # v PROVE Apart(u, v)'
  <2>1. CASE u # w /\ v # w
    BY <1>1, <1>3, <2>1 DEF IInv, Exclusive, Apart
  <2>2. CASE u = w
    BY <1>0, <1>1, <1>2, <1>3, <2>2 DEF IInv, Exclusive, Apart
  <2>3. CASE v = w
    BY <1>0, <1>1, <1>2, <1>3, <2>3 DEF IInv, Exclusive, Apart
  <2> QED
    BY <2>1, <2>2, <2>3
<1>4. \A v \in Workers : worker'[v].step = "insert" => worker'[v].id <= requests'
  BY <1>1, <1>2 DEF IInv, Exclusive
<1> QED
  BY <1>3, <1>4 DEF Exclusive

\* A commit brings no assignment that was not about, and records the token of the
\* row it writes.
LEMMA CommitAssignments ==
  ASSUME IInv, NEW w \in Workers, Commit(w)
  PROVE  Assignments'
<1>0. PICK work : work = worker[w]
  OBVIOUS
<1>1. /\ work.id \in Ids /\ work.step \in Writes
      /\ row'[work.id] = work.new /\ \A d \in Ids \ {work.id} : row'[d] = row[d]
      /\ Stored' = Stored \cup {work.id} /\ Stored \subseteq Ids
      /\ work.id \in Stored /\ row[work.id].status \notin Pending =>
           /\ work.new.status \notin Pending
           /\ work.new.runner = row[work.id].runner /\ work.new.token = row[work.id].token
  BY <1>0, CommitFacts, StoredRows DEF IInv
<1>2. /\ held' = held /\ started' = started /\ tokens' = tokens
      /\ recorded' = recorded \cup (IF Accepts(work) THEN {work.new.token} ELSE {})
  BY <1>0 DEF Commit, runners
<1>3. /\ AssignmentOf(work).id = work.id /\ AssignmentOf(work).runner = work.new.runner
      /\ AssignmentOf(work).token = work.new.token
  BY DEF AssignmentOf
<1>4. ASSUME NEW a \in Assignment, Known(a)' PROVE Known(a)
  <2>1. \/ a \in held
        \/ InRow(a)' /\ a.runner # None
        \/ \E v \in Workers : Carries(worker'[v], a)
    BY <1>2, <1>4 DEF Known, InRow, Carries, AssignmentOf
  <2>2. ASSUME InRow(a)', a.runner # None PROVE Known(a)
    <3>1. CASE a.id = work.id
      <4>1. work.new.runner = a.runner /\ work.new.token = a.token
        BY <1>1, <2>2, <3>1 DEF InRow
      <4>2. a = AssignmentOf(work)
        BY <3>1, <4>1 DEF Assignment, AssignmentOf
      <4>3. Carries(work, a)
        BY <1>1, <2>2, <4>1, <4>2 DEF Carries
      <4> QED
        BY <1>0, <4>3 DEF Known
    <3>2. CASE a.id # work.id
      <4>1. a.id \in Ids
        BY DEF Assignment
      <4> QED
        BY <1>1, <2>2, <3>2, <4>1 DEF InRow, Known
    <3> QED
      BY <3>1, <3>2
  <2>3. ASSUME NEW v \in Workers, Carries(worker'[v], a) PROVE Known(a)
    <3>1. CASE v # w
      <4>1. worker'[v] = worker[v]
        BY <3>1, CommitTypes
      <4> QED
        BY <2>3, <4>1 DEF Known
    <3>2. CASE v = w
      <4>1. worker'[w] = After(work)
        BY <1>0, CommitTypes
      <4>2. PICK next : next = After(work)
        OBVIOUS
      <4>3. /\ next.step \notin Writes
            /\ next.step \in {"offer", "answer"} =>
                 next.assignment = AssignmentOf(work) /\ work.new.runner # None
        BY <1>0, <4>2, AfterFacts
      <4>4. work.new.runner # None /\ a = AssignmentOf(work)
        BY <2>3, <3>2, <4>1, <4>2, <4>3 DEF Carries
      <4> QED
        BY <1>0, <1>1, <4>4 DEF Known, Carries
    <3> QED
      BY <3>1, <3>2
  <2> QED
    BY <2>1, <2>2, <2>3 DEF Known
<1>5. /\ \A a \in Assignment : Known(a) => a.id \in Stored /\ a.token <= tokens
      /\ \A a, b \in Assignment : Known(a) /\ Known(b) /\ a.token = b.token => a = b
      /\ \A a \in Assignment : Known(a) /\ a.token \in recorded =>
           InRow(a) /\ row[a.id].status \notin Pending
      /\ \A t \in recorded : t <= tokens
      /\ \A a \in started : a.token \in recorded
  BY DEF IInv, Assignments
<1>6. Accepts(work) => /\ AssignmentOf(work) \in Assignment /\ Known(AssignmentOf(work))
                       /\ work.new.status \notin Pending
  BY <1>0, AcceptsFacts DEF Pending
<1>7. ASSUME NEW a \in Assignment, Known(a)', a.token \in recorded'
      PROVE  InRow(a)' /\ row'[a.id].status \notin Pending
  <2>1. Known(a) /\ a.id \in Ids
    BY <1>4, <1>7 DEF Assignment
  <2>2. CASE a.token \in recorded
    <3>1. InRow(a) /\ row[a.id].status \notin Pending
      BY <1>5, <2>1, <2>2
    <3>2. CASE a.id = work.id
      BY <1>1, <3>1, <3>2 DEF InRow
    <3>3. CASE a.id # work.id
      BY <1>1, <2>1, <3>1, <3>3 DEF InRow
    <3> QED
      BY <3>2, <3>3
  <2>3. CASE Accepts(work) /\ a.token = work.new.token
    <3>1. a = AssignmentOf(work)
      BY <1>3, <1>5, <1>6, <2>1, <2>3
    <3>2. a.id = work.id /\ a.runner = work.new.runner
      BY <1>3, <3>1
    <3> QED
      BY <1>1, <1>6, <2>3, <3>2 DEF InRow
  <2> QED
    BY <1>2, <1>7, <2>2, <2>3
<1>8. ASSUME NEW a \in Assignment, Known(a)' PROVE a.id \in Stored' /\ a.token <= tokens'
  BY <1>1, <1>2, <1>4, <1>5, <1>8
<1>9. ASSUME NEW a \in Assignment, NEW b \in Assignment, Known(a)', Known(b)', a.token = b.token
      PROVE  a = b
  BY <1>4, <1>5, <1>9
<1>10. /\ \A t \in recorded' : t <= tokens'
       /\ \A a \in started' : a.token \in recorded'
  BY <1>2, <1>3, <1>5, <1>6
<1> QED
  BY <1>7, <1>8, <1>9, <1>10 DEF Assignments

\* A row is written only when the indexes admit it.
LEMMA CommitIndexed ==
  ASSUME IInv, NEW w \in Workers, Commit(w)
  PROVE  Indexed'
<1>0. PICK work : work = worker[w]
  OBVIOUS
<1>1. /\ work.id \in Ids
      /\ EnvironmentIndex(work.id, work.new) /\ RunnerIndex(work.id, work.new)
      /\ row'[work.id] = work.new /\ \A d \in Ids \ {work.id} : row'[d] = row[d]
      /\ Stored' = Stored \cup {work.id} /\ Stored \subseteq Ids
  BY <1>0, CommitFacts, StoredRows DEF IInv
<1>2. ASSUME NEW d \in Stored', NEW e \in Stored', Occupies(row'[d]), Occupies(row'[e]), d # e
      PROVE  row'[d].environment # row'[e].environment
  <2>1. CASE d = work.id
    BY <1>1, <1>2, <2>1 DEF EnvironmentIndex
  <2>2. CASE e = work.id
    BY <1>1, <1>2, <2>2 DEF EnvironmentIndex
  <2>3. CASE d # work.id /\ e # work.id
    BY <1>1, <1>2, <2>3 DEF IInv, Indexed
  <2> QED
    BY <2>1, <2>2, <2>3
<1>3. ASSUME NEW d \in Stored', NEW e \in Stored', NEW r \in Runners,
             Engages(row'[d], r), Engages(row'[e], r)
      PROVE  d = e
  <2>1. r # None
    BY DeploymentsAssumption
  <2>2. CASE d = work.id /\ e # work.id
    <3>1. work.new.runner = r /\ Engages(work.new, r) /\ Engages(row[e], r) /\ e \in Stored
      BY <1>1, <1>3, <2>2 DEF Engages
    <3> QED
      BY <2>1, <2>2, <3>1, <1>1 DEF RunnerIndex
  <2>3. CASE e = work.id /\ d # work.id
    <3>1. work.new.runner = r /\ Engages(work.new, r) /\ Engages(row[d], r) /\ d \in Stored
      BY <1>1, <1>3, <2>3 DEF Engages
    <3> QED
      BY <2>1, <2>3, <3>1, <1>1 DEF RunnerIndex
  <2>4. CASE d # work.id /\ e # work.id
    BY <1>1, <1>3, <2>4 DEF IInv, Indexed
  <2> QED
    BY <2>2, <2>3, <2>4
<1> QED
  BY <1>2, <1>3 DEF Indexed, Occupies, Engages

\* All of the invariant after the transaction.
LEMMA CommitKeeps ==
  ASSUME IInv, NEW w \in Workers, Commit(w)
  PROVE  IInv'
BY CommitTypes, CommitHands, CommitExclusive, CommitAssignments, CommitIndexed DEF IInv

\* Rows are written by transactions only.
LEMMA OnlyCommits ==
  ASSUME Next
  PROVE  row' = row \/ \E w \in Workers : Commit(w)
<1>1. ASSUME NEW w \in Workers, Serve(w) PROVE row' = row \/ Commit(w)
  BY <1>1 DEF Serve, RollBack, Offer, Answer, Confirm, Verify
<1>2. ASSUME NEW w \in Workers,
             \/ \E e \in Environments, a \in Artifacts, k \in Kinds, p \in People :
                  RequestDeployment(w, e, a, k, p)
             \/ \E d \in Stored, p \in Administrators : ApproveDeployment(w, d, p)
             \/ \E d \in Stored : CancelDeployment(w, d) \/ RetryVerification(w, d)
             \/ \E r \in Runners : Dispatch(w, r)
      PROVE  row' = row
  BY <1>2 DEF RequestDeployment, ApproveDeployment, CancelDeployment, RetryVerification, Dispatch
<1>3. ASSUME NEW w \in Workers,
             \/ \E a \in held \ started : AcceptOffer(w, a)
             \/ \E a \in started, status \in Status : ReportPhase(w, a, status)
             \/ \E a \in started : ResendVerifying(w, a)
             \/ Crash(w)
      PROVE  row' = row
  BY <1>3 DEF AcceptOffer, ReportPhase, ResendVerifying, Crash
<1>4. ASSUME NodeStops \/ \E r \in Runners : Disconnect(r) \/ Join(r) PROVE row' = row
  BY <1>4 DEF NodeStops, Disconnect, Join
<1> QED
  BY <1>1, <1>2, <1>3, <1>4 DEF Next

---------------------------------------------------------------------------
(* Theorems *)

\* Rows, hands and assignments fit together in every interleaving of workers,
\* crashes, broken connections, stops of the node and cancellations.
THEOREM Invariance == Spec => []IInv
<1>1. Init => IInv
  <2> SUFFICES ASSUME Init PROVE IInv
    OBVIOUS
  <2>1. Stored = {} /\ Idle \in Work /\ Idle.step \notin {"insert", "offer", "answer"} \cup Writes
    BY DEF Init, Stored, Work, Idle, Writes
  <2>2. \A w \in Workers : worker[w] = Idle
    BY DEF Init
  <2>3. TypeOK
    BY <2>1, <2>2, DeploymentsAssumption DEF Init, TypeOK, Tokens
  <2>4. Hands
    <3>1. worker \in [Workers -> Work]
      BY <2>1 DEF Init
    <3>2. Hand(Idle)
      BY <2>1 DEF Hand, Writes, Idle
    <3> QED
      BY <2>2, <3>1, <3>2 DEF Hands
  <2>5. Exclusive
    BY <2>1, <2>2 DEF Exclusive, Apart
  <2>6. Assignments
    BY <2>1, <2>2 DEF Init, Assignments, Known, InRow, Carries
  <2> QED
    BY <2>1, <2>3, <2>4, <2>5, <2>6 DEF IInv, Rows, Indexed
<1>2. IInv /\ [Next]_vars => IInv'
  <2> SUFFICES ASSUME IInv, [Next]_vars PROVE IInv'
    OBVIOUS
  <2>1. CASE UNCHANGED vars
    BY <2>1 DEF vars, IInv, TypeOK, Rows, Good, Hands, Hand, Inserts, Updates, Records, Settled,
                Exclusive, Apart, Assignments, Known, InRow, Carries, Indexed, Stored,
                Occupies, Engages, AssignmentOf
  <2>2. ASSUME NEW w \in Workers, Serve(w) PROVE IInv'
    BY <2>2, CommitKeeps, RollBackKeeps, OfferKeeps, AnswerKeeps, ConfirmKeeps, VerifyKeeps
    DEF Serve
  <2> QED
    BY <2>1, <2>2, RequestKeeps, ApproveKeeps, CancelKeeps, RetryKeeps, DispatchKeeps,
       AcceptKeeps, ReportKeeps, ResendKeeps, CrashKeeps, DisconnectKeeps, JoinKeeps,
       NodeStopsKeeps DEF Next
<1> QED
  BY <1>1, <1>2, PTL DEF Spec

\* The types are right; an assignment a runner executes is one it holds.
THEOREM TypeCorrect == Spec => []TypeOK
<1>1. IInv => TypeOK
  BY DEF IInv
<1> QED
  BY <1>1, Invariance, PTL

\* FR-11 for any number of dispatchers: the indexes refuse what their unlocked
\* reads let through, and what executes has a runner.
THEOREM OneExecutes == Spec => []OneActive
<1>1. IInv => OneActive
  <2> SUFFICES ASSUME IInv, NEW d \in In(Executing), NEW e \in In(Executing), d # e
               PROVE  /\ row[d].environment # row[e].environment
                      /\ row[d].runner # row[e].runner
    BY DEF OneActive
  <2>1. /\ d \in Stored /\ e \in Stored
        /\ row[d].status \in Executing /\ row[e].status \in Executing
        /\ row[d].runner # None /\ row[d].runner \in Runners \cup {None}
    BY StoredRows, RowFields DEF In, IInv, Rows, Good
  <2>2. row[d].environment # row[e].environment
    BY <2>1 DEF IInv, Indexed, Occupies
  <2>3. row[d].runner # row[e].runner
    BY <2>1 DEF IInv, Indexed, Engages
  <2> QED
    BY <2>2, <2>3
<1> QED
  BY <1>1, Invariance, PTL

\* What a runner was told it may execute is what the row names, however many
\* assignments were written over one another before.
THEOREM AssignmentExecuted == Spec => []OneAssignmentExecutes
<1>1. IInv => OneAssignmentExecutes
  <2> SUFFICES ASSUME IInv, NEW a \in started
               PROVE  row[a.id].token = a.token /\ row[a.id].runner = a.runner
    BY DEF OneAssignmentExecutes
  <2>1. a \in Assignment /\ Known(a) /\ a.token \in recorded
    BY Unmoved
  <2> QED
    BY <2>1 DEF IInv, Assignments, InRow
<1> QED
  BY <1>1, Invariance, PTL

\* No whole-row write loses an approval or gets around one.
THEOREM Approved == Spec => []ApprovedByAnother
<1>1. IInv => ApprovedByAnother
  BY DEF IInv, Rows, Good, ApprovedByAnother
<1> QED
  BY <1>1, Invariance, PTL

\* Only commits change rows, and they compare the status they read.
THEOREM DecisionsAreKept == Spec => TerminalDecisionKept
<1>1. IInv /\ [Next]_vars =>
        [\A d \in Stored :
           /\ row[d].status \in Final => row'[d].status = row[d].status
           /\ row[d].status = "verification_failed" =>
                row'[d].status \in {"verification_failed", "verifying"}]_vars
  <2> SUFFICES ASSUME IInv, Next, NEW d \in Stored
               PROVE  /\ row[d].status \in Final => row'[d].status = row[d].status
                      /\ row[d].status = "verification_failed" =>
                           row'[d].status \in {"verification_failed", "verifying"}
    BY DEF vars
  <2>1. CASE row' = row
    BY <2>1
  <2>2. ASSUME NEW w \in Workers, Commit(w)
        PROVE  /\ row[d].status \in Final => row'[d].status = row[d].status
               /\ row[d].status = "verification_failed" =>
                    row'[d].status \in {"verification_failed", "verifying"}
    <3>0. PICK work : work = worker[w]
      OBVIOUS
    <3>1. /\ work.step \in Writes /\ Hand(work)
          /\ row'[work.id] = work.new /\ \A e \in Ids \ {work.id} : row'[e] = row[e]
          /\ work.step # "insert" => row[work.id].status = work.expected
          /\ d \in Ids
      BY <2>2, <3>0, CommitFacts, StoredRows DEF IInv
    <3>2. CASE d # work.id
      BY <3>1, <3>2
    <3>3. CASE d = work.id
      <4>1. work.step \in {"update", "event"}
        BY <3>1, <3>3 DEF Hand, Inserts, Writes
      <4>2. row[d].status = work.expected /\ row'[d] = work.new
        BY <3>1, <3>3, <4>1
      <4>3. CASE work.step = "update"
        BY <3>1, <4>2, <4>3 DEF Hand, Updates, Cancellable, Final
      <4>4. CASE work.step = "event"
        BY <3>1, <4>2, <4>4 DEF Hand, Records, Executing, Final
      <4> QED
        BY <4>1, <4>3, <4>4
    <3> QED
      BY <3>2, <3>3
  <2> QED
    BY <2>1, <2>2, OnlyCommits
<1> QED
  BY <1>1, Invariance, PTL DEF Spec, TerminalDecisionKept

\* A commit out of verification is of the event that follows the one the row has
\* seen: the probe of an earlier round has another.
THEOREM VerdictsAreOfTheirRound == Spec => VerdictOfThisRound
<1>1. IInv /\ [Next]_vars =>
        [\A d \in In({"verifying"}) :
           row'[d].status # "verifying" => row'[d].sequence = row[d].sequence + 1]_vars
  <2> SUFFICES ASSUME IInv, Next, NEW d \in In({"verifying"}), row'[d].status # "verifying"
               PROVE  row'[d].sequence = row[d].sequence + 1
    BY DEF vars
  <2>0. d \in Stored /\ d \in Ids /\ row[d].status = "verifying"
    BY StoredRows DEF IInv, In
  <2>1. ASSUME NEW w \in Workers, Commit(w) PROVE row'[d].sequence = row[d].sequence + 1
    <3>0. PICK work : work = worker[w]
      OBVIOUS
    <3>1. /\ work.step \in Writes /\ Hand(work)
          /\ row'[work.id] = work.new /\ \A e \in Ids \ {work.id} : row'[e] = row[e]
          /\ work.step # "insert" => row[work.id].status = work.expected
          /\ work.step = "event" => work.new.sequence = row[work.id].sequence + 1
      BY <2>1, <3>0, CommitFacts
    <3>2. d = work.id
      BY <2>0, <3>1
    <3>3. CASE work.step = "event"
      BY <3>1, <3>2, <3>3
    <3>4. CASE work.step = "update"
      BY <2>0, <3>1, <3>2, <3>4 DEF Hand, Updates, Cancellable
    <3>5. CASE work.step = "insert"
      BY <2>0, <3>1, <3>2, <3>5 DEF Hand, Inserts
    <3> QED
      BY <3>1, <3>3, <3>4, <3>5 DEF Writes
  <2> QED
    BY <2>0, <2>1, OnlyCommits
<1> QED
  BY <1>1, Invariance, PTL DEF Spec, VerdictOfThisRound
=============================================================================
