----------------------- MODULE RunnerProtocolProofs -----------------------
(* Proofs about RunnerProtocol, for every number of attempts and sessions, *)
(* with and without restarts, cancellations and delivery timeouts.         *)
EXTENDS RunnerProtocol, TLAPS

---------------------------------------------------------------------------
(* The inductive invariant *)

\* The sequence and the statuses a request of each kind carries.
SeqOf(kind) ==
  IF kind \in {"accept", "reject"} THEN 1
  ELSE IF kind \in {"start", "unprepared"} THEN 2 ELSE 3

StatusesOf(kind) ==
  IF kind = "accept" THEN {"preparing"}
  ELSE IF kind = "start" THEN {"running"}
  ELSE IF kind = "report" THEN TerminalAttempt ELSE {"failed"}

\* The stages in which an execution may be that has asked for `kind'.
StagesAfter(kind) ==
  IF kind = "report" THEN {"report", "idle"}
  ELSE IF kind = "unprepared" THEN {"unprepared", "idle"} ELSE Stages

\* An id names an offer that was taken and a request the execution made of it.
Issued(id) ==
  /\ id[3] <= taken[id[1]]
  /\ id[3] = taken[id[1]] => exec[id[1]].stage \in StagesAfter(id[2])

Messages == wire \cup requests

MessagesFit ==
  \A m \in Messages :
    /\ m.id[1] = m.attempt
    /\ m.seq = SeqOf(m.id[2])
    /\ m.status \in StatusesOf(m.id[2])
    /\ Issued(m.id)

\* A repeated message says what the first one said.
RepetitionsAgree ==
  \A m, n \in Messages : m.id = n.id => m.status = n.status

\* A request other than a rejection is what its execution waits for.
ExecutionsAsk ==
  \A r \in requests :
    /\ r.id[2] = r.kind
    /\ r.kind # "reject" =>
         /\ r.id[3] = taken[r.attempt]
         /\ exec[r.attempt].stage = r.kind
         /\ \A q \in requests :
              q.kind # "reject" /\ q.attempt = r.attempt => q = r

AnswersRecorded == \A r \in requests : r.reply = "ok" => r.id \in receipts

ReceiptsFit ==
  \A id \in receipts : Issued(id) /\ SeqOf(id[2]) <= attempt[id[1]].seq

\* `running' is recorded under one message id.
StartedUnderOneId ==
  \A i, j \in receipts : i[1] = j[1] /\ i[2] = "start" /\ j[2] = "start" => i[3] = j[3]

\* What was started is the execution that asked for it, which has gone on.
StartsRecorded ==
  \A a \in Attempts :
    /\ started[a] \in {0, 1}
    /\ started[a] = 1 =>
         \E id \in receipts :
           /\ id[1] = a /\ id[2] = "start"
           /\ id[3] = taken[a] => exec[a].stage \in {"idle", "execute", "report"}

\* A recorded outcome is the durable one.
OutcomesRecorded ==
  \A m \in Messages :
    m.id \in receipts /\ m.status \in TerminalAttempt => attempt[m.attempt].status = m.status

\* Sequence and status of an active attempt go together, and the job of an
\* ended one has its status.
AttemptsFit ==
  \A a \in Attempts :
    /\ attempt[a].status = "queued" => attempt[a].seq = 0
    /\ attempt[a].status = "preparing" => attempt[a].seq = 1
    /\ attempt[a].status = "running" => attempt[a].seq = 2
    /\ attempt[a].status # "cancelling"
    /\ attempt[a].status \in TerminalAttempt => job[a] = attempt[a].status

IInv ==
  /\ TypeOK
  /\ MessagesFit /\ RepetitionsAgree /\ ExecutionsAsk /\ AnswersRecorded
  /\ ReceiptsFit /\ StartedUnderOneId /\ StartsRecorded
  /\ OutcomesRecorded /\ AttemptsFit
  /\ AcceptanceRecorded /\ AcknowledgedOutcomeKept

---------------------------------------------------------------------------
(* Init, the connection and the leases *)

\* Nothing is in flight and nothing is recorded at first.
LEMMA IInvInit ==
  ASSUME Init, RunnerProtocolAssumption
  PROVE  IInv
<1>1. TypeOK
  BY DEF Init, TypeOK, RunnerProtocolAssumption, AttemptStatus, ActiveAttempt, JobStatus,
         OwnedJob, Idle, Stages, Kinds
<1>2. Messages = {}
  BY DEF Init, Messages
<1>3. MessagesFit /\ RepetitionsAgree /\ ExecutionsAsk /\ AnswersRecorded /\ OutcomesRecorded
  BY <1>2 DEF Init, Messages, MessagesFit, RepetitionsAgree, ExecutionsAsk, AnswersRecorded,
              OutcomesRecorded
<1>4. ReceiptsFit /\ StartedUnderOneId /\ StartsRecorded /\ AttemptsFit
  BY DEF Init, ReceiptsFit, StartedUnderOneId, StartsRecorded, AttemptsFit, TerminalAttempt
<1>5. AcceptanceRecorded /\ AcknowledgedOutcomeKept
  BY DEF Init, AcceptanceRecorded, AcknowledgedOutcomeKept, Idle
<1> QED
  BY <1>1, <1>3, <1>4, <1>5 DEF IInv

\* The part of the invariant that speaks of attempts only through receipts and
\* the executions; a step that leaves those alone and adds no message keeps it.
LEMMA QuietStep ==
  ASSUME IInv, wire' \subseteq wire,
         UNCHANGED <<receipts, exec, requests, taken, started>>
  PROVE  /\ MessagesFit' /\ RepetitionsAgree' /\ ExecutionsAsk' /\ AnswersRecorded'
         /\ StartedUnderOneId' /\ StartsRecorded' /\ AcceptanceRecorded'
<1>1. Messages' \subseteq Messages
  BY DEF Messages
<1>2. \A id : Issued(id)' = Issued(id)
  BY DEF Issued
<1>3. MessagesFit' /\ RepetitionsAgree'
  BY <1>1, <1>2 DEF IInv, MessagesFit, RepetitionsAgree
<1>4. ExecutionsAsk' /\ AnswersRecorded'
  BY DEF IInv, ExecutionsAsk, AnswersRecorded
<1>5. StartedUnderOneId' /\ StartsRecorded' /\ AcceptanceRecorded'
  BY DEF IInv, StartedUnderOneId, StartsRecorded, AcceptanceRecorded
<1> QED
  BY <1>3, <1>4, <1>5

\* What happens to the connection changes no row and no execution.
LEMMA ConnectionStep ==
  ASSUME IInv, RunnerProtocolAssumption,
         \/ Join \/ Disconnect
         \/ \E w \in wire : Lose(w)
         \/ \E a \in Attempts : Dispatch(a)
  PROVE  IInv'
<1>1. /\ wire' \subseteq wire
      /\ UNCHANGED <<attempt, job, receipts, exec, requests, taken, started, acked>>
  BY DEF Join, Disconnect, Lose, Dispatch, server, runner
<1>2. TypeOK'
  <2>1. CASE Join
    BY <2>1 DEF IInv, Join, Resumed, ActiveAttempts, TypeOK, server, runner
  <2>2. CASE Disconnect
    BY <2>2 DEF IInv, Disconnect, TypeOK, server, runner
  <2>3. CASE \E w \in wire : Lose(w)
    BY <2>3 DEF IInv, Lose, TypeOK, server, runner
  <2>4. CASE \E a \in Attempts : Dispatch(a)
    BY <2>4, RunnerProtocolAssumption DEF IInv, Dispatch, TypeOK, runner
  <2> QED
    BY <2>1, <2>2, <2>3, <2>4
<1>3. Messages' \subseteq Messages
  BY <1>1 DEF Messages
<1>4. ReceiptsFit' /\ OutcomesRecorded' /\ AttemptsFit' /\ AcknowledgedOutcomeKept'
  BY <1>1, <1>3 DEF IInv, ReceiptsFit, Issued, OutcomesRecorded, AttemptsFit,
                    AcknowledgedOutcomeKept
<1> QED
  BY <1>1, <1>2, <1>4, QuietStep DEF IInv

\* A row never goes back, and what has ended is not written again.
RowsAdvance ==
  \A b \in Attempts :
    /\ attempt[b].seq <= attempt'[b].seq
    /\ attempt[b].status \in TerminalAttempt =>
         attempt'[b].status = attempt[b].status /\ job'[b] = job[b]

\* A heartbeat, a lapse, the sweep and a cancellation write rows only.
LEMMA LeaseStep ==
  ASSUME IInv,
         \/ Heartbeat
         \/ \E a \in Attempts : LeaseLapses(a) \/ Sweep(a) \/ Cancel(a)
  PROVE  IInv'
<1> DEFINE Row == [status : AttemptStatus, seq : 0..4, lapsed : BOOLEAN]
<1>1. UNCHANGED <<claimed, wire, up, session, receipts, exec, offers, requests, taken, started,
                  acked>>
  BY DEF Heartbeat, LeaseLapses, Sweep, Cancel, runner
<1>2. \A a \in Attempts :
        /\ attempt[a] \in Row
        /\ attempt[a].status \in ActiveAttempt => attempt[a].seq \in 0..2
  BY DEF IInv, TypeOK, AttemptsFit, ActiveAttempt
<1>3. /\ attempt' \in [Attempts -> Row]
      /\ job' \in [Attempts -> JobStatus]
      /\ told' \subseteq Attempts
      /\ AttemptsFit'
      /\ RowsAdvance
  <2>1. CASE Heartbeat
    <3>1. \A a \in Attempts :
            /\ attempt'[a] \in Row
            /\ attempt'[a].status = attempt[a].status
            /\ attempt'[a].seq = attempt[a].seq
      BY <2>1, <1>2 DEF Heartbeat
    <3>2. attempt' \in [Attempts -> Row]
      BY <2>1, <3>1 DEF Heartbeat
    <3>3. told' \subseteq Attempts
      BY <2>1 DEF Heartbeat, ActiveAttempts, IInv, TypeOK
    <3>4. job' = job
      BY <2>1 DEF Heartbeat
    <3>5. AttemptsFit'
      BY <3>1, <3>4 DEF IInv, AttemptsFit
    <3>6. RowsAdvance
      BY <1>2, <3>1, <3>4 DEF RowsAdvance
    <3> QED
      BY <3>2, <3>3, <3>4, <3>5, <3>6 DEF IInv, TypeOK
  <2>2. ASSUME NEW a \in Attempts, LeaseLapses(a)
        PROVE  /\ attempt' \in [Attempts -> Row]
               /\ job' \in [Attempts -> JobStatus]
               /\ told' \subseteq Attempts
               /\ AttemptsFit'
               /\ RowsAdvance
    <3>1. /\ attempt' \in [Attempts -> Row]
          /\ job' = job /\ told' = told
          /\ \A b \in Attempts :
               attempt'[b].status = attempt[b].status /\ attempt'[b].seq = attempt[b].seq
      BY <2>2, <1>2 DEF LeaseLapses, IInv, TypeOK, runner
    <3>2. AttemptsFit'
      BY <3>1 DEF IInv, AttemptsFit
    <3>3. RowsAdvance
      BY <1>2, <3>1 DEF RowsAdvance
    <3> QED
      BY <3>1, <3>2, <3>3 DEF IInv, TypeOK
  <2>3. ASSUME NEW a \in Attempts, Sweep(a)
        PROVE  /\ attempt' \in [Attempts -> Row]
               /\ job' \in [Attempts -> JobStatus]
               /\ told' \subseteq Attempts
               /\ AttemptsFit'
               /\ RowsAdvance
    <3>1. attempt[a].status \in ActiveAttempt /\ attempt[a].seq + 1 \in 1..3
      BY <2>3, <1>2 DEF Sweep, ActiveAttempts
    <3>2. "failed" \in AttemptStatus /\ "failed" \in JobStatus
      BY DEF AttemptStatus, TerminalAttempt, JobStatus, TerminalJob
    <3>3. /\ attempt' \in [Attempts -> Row]
          /\ attempt'[a].status = "failed" /\ attempt'[a].seq = attempt[a].seq + 1
          /\ \A b \in Attempts \ {a} : attempt'[b] = attempt[b]
      BY <2>3, <1>2, <3>1, <3>2 DEF Sweep, IInv, TypeOK
    <3>4. /\ job' \in [Attempts -> JobStatus]
          /\ job'[a] = "failed"
          /\ \A b \in Attempts \ {a} : job'[b] = job[b]
      BY <2>3, <3>2 DEF Sweep, IInv, TypeOK
    <3>5. AttemptsFit'
      BY <3>3, <3>4 DEF IInv, AttemptsFit
    <3>6. attempt[a].status \notin TerminalAttempt
      BY <3>1 DEF ActiveAttempt, TerminalAttempt
    <3>7. RowsAdvance
      BY <1>2, <3>3, <3>4, <3>6 DEF RowsAdvance
    <3> QED
      BY <2>3, <3>3, <3>4, <3>5, <3>7 DEF Sweep, IInv, TypeOK
  <2>4. ASSUME NEW a \in Attempts, Cancel(a)
        PROVE  /\ attempt' \in [Attempts -> Row]
               /\ job' \in [Attempts -> JobStatus]
               /\ told' \subseteq Attempts
               /\ AttemptsFit'
               /\ RowsAdvance
    <3>1. /\ attempt' = attempt /\ told' = told
          /\ job' \in [Attempts -> JobStatus]
          /\ \A b \in Attempts \ {a} : job'[b] = job[b]
      BY <2>4 DEF Cancel, IInv, TypeOK, JobStatus, OwnedJob, runner
    <3>2. attempt[a].status \notin TerminalAttempt
      BY <2>4 DEF Cancel, IInv, AttemptsFit, TerminalAttempt
    <3>3. AttemptsFit'
      BY <3>1, <3>2 DEF IInv, AttemptsFit
    <3>4. RowsAdvance
      BY <1>2, <3>1, <3>2 DEF RowsAdvance
    <3> QED
      BY <3>1, <3>3, <3>4 DEF IInv, TypeOK
  <2> QED
    BY <2>1, <2>2, <2>3, <2>4
<1>4. TypeOK'
  BY <1>1, <1>3 DEF IInv, TypeOK
<1>5. ReceiptsFit'
  <2>1. \A id \in receipts : id[1] \in Attempts /\ id[2] \in Kinds
    BY DEF IInv, TypeOK, MessageIds
  <2>2. ASSUME NEW id \in receipts PROVE SeqOf(id[2]) <= attempt'[id[1]].seq
    <3>1. SeqOf(id[2]) <= attempt[id[1]].seq
      BY DEF IInv, ReceiptsFit
    <3>2. attempt[id[1]].seq <= attempt'[id[1]].seq
      BY <1>3, <2>1 DEF RowsAdvance
    <3>3. SeqOf(id[2]) \in Nat
      BY DEF SeqOf
    <3>4. attempt[id[1]].seq \in 0..4 /\ attempt'[id[1]].seq \in 0..4
      BY <1>2, <1>3, <2>1
    <3> QED
      BY <3>1, <3>2, <3>3, <3>4
  <2> QED
    BY <1>1, <2>2 DEF IInv, ReceiptsFit, Issued
<1>6. OutcomesRecorded'
  <2>1. \A m \in Messages : m.attempt \in Attempts
    BY DEF IInv, TypeOK, Messages
  <2> QED
    BY <1>1, <1>3, <2>1 DEF IInv, OutcomesRecorded, Messages, RowsAdvance
<1>7. AcknowledgedOutcomeKept'
  BY <1>1, <1>3 DEF IInv, AcknowledgedOutcomeKept, TypeOK, RowsAdvance
<1> QED
  BY <1>1, <1>3, <1>4, <1>5, <1>6, <1>7, QuietStep DEF IInv

---------------------------------------------------------------------------
(* The runner *)

\* Cancelling an execution changes no stage.
LEMMA CancellationStep ==
  ASSUME IInv, HandleHeartbeat
  PROVE  IInv'
<1>1. /\ UNCHANGED <<server, wire, requests, taken, started, acked>>
      /\ \A a \in Attempts : exec'[a].stage = exec[a].stage
  BY DEF HandleHeartbeat, IInv, TypeOK
<1>2. TypeOK'
  BY DEF IInv, HandleHeartbeat, TypeOK, server
<1>3. \A m \in Messages : m.attempt \in Attempts /\ m.id[1] = m.attempt
  BY DEF IInv, TypeOK, Messages, MessagesFit
<1>4. \A id \in receipts : id[1] \in Attempts
  BY DEF IInv, TypeOK, MessageIds
<1>5. \A id : id[1] \in Attempts => Issued(id)' = Issued(id)
  BY <1>1 DEF Issued
<1>6. MessagesFit'
  BY <1>1, <1>3, <1>5 DEF IInv, MessagesFit, Messages
<1>7. ExecutionsAsk'
  BY <1>1, <1>3 DEF IInv, ExecutionsAsk, Messages
<1>8. ReceiptsFit'
  BY <1>1, <1>4, <1>5 DEF IInv, ReceiptsFit, server
<1>9. /\ RepetitionsAgree' /\ AnswersRecorded' /\ StartedUnderOneId' /\ OutcomesRecorded'
      /\ AttemptsFit' /\ AcknowledgedOutcomeKept'
  BY <1>1 DEF IInv, RepetitionsAgree, AnswersRecorded, StartedUnderOneId, OutcomesRecorded,
              AttemptsFit, AcknowledgedOutcomeKept, Messages, server
<1>10. StartsRecorded' /\ AcceptanceRecorded'
  BY <1>1 DEF IInv, StartsRecorded, AcceptanceRecorded, server
<1> QED
  BY <1>2, <1>6, <1>7, <1>8, <1>9, <1>10 DEF IInv

\* A restarted runner knows nothing, and nothing it knew can be answered.
LEMMA RestartStep ==
  ASSUME IInv, Restart
  PROVE  IInv'
<1>1. /\ UNCHANGED <<server, wire, taken, started, acked>>
      /\ requests' = {}
      /\ \A a \in Attempts : exec'[a].stage = "idle"
  BY DEF Restart, Idle
<1>2. TypeOK'
  BY DEF IInv, Restart, TypeOK, server, Idle, Stages
<1>3. \A m \in Messages : m.attempt \in Attempts /\ m.id[1] = m.attempt
  BY DEF IInv, TypeOK, Messages, MessagesFit
<1>4. \A id \in receipts : id[1] \in Attempts
  BY DEF IInv, TypeOK, MessageIds
<1>5. \A id : id[1] \in Attempts /\ Issued(id) => Issued(id)'
  BY <1>1 DEF Issued, StagesAfter, Stages
<1>6. Messages' \subseteq Messages
  BY <1>1 DEF Messages
<1>7. MessagesFit'
  BY <1>3, <1>5, <1>6 DEF IInv, MessagesFit
<1>8. ReceiptsFit'
  BY <1>1, <1>4, <1>5 DEF IInv, ReceiptsFit, server
<1>9. /\ RepetitionsAgree' /\ AnswersRecorded' /\ StartedUnderOneId' /\ OutcomesRecorded'
      /\ AttemptsFit' /\ AcknowledgedOutcomeKept' /\ ExecutionsAsk'
  BY <1>1, <1>6 DEF IInv, RepetitionsAgree, AnswersRecorded, StartedUnderOneId,
                    OutcomesRecorded, AttemptsFit, AcknowledgedOutcomeKept, ExecutionsAsk, server
<1>10. StartsRecorded' /\ AcceptanceRecorded'
  BY <1>1 DEF IInv, StartsRecorded, AcceptanceRecorded, server
<1> QED
  BY <1>2, <1>7, <1>8, <1>9, <1>10 DEF IInv

---------------------------------------------------------------------------
(* Requests *)

\* Two messages that say the same of the same attempt under the same id.
Same(m, n) ==
  m.id = n.id /\ m.attempt = n.attempt /\ m.seq = n.seq /\ m.status = n.status

\* A step that only repeats or drops messages keeps what is said of them.
LEMMA RepeatedMessages ==
  ASSUME IInv, UNCHANGED <<exec, taken>>,
         \A m \in Messages' : \E n \in Messages : Same(m, n)
  PROVE  MessagesFit' /\ RepetitionsAgree'
<1>1. \A id : Issued(id)' = Issued(id)
  BY DEF Issued
<1>2. MessagesFit'
  BY <1>1 DEF IInv, MessagesFit, Same
<1>3. RepetitionsAgree'
  BY DEF IInv, RepetitionsAgree, Same
<1> QED
  BY <1>2, <1>3

\* Sending a request puts a copy of it on the wire.
LEMMA SendStep ==
  ASSUME IInv, RunnerProtocolAssumption, NEW r \in requests, Send(r)
  PROVE  IInv'
<1> DEFINE sent == [r EXCEPT !.sent = session, !.reply = "none"]
           copy == [id |-> r.id, attempt |-> r.attempt, seq |-> r.seq,
                    status |-> r.status, session |-> session]
<1>1. /\ UNCHANGED <<server, up, session, offers, told, exec, taken, started, acked>>
      /\ wire' = wire \cup {copy}
      /\ requests' = (requests \ {r}) \cup {sent}
  BY DEF Send
<1>2. /\ sent \in [id : MessageIds, attempt : Attempts, kind : Kinds, seq : 1..3,
                   status : AttemptStatus, sent : 0..MaxSessions,
                   reply : Answers \cup {"none"}]
      /\ sent.id = r.id /\ sent.attempt = r.attempt /\ sent.kind = r.kind
      /\ sent.seq = r.seq /\ sent.status = r.status /\ sent.reply = "none"
  <2>1. /\ r \in [id : MessageIds, attempt : Attempts, kind : Kinds, seq : 1..3,
                  status : AttemptStatus, sent : 0..MaxSessions,
                  reply : Answers \cup {"none"}]
        /\ session \in 0..MaxSessions
    BY RunnerProtocolAssumption DEF IInv, TypeOK
  <2> QED
    BY <2>1
<1>3. copy \in [id : MessageIds, attempt : Attempts, seq : 1..3, status : AttemptStatus,
                session : 1..MaxSessions]
  BY DEF IInv, TypeOK
<1>4. Same(sent, r) /\ Same(copy, r)
  BY <1>2 DEF Same
<1> HIDE DEF sent, copy
<1>5. TypeOK'
  BY <1>1, <1>2, <1>3 DEF IInv, TypeOK, server
<1>6. \A m \in Messages' : \E n \in Messages : Same(m, n)
  BY <1>1, <1>4 DEF Messages, Same
<1>7. MessagesFit' /\ RepetitionsAgree'
  BY <1>1, <1>6, RepeatedMessages
<1>8. OutcomesRecorded'
  BY <1>1, <1>6 DEF IInv, OutcomesRecorded, Same, server
<1>9. ExecutionsAsk' /\ AnswersRecorded'
  BY <1>1, <1>2 DEF IInv, ExecutionsAsk, AnswersRecorded, server
<1>10. /\ ReceiptsFit' /\ StartedUnderOneId' /\ StartsRecorded' /\ AttemptsFit'
       /\ AcceptanceRecorded' /\ AcknowledgedOutcomeKept'
  BY <1>1 DEF IInv, ReceiptsFit, Issued, StartedUnderOneId, StartsRecorded, AttemptsFit,
              AcceptanceRecorded, AcknowledgedOutcomeKept, server
<1> QED
  BY <1>5, <1>7, <1>8, <1>9, <1>10 DEF IInv

\* What a transaction that records a message knows: it is the first of its
\* kind, its attempt was active and the next in order.
LEMMA RecordFacts ==
  ASSUME IInv, NEW w \in wire, ~ Receipted(w), Recordable(w)
  PROVE  /\ w.attempt \in Attempts
         /\ w.seq = attempt[w.attempt].seq + 1
         /\ w.seq = SeqOf(w.id[2])
         /\ w.status \in StatusesOf(w.id[2])
         /\ attempt[w.attempt].status \in ActiveAttempt
         /\ w.status \in TerminalAttempt => w.status \in JobStatus
         /\ \A id \in receipts : id[1] = w.attempt => SeqOf(id[2]) < w.seq
<1>1. /\ w.attempt \in Attempts /\ w.id[1] = w.attempt
      /\ w.seq = SeqOf(w.id[2]) /\ w.status \in StatusesOf(w.id[2])
  BY DEF IInv, TypeOK, MessagesFit, Messages
<1>2. w.seq = attempt[w.attempt].seq + 1
  BY DEF Recordable, Records
<1>3. attempt[w.attempt].status \in ActiveAttempt
  BY <1>1 DEF Recordable, Records, AttemptMoves, IInv, TypeOK, AttemptStatus, ActiveAttempt,
              TerminalAttempt
<1>4. attempt[w.attempt].seq \in Nat
  BY <1>1 DEF IInv, TypeOK
<1>5. ASSUME NEW id \in receipts, id[1] = w.attempt PROVE SeqOf(id[2]) < w.seq
  <2>1. SeqOf(id[2]) <= attempt[w.attempt].seq
    BY <1>5 DEF IInv, ReceiptsFit
  <2>2. SeqOf(id[2]) \in Nat
    BY DEF SeqOf
  <2> QED
    BY <1>2, <1>4, <2>1, <2>2
<1>6. w.status \in TerminalAttempt => w.status \in JobStatus
  BY DEF TerminalAttempt, JobStatus, TerminalJob
<1> QED
  BY <1>1, <1>2, <1>3, <1>5, <1>6

\* A transaction of the server records a message once, and answers the
\* request of this session.
LEMMA ServeStep ==
  ASSUME IInv, NEW w \in wire, Serve(w)
  PROVE  IInv'
<1> DEFINE a == w.attempt
           records == ~ Receipted(w) /\ Recordable(w)
           Answering(r) == up /\ r.id = w.id /\ r.sent = w.session /\ w.session = session
           Row == [status : AttemptStatus, seq : 0..4, lapsed : BOOLEAN]
           RequestType == [id : MessageIds, attempt : Attempts, kind : Kinds, seq : 1..3,
                           status : AttemptStatus, sent : 0..MaxSessions,
                           reply : Answers \cup {"none"}]
<1>1. /\ wire' = wire \ {w}
      /\ requests' = {IF Answering(r) THEN [r EXCEPT !.reply = Answer(w)] ELSE r : r \in requests}
      /\ receipts' = IF records THEN receipts \cup {w.id} ELSE receipts
      /\ UNCHANGED <<claimed, up, session, offers, told, exec, taken, started, acked>>
  BY DEF Serve
<1>2. /\ a \in Attempts /\ attempt[a] \in Row /\ w.id \in MessageIds /\ w.id[1] = a
      /\ w.seq \in 1..3 /\ w.status \in AttemptStatus /\ w \in Messages
  BY DEF IInv, TypeOK, Messages, MessagesFit
<1>3. ASSUME NEW q \in requests'
      PROVE  /\ q \in RequestType
             /\ \E r \in requests : Same(q, r) /\ q.kind = r.kind
             /\ q.reply = "ok" => q.id \in receipts'
  <2>1. PICK r \in requests : q = IF Answering(r) THEN [r EXCEPT !.reply = Answer(w)] ELSE r
    BY <1>1
  <2>2. r \in RequestType
    BY DEF IInv, TypeOK
  <2>3. Answer(w) \in Answers
    BY DEF Answer, Answers
  <2>4. q \in RequestType /\ Same(q, r) /\ q.kind = r.kind
    BY <2>1, <2>2, <2>3 DEF Same
  <2>5. CASE Answering(r)
    <3>1. q.reply = Answer(w) /\ q.id = w.id
      BY <2>1, <2>2, <2>5
    <3>2. Answer(w) = "ok" => w.id \in receipts'
      BY <1>1 DEF Answer, Receipted
    <3> QED
      BY <2>4, <3>1, <3>2
  <2>6. CASE ~ Answering(r)
    BY <1>1, <2>1, <2>4, <2>6 DEF IInv, AnswersRecorded
  <2> QED
    BY <2>5, <2>6
<1>4. \A m \in Messages' : \E n \in Messages : Same(m, n)
  BY <1>1, <1>3 DEF Messages, Same
<1>5. MessagesFit' /\ RepetitionsAgree'
  BY <1>1, <1>4, RepeatedMessages
<1>6. AnswersRecorded'
  BY <1>3 DEF AnswersRecorded
<1>7. ExecutionsAsk'
  <2> SUFFICES ASSUME NEW q \in requests'
               PROVE  /\ q.id[2] = q.kind
                      /\ q.kind # "reject" =>
                           /\ q.id[3] = taken[q.attempt]
                           /\ exec[q.attempt].stage = q.kind
                           /\ \A p \in requests' :
                                p.kind # "reject" /\ p.attempt = q.attempt => p = q
    BY <1>1 DEF ExecutionsAsk
  <2>1. PICK r \in requests : q = IF Answering(r) THEN [r EXCEPT !.reply = Answer(w)] ELSE r
    BY <1>1
  <2>2. r \in RequestType
    BY DEF IInv, TypeOK
  <2>3. q.kind = r.kind /\ q.id = r.id /\ q.attempt = r.attempt
    BY <2>1, <2>2
  <2>4. ASSUME NEW p \in requests', q.kind # "reject", p.kind # "reject", p.attempt = q.attempt
        PROVE  p = q
    <3>1. PICK t \in requests : p = IF Answering(t) THEN [t EXCEPT !.reply = Answer(w)] ELSE t
      BY <1>1
    <3>2. t \in RequestType
      BY DEF IInv, TypeOK
    <3>3. t.kind = p.kind /\ t.attempt = p.attempt
      BY <3>1, <3>2
    <3>4. t = r
      BY <2>3, <2>4, <3>3 DEF IInv, ExecutionsAsk
    <3> QED
      BY <2>1, <3>1, <3>4
  <2> QED
    BY <2>3, <2>4 DEF IInv, ExecutionsAsk
<1>8. CASE ~ records
  <2>1. UNCHANGED server
    BY <1>1, <1>8 DEF Serve, server
  <2>2. TypeOK'
    BY <1>1, <1>3, <2>1 DEF IInv, TypeOK, server
  <2>3. OutcomesRecorded'
    BY <1>4, <2>1 DEF IInv, OutcomesRecorded, Same, server
  <2>4. /\ ReceiptsFit' /\ StartedUnderOneId' /\ StartsRecorded' /\ AttemptsFit'
        /\ AcceptanceRecorded' /\ AcknowledgedOutcomeKept'
    BY <1>1, <2>1 DEF IInv, ReceiptsFit, Issued, StartedUnderOneId, StartsRecorded, AttemptsFit,
                      AcceptanceRecorded, AcknowledgedOutcomeKept, server
  <2> QED
    BY <1>5, <1>6, <1>7, <2>2, <2>3, <2>4 DEF IInv
<1>9. CASE records
  <2>1. /\ w.seq = attempt[a].seq + 1
        /\ w.seq = SeqOf(w.id[2]) /\ w.status \in StatusesOf(w.id[2])
        /\ attempt[a].status \in ActiveAttempt
        /\ w.status \in TerminalAttempt => w.status \in JobStatus
        /\ \A id \in receipts : id[1] = a => SeqOf(id[2]) < w.seq
    BY <1>9, RecordFacts
  <2>2. /\ attempt' \in [Attempts -> Row]
        /\ attempt'[a].status = w.status /\ attempt'[a].seq = w.seq
        /\ \A b \in Attempts \ {a} : attempt'[b] = attempt[b]
    <3>1. attempt' = [attempt EXCEPT ![a].status = w.status, ![a].seq = w.seq]
      BY <1>9 DEF Serve
    <3>2. w.seq \in 0..4
      BY <1>2
    <3>3. attempt \in [Attempts -> Row]
      BY DEF IInv, TypeOK
    <3> QED
      BY <1>2, <3>1, <3>2, <3>3
  <2>3. /\ job' \in [Attempts -> JobStatus]
        /\ w.status \in TerminalAttempt => job'[a] = w.status
        /\ \A b \in Attempts \ {a} : job'[b] = job[b]
    BY <1>2, <1>9, <2>1 DEF Serve, IInv, TypeOK
  <2>4. receipts' = receipts \cup {w.id}
    BY <1>1, <1>9
  <2>5. TypeOK'
    BY <1>1, <1>2, <1>3, <2>2, <2>3, <2>4 DEF IInv, TypeOK
  <2>6. attempt[a].status \notin TerminalAttempt
    BY <2>1 DEF ActiveAttempt, TerminalAttempt
  <2>7. AttemptsFit'
    <3>1. /\ w.status = "queued" => w.seq = 0
          /\ w.status = "preparing" => w.seq = 1
          /\ w.status = "running" => w.seq = 2
          /\ w.status # "cancelling"
      BY <2>1 DEF SeqOf, StatusesOf, TerminalAttempt
    <3> QED
      BY <2>2, <2>3, <3>1 DEF IInv, AttemptsFit
  <2>8. ReceiptsFit'
    <3>1. \A id \in receipts : id[1] \in Attempts
      BY DEF IInv, TypeOK, MessageIds
    <3>2. ASSUME NEW id \in receipts PROVE SeqOf(id[2]) <= attempt'[id[1]].seq
      <4>1. SeqOf(id[2]) \in Nat
        BY DEF SeqOf
      <4>2. CASE id[1] = a
        BY <1>2, <2>1, <2>2, <4>1, <4>2
      <4>3. CASE id[1] # a
        BY <2>2, <3>1, <4>3 DEF IInv, ReceiptsFit
      <4> QED
        BY <4>2, <4>3
    <3>3. SeqOf(w.id[2]) <= attempt'[w.id[1]].seq
      BY <1>2, <2>1, <2>2
    <3>4. Issued(w.id)
      BY <1>2 DEF IInv, MessagesFit
    <3> QED
      BY <1>1, <2>4, <3>2, <3>3, <3>4 DEF IInv, ReceiptsFit, Issued
  <2>9. StartedUnderOneId'
    <3>1. ~ \E id \in receipts : id[1] = a /\ id[2] = "start" /\ w.id[2] = "start"
      BY <2>1 DEF SeqOf
    <3> QED
      BY <1>2, <2>4, <3>1 DEF IInv, StartedUnderOneId
  <2>10. StartsRecorded' /\ AcceptanceRecorded'
    BY <1>1, <2>4 DEF IInv, StartsRecorded, AcceptanceRecorded
  <2>11. OutcomesRecorded'
    <3> SUFFICES ASSUME NEW m \in Messages, m.id \in receipts', m.status \in TerminalAttempt
                 PROVE  attempt'[m.attempt].status = m.status
      BY <1>4 DEF OutcomesRecorded, Same
    <3>1. m.attempt \in Attempts /\ m.id[1] = m.attempt
      BY DEF IInv, TypeOK, Messages, MessagesFit
    <3>2. CASE m.id = w.id
      <4>1. m.status = w.status
        BY <1>2, <3>2 DEF IInv, RepetitionsAgree
      <4> QED
        BY <1>2, <2>2, <3>1, <3>2, <4>1
    <3>3. CASE m.id # w.id
      <4>1. attempt[m.attempt].status = m.status
        BY <2>4, <3>3 DEF IInv, OutcomesRecorded
      <4> QED
        BY <2>2, <2>6, <3>1, <4>1
    <3> QED
      BY <3>2, <3>3
  <2>12. AcknowledgedOutcomeKept'
    <3>1. acked[a] = "none"
      BY <1>2, <2>6 DEF IInv, TypeOK, AcknowledgedOutcomeKept
    <3> QED
      BY <1>1, <2>2, <2>3, <3>1 DEF IInv, AcknowledgedOutcomeKept
  <2> QED
    BY <1>5, <1>6, <1>7, <2>5, <2>7, <2>8, <2>9, <2>10, <2>11, <2>12 DEF IInv
<1> QED
  BY <1>8, <1>9

---------------------------------------------------------------------------
(* Executions *)

\* A step of the runner that changes no row: what is left to show of it.
LEMMA RunnerStep ==
  ASSUME IInv, UNCHANGED <<server, up, session>>, TypeOK',
         MessagesFit', RepetitionsAgree', ExecutionsAsk', StartsRecorded',
         AcceptanceRecorded', AcknowledgedOutcomeKept',
         \A id \in receipts : Issued(id)',
         \A r \in requests' : r.reply = "ok" => r \in requests,
         \A m \in Messages' \ Messages : m.id \notin receipts \/ m.status \notin TerminalAttempt
  PROVE  IInv'
<1>1. AnswersRecorded' /\ OutcomesRecorded'
  BY DEF IInv, AnswersRecorded, OutcomesRecorded, server
<1>2. ReceiptsFit' /\ StartedUnderOneId' /\ AttemptsFit'
  BY DEF IInv, ReceiptsFit, StartedUnderOneId, AttemptsFit, server
<1> QED
  BY <1>1, <1>2 DEF IInv

\* An execution that enters a stage keeps the ids issued, when the stage
\* follows those in which they were.
LEMMA StageStep ==
  ASSUME IInv, NEW a \in Attempts, NEW stage \in Stages, EnterStage(a, stage),
         UNCHANGED taken,
         exec[a].stage \in {"report", "unprepared"} => stage = "idle",
         exec[a].stage = "idle" => stage = "idle"
  PROVE  /\ exec' \in [Attempts -> [stage : Stages, cancelled : BOOLEAN]]
         /\ exec'[a].stage = stage
         /\ \A b \in Attempts \ {a} : exec'[b] = exec[b]
         /\ \A id : id[1] \in Attempts /\ Issued(id) => Issued(id)'
<1>1. /\ exec' \in [Attempts -> [stage : Stages, cancelled : BOOLEAN]]
      /\ exec'[a].stage = stage
      /\ \A b \in Attempts \ {a} : exec'[b] = exec[b]
  <2>1. exec \in [Attempts -> [stage : Stages, cancelled : BOOLEAN]]
    BY DEF IInv, TypeOK
  <2>2. CASE stage = "idle"
    BY <2>1, <2>2 DEF EnterStage, Idle
  <2>3. CASE stage # "idle"
    BY <2>1, <2>3 DEF EnterStage
  <2> QED
    BY <2>2, <2>3
<1>2. ASSUME NEW id, id[1] \in Attempts, Issued(id) PROVE Issued(id)'
  <2>1. CASE id[1] = a
    BY <1>1, <1>2, <2>1 DEF Issued, StagesAfter, Stages
  <2>2. CASE id[1] # a
    BY <1>1, <1>2, <2>2 DEF Issued
  <2> QED
    BY <2>1, <2>2
<1> QED
  BY <1>1, <1>2

\* A request that is over leaves the messages as they were.
LEMMA OverStep ==
  ASSUME IInv, NEW r \in requests, requests' = requests \ {r}, UNCHANGED <<wire, taken>>,
         r.kind # "reject", NEW stage \in Stages \ {"accept", "start", "unprepared", "report"},
         r.kind \in {"unprepared", "report"} => stage = "idle",
         EnterStage(r.attempt, stage)
  PROVE  /\ exec' \in [Attempts -> [stage : Stages, cancelled : BOOLEAN]]
         /\ exec'[r.attempt].stage = stage
         /\ \A b \in Attempts \ {r.attempt} : exec'[b] = exec[b]
         /\ MessagesFit' /\ RepetitionsAgree' /\ ExecutionsAsk'
         /\ \A id \in receipts : Issued(id)'
<1>1. r.attempt \in Attempts /\ exec[r.attempt].stage = r.kind
  BY DEF IInv, TypeOK, ExecutionsAsk
<1>2. /\ exec' \in [Attempts -> [stage : Stages, cancelled : BOOLEAN]]
      /\ exec'[r.attempt].stage = stage
      /\ \A b \in Attempts \ {r.attempt} : exec'[b] = exec[b]
      /\ \A id : id[1] \in Attempts /\ Issued(id) => Issued(id)'
  <2>1. r.kind # "idle"
    BY DEF IInv, TypeOK, Kinds
  <2> QED
    BY <1>1, <2>1, StageStep
<1>3. Messages' \subseteq Messages
  BY DEF Messages
<1>4. \A m \in Messages : m.id[1] \in Attempts
  BY DEF IInv, TypeOK, Messages, MessageIds
<1>5. MessagesFit' /\ RepetitionsAgree'
  BY <1>2, <1>3, <1>4 DEF IInv, MessagesFit, RepetitionsAgree
<1>6. ASSUME NEW q \in requests'
      PROVE  /\ q.id[2] = q.kind
             /\ q.kind # "reject" =>
                  /\ q.id[3] = taken'[q.attempt]
                  /\ exec'[q.attempt].stage = q.kind
                  /\ \A p \in requests' : p.kind # "reject" /\ p.attempt = q.attempt => p = q
  <2>1. q \in requests /\ q # r /\ q.attempt \in Attempts
    BY DEF IInv, TypeOK
  <2>2. q.kind # "reject" => q.attempt # r.attempt
    BY <2>1 DEF IInv, ExecutionsAsk
  <2> QED
    BY <1>2, <2>1, <2>2 DEF IInv, ExecutionsAsk
<1>7. ExecutionsAsk'
  BY <1>6 DEF ExecutionsAsk
<1>8. \A id \in receipts : id[1] \in Attempts /\ Issued(id)
  BY DEF IInv, TypeOK, MessageIds, ReceiptsFit
<1> QED
  BY <1>2, <1>5, <1>7, <1>8

\* An answer is acted upon by the execution that waits for it; a start that is
\* acknowledged is the first one, an outcome that is acknowledged is recorded.
LEMMA AnsweredStep ==
  ASSUME IInv, NEW r \in requests, Answered(r)
  PROVE  IInv'
<1> DEFINE a == r.attempt
<1>1. /\ r.reply # "none" /\ requests' = requests \ {r}
      /\ UNCHANGED <<server, up, session, wire, offers, told, taken>>
      /\ a \in Attempts /\ r.kind \in Kinds /\ r.reply \in {"none", "ok", "refused"}
      /\ r.status \in AttemptStatus /\ r \in Messages
  BY DEF Answered, IInv, TypeOK, Answers, Messages
<1>2. r.reply = "ok" => r.id \in receipts
  BY DEF IInv, AnswersRecorded
<1>3. /\ r.id[1] = a /\ r.id[2] = r.kind /\ r.id[3] <= taken[a]
      /\ r.kind # "reject" => r.id[3] = taken[a] /\ exec[a].stage = r.kind
      /\ r.kind # "reject" => r.id = <<a, r.kind, taken[a]>>
  <2>1. r.id \in MessageIds
    BY DEF IInv, TypeOK
  <2> QED
    BY <1>1, <2>1 DEF IInv, MessagesFit, ExecutionsAsk, Issued, MessageIds
<1>4. /\ exec' \in [Attempts -> [stage : Stages, cancelled : BOOLEAN]]
      /\ \A b \in Attempts \ {a} : exec'[b] = exec[b]
      /\ r.kind = "reject" => exec' = exec
      /\ r.kind # "reject" => exec'[a].stage = StageAfter(r.kind, r.reply)
      /\ MessagesFit' /\ RepetitionsAgree' /\ ExecutionsAsk'
      /\ \A id \in receipts : Issued(id)'
  <2>1. CASE r.kind = "reject"
    <3>1. exec' = exec /\ Messages' \subseteq Messages
      BY <1>1, <2>1 DEF Answered, Messages
    <3>2. \A id : Issued(id)' = Issued(id)
      BY <1>1, <3>1 DEF Issued
    <3>3. MessagesFit' /\ RepetitionsAgree'
      BY <3>1, <3>2 DEF IInv, MessagesFit, RepetitionsAgree
    <3>4. ExecutionsAsk'
      BY <1>1, <3>1 DEF IInv, ExecutionsAsk
    <3> QED
      BY <2>1, <3>1, <3>2, <3>3, <3>4 DEF IInv, TypeOK, ReceiptsFit
  <2>2. CASE r.kind # "reject"
    <3> DEFINE stage == StageAfter(r.kind, r.reply)
    <3>1. EnterStage(a, stage)
      BY <2>2 DEF Answered
    <3>2. /\ stage \in Stages \ {"accept", "start", "unprepared", "report"}
          /\ r.kind \in {"unprepared", "report"} => stage = "idle"
      BY DEF StageAfter, Stages
    <3> HIDE DEF stage
    <3>3. /\ exec' \in [Attempts -> [stage : Stages, cancelled : BOOLEAN]]
          /\ exec'[a].stage = stage
          /\ \A b \in Attempts \ {a} : exec'[b] = exec[b]
          /\ MessagesFit' /\ RepetitionsAgree' /\ ExecutionsAsk'
          /\ \A id \in receipts : Issued(id)'
      BY <1>1, <2>2, <3>1, <3>2, OverStep
    <3> QED
      BY <2>2, <3>3 DEF stage
  <2> QED
    BY <2>1, <2>2
<1>5. StartsRecorded'
  <2>1. \A b \in Attempts : started'[b] = IF b = a /\ r.kind = "start" /\ r.reply = "ok"
                                         THEN started[a] + 1 ELSE started[b]
    BY <1>1 DEF Answered, IInv, TypeOK
  <2>2. CASE r.kind = "start" /\ r.reply = "ok"
    <3>1. started[a] = 0
      <4> SUFFICES ASSUME started[a] = 1 PROVE FALSE
        BY <1>1 DEF IInv, StartsRecorded
      <4>1. PICK id \in receipts :
              /\ id[1] = a /\ id[2] = "start"
              /\ id[3] = taken[a] => exec[a].stage \in {"idle", "execute", "report"}
        BY <1>1 DEF IInv, StartsRecorded
      <4>2. id[3] = r.id[3]
        BY <1>2, <1>3, <2>2, <4>1 DEF IInv, StartedUnderOneId
      <4> QED
        BY <1>3, <2>2, <4>1, <4>2
    <3>2. exec'[a].stage = "execute"
      BY <1>4, <2>2 DEF StageAfter
    <3>3. r.id \in receipts'
      BY <1>1, <1>2, <2>2 DEF server
    <3>4. ASSUME NEW b \in Attempts
          PROVE  /\ started'[b] \in {0, 1}
                 /\ started'[b] = 1 =>
                      \E id \in receipts' :
                        /\ id[1] = b /\ id[2] = "start"
                        /\ id[3] = taken'[b] => exec'[b].stage \in {"idle", "execute", "report"}
      <4>1. CASE b = a
        BY <1>3, <2>1, <2>2, <3>1, <3>2, <3>3, <4>1
      <4>2. CASE b # a
        BY <1>1, <1>4, <2>1, <4>2 DEF IInv, StartsRecorded, server
      <4> QED
        BY <4>1, <4>2
    <3> QED
      BY <3>4 DEF StartsRecorded
  <2>3. CASE ~ (r.kind = "start" /\ r.reply = "ok")
    <3>1. \A b \in Attempts : exec[b].stage \in {"idle", "execute", "report"} =>
                                exec'[b].stage \in {"idle", "execute", "report"}
      BY <1>1, <1>3, <1>4 DEF StageAfter
    <3> QED
      BY <1>1, <2>1, <2>3, <3>1 DEF IInv, StartsRecorded, server
  <2> QED
    BY <2>2, <2>3
<1>6. AcceptanceRecorded'
  <2>1. r.kind # "reject" /\ exec'[a].stage = "prepare" => <<a, "accept", taken[a]>> \in receipts
    BY <1>1, <1>2, <1>3, <1>4 DEF StageAfter, Kinds
  <2>2. r.kind # "reject" /\ exec'[a].stage = "execute" =>
          /\ <<a, "start", taken[a]>> \in receipts
          /\ <<a, "accept", taken[a]>> \in receipts
    BY <1>1, <1>2, <1>3, <1>4 DEF StageAfter, Kinds, IInv, AcceptanceRecorded
  <2>3. r.kind # "reject" => exec'[a].stage \in {"prepare", "execute", "idle"}
    BY <1>4 DEF StageAfter
  <2>4. ASSUME NEW b \in Attempts
        PROVE  /\ exec'[b].stage \notin {"idle", "accept"} => <<b, "accept", taken[b]>> \in receipts
               /\ exec'[b].stage \in {"execute", "report"} => <<b, "start", taken[b]>> \in receipts
    <3>1. CASE r.kind # "reject" /\ b = a
      BY <2>1, <2>2, <2>3, <3>1
    <3>2. CASE r.kind = "reject" \/ b # a
      BY <1>4, <3>2 DEF IInv, AcceptanceRecorded
    <3> QED
      BY <3>1, <3>2
  <2> QED
    BY <1>1, <2>4 DEF AcceptanceRecorded, server
<1>7. /\ AcknowledgedOutcomeKept'
      /\ acked' \in [Attempts -> TerminalAttempt \cup {"none"}]
  <2>1. CASE r.reply = "ok" /\ r.status \in TerminalAttempt
    <3>1. attempt[a].status = r.status /\ job[a] = r.status
      BY <1>1, <1>2, <2>1 DEF IInv, OutcomesRecorded, AttemptsFit
    <3>2. acked' = [acked EXCEPT ![a] = r.status]
      BY <2>1 DEF Answered
    <3> QED
      BY <1>1, <2>1, <3>1, <3>2 DEF IInv, TypeOK, AcknowledgedOutcomeKept, server
  <2>2. CASE ~ (r.reply = "ok" /\ r.status \in TerminalAttempt)
    BY <1>1, <2>2 DEF Answered, IInv, TypeOK, AcknowledgedOutcomeKept, server
  <2> QED
    BY <2>1, <2>2
<1>8. TypeOK'
  <2>1. started' \in [Attempts -> Nat]
    BY <1>1 DEF Answered, IInv, TypeOK
  <2> QED
    BY <1>1, <1>4, <1>7, <2>1 DEF IInv, TypeOK, server
<1>9. /\ \A q \in requests' : q.reply = "ok" => q \in requests
      /\ Messages' \subseteq Messages
  BY <1>1 DEF Messages
<1> QED
  BY <1>1, <1>4, <1>5, <1>6, <1>7, <1>8, <1>9, RunnerStep

\* A request that is given up drops its execution.
LEMMA GivenUpStep ==
  ASSUME IInv, NEW r \in requests, Abandon(r) \/ TimesOut(r)
  PROVE  IInv'
<1>1. /\ r.kind # "reject" /\ requests' = requests \ {r} /\ EnterStage(r.attempt, "idle")
      /\ UNCHANGED <<server, up, session, wire, offers, told, taken, started, acked>>
      /\ r.attempt \in Attempts
  BY DEF Abandon, TimesOut, IInv, TypeOK
<1>2. /\ exec' \in [Attempts -> [stage : Stages, cancelled : BOOLEAN]]
      /\ exec'[r.attempt].stage = "idle"
      /\ \A b \in Attempts \ {r.attempt} : exec'[b] = exec[b]
      /\ MessagesFit' /\ RepetitionsAgree' /\ ExecutionsAsk'
      /\ \A id \in receipts : Issued(id)'
  <2>1. "idle" \in Stages \ {"accept", "start", "unprepared", "report"}
    BY DEF Stages
  <2> QED
    BY <1>1, <2>1, OverStep
<1>3. TypeOK'
  BY <1>1, <1>2 DEF IInv, TypeOK, server
<1>4. StartsRecorded' /\ AcceptanceRecorded' /\ AcknowledgedOutcomeKept'
  BY <1>1, <1>2 DEF IInv, StartsRecorded, AcceptanceRecorded, AcknowledgedOutcomeKept, server
<1>5. /\ \A q \in requests' : q.reply = "ok" => q \in requests
      /\ Messages' \subseteq Messages
  BY <1>1 DEF Messages
<1> QED
  BY <1>1, <1>2, <1>3, <1>4, <1>5, RunnerStep

\* A new request is typed, says what its kind says, and is not answered yet.
LEMMA RequestFacts ==
  ASSUME RunnerProtocolAssumption, NEW a \in Attempts, NEW kind \in Kinds, NEW n \in Nat,
         NEW outcome \in TerminalAttempt
  PROVE  LET r == Request(a, kind, n, outcome) IN
         /\ r \in [id : MessageIds, attempt : Attempts, kind : Kinds, seq : 1..3,
                   status : AttemptStatus, sent : 0..MaxSessions,
                   reply : Answers \cup {"none"}]
         /\ r.id = <<a, kind, n>> /\ r.attempt = a /\ r.kind = kind /\ r.reply = "none"
         /\ r.seq = SeqOf(kind) /\ r.status \in StatusesOf(kind)
<1>1. /\ EventOf(kind, outcome).seq = SeqOf(kind)
      /\ EventOf(kind, outcome).status \in StatusesOf(kind)
  BY DEF EventOf, SeqOf, StatusesOf, Kinds
<1>2. SeqOf(kind) \in 1..3 /\ StatusesOf(kind) \subseteq AttemptStatus
  BY DEF SeqOf, StatusesOf, AttemptStatus, ActiveAttempt, TerminalAttempt
<1>3. <<a, kind, n>> \in MessageIds
  BY DEF MessageIds
<1>4. 0 \in 0..MaxSessions
  BY DEF RunnerProtocolAssumption
<1> QED
  BY <1>1, <1>2, <1>3, <1>4 DEF Request

\* The execution of an accepted offer asks the server for its next event.
LEMMA AskStep ==
  ASSUME IInv, RunnerProtocolAssumption, NEW a \in Attempts,
         NEW kind \in {"start", "unprepared", "report"}, NEW outcome \in TerminalAttempt,
         exec[a].stage = IF kind = "report" THEN "execute" ELSE "prepare",
         Ask(a, kind, outcome)
  PROVE  IInv'
<1>0. PICK r : r = Request(a, kind, taken[a], outcome)
  OBVIOUS
<1>1. /\ requests' = requests \cup {r}
      /\ EnterStage(a, kind)
      /\ UNCHANGED <<server, up, session, wire, offers, told, taken, started, acked>>
  BY <1>0 DEF Ask
<1>2. /\ r \in [id : MessageIds, attempt : Attempts, kind : Kinds, seq : 1..3,
                status : AttemptStatus, sent : 0..MaxSessions,
                reply : Answers \cup {"none"}]
      /\ r.id = <<a, kind, taken[a]>> /\ r.attempt = a /\ r.kind = kind /\ r.reply = "none"
      /\ r.seq = SeqOf(kind) /\ r.status \in StatusesOf(kind)
  <2>1. kind \in Kinds /\ taken[a] \in Nat
    BY DEF Kinds, IInv, TypeOK
  <2> QED
    BY <1>0, <2>1, RequestFacts
<1>3. r.id[1] = a /\ r.id[2] = kind /\ r.id[3] = taken[a]
  BY <1>2
<1>4. /\ exec' \in [Attempts -> [stage : Stages, cancelled : BOOLEAN]]
      /\ exec'[a].stage = kind
      /\ \A b \in Attempts \ {a} : exec'[b] = exec[b]
      /\ \A id : id[1] \in Attempts /\ Issued(id) => Issued(id)'
  <2>1. kind \in Stages
    BY DEF Stages, Kinds
  <2> QED
    BY <1>1, <2>1, StageStep
<1>5. TypeOK'
  BY <1>1, <1>2, <1>4 DEF IInv, TypeOK, server
<1>6. Messages' = Messages \cup {r}
  BY <1>1 DEF Messages
<1>7. \A id \in receipts : id[1] \in Attempts /\ Issued(id)
  BY DEF IInv, TypeOK, MessageIds, ReceiptsFit
<1>8. \A m \in Messages : m.id[1] \in Attempts /\ Issued(m.id)
  BY DEF IInv, TypeOK, Messages, MessageIds, MessagesFit
<1>9. MessagesFit'
  <2>1. Issued(r.id)'
    <3>1. taken[a] <= taken[a]
      BY DEF IInv, TypeOK
    <3>2. kind \in StagesAfter(kind)
      BY DEF StagesAfter, Stages, Kinds
    <3>3. /\ r.id[3] <= taken'[r.id[1]]
          /\ exec'[r.id[1]].stage \in StagesAfter(r.id[2])
      BY <1>1, <1>3, <1>4, <3>1, <3>2
    <3> QED
      BY <3>3 DEF Issued
  <2>2. /\ r.id[1] = r.attempt
        /\ r.seq = SeqOf(r.id[2])
        /\ r.status \in StatusesOf(r.id[2])
    BY <1>2, <1>3
  <2>3. \A m \in Messages : Issued(m.id)'
    BY <1>4, <1>8
  <2>4. \A m \in Messages :
          m.id[1] = m.attempt /\ m.seq = SeqOf(m.id[2]) /\ m.status \in StatusesOf(m.id[2])
    BY DEF IInv, MessagesFit
  <2>5. \A m \in Messages' :
          /\ m.id[1] = m.attempt /\ m.seq = SeqOf(m.id[2]) /\ m.status \in StatusesOf(m.id[2])
          /\ Issued(m.id)'
    BY <1>6, <2>1, <2>2, <2>3, <2>4
  <2> QED
    BY <2>5 DEF MessagesFit
<1>10. \A id : Issued(id) /\ id = r.id => kind = "start"
  BY <1>3 DEF Issued, StagesAfter
<1>11. RepetitionsAgree'
  <2>1. ASSUME NEW m \in Messages, m.id = r.id PROVE m.status = r.status
    BY <1>2, <1>3, <1>8, <1>10, <2>1 DEF IInv, MessagesFit, StatusesOf
  <2> QED
    BY <1>6, <2>1 DEF IInv, RepetitionsAgree
<1>12. ExecutionsAsk'
  <2>0. \A q \in requests : q.kind \in Kinds
    BY DEF IInv, TypeOK
  <2>1. \A q \in requests : q.kind # "reject" => q.attempt # a
    BY <2>0 DEF IInv, ExecutionsAsk, Kinds
  <2>2. \A q \in requests : q.attempt \in Attempts
    BY DEF IInv, TypeOK
  <2>3. /\ r.id[2] = r.kind /\ r.id[3] = taken'[r.attempt] /\ exec'[r.attempt].stage = r.kind
        /\ \A q \in requests' : q.kind # "reject" /\ q.attempt = r.attempt => q = r
    BY <1>1, <1>2, <1>3, <1>4, <2>1
  <2>4. ASSUME NEW q \in requests
        PROVE  /\ q.id[2] = q.kind
               /\ q.kind # "reject" =>
                    /\ q.id[3] = taken'[q.attempt]
                    /\ exec'[q.attempt].stage = q.kind
                    /\ \A p \in requests' : p.kind # "reject" /\ p.attempt = q.attempt => p = q
    BY <1>1, <1>2, <1>4, <2>1, <2>2 DEF IInv, ExecutionsAsk
  <2> QED
    BY <1>1, <2>3, <2>4 DEF ExecutionsAsk
<1>13. StartsRecorded' /\ AcceptanceRecorded'
  <2>1. exec[a].stage \in {"prepare", "execute"}
    OBVIOUS
  <2>2. <<a, "accept", taken[a]>> \in receipts
    BY <2>1 DEF IInv, AcceptanceRecorded
  <2>3. kind = "report" => <<a, "start", taken[a]>> \in receipts
    BY DEF IInv, AcceptanceRecorded
  <2>4. AcceptanceRecorded'
    BY <1>1, <1>4, <2>2, <2>3 DEF IInv, AcceptanceRecorded, server
  <2>5. kind # "report" => exec[a].stage \notin {"idle", "execute", "report"}
    OBVIOUS
  <2>6. StartsRecorded'
    BY <1>1, <1>4, <2>5 DEF IInv, StartsRecorded, server
  <2> QED
    BY <2>4, <2>6
<1>14. AcknowledgedOutcomeKept'
  BY <1>1 DEF IInv, AcknowledgedOutcomeKept, server
<1>15. \A id \in receipts : Issued(id)'
  BY <1>4, <1>7
<1>16. r.id \notin receipts \/ r.status \notin TerminalAttempt
  <2>1. kind = "start" => r.status = "running"
    BY <1>2 DEF StatusesOf
  <2> QED
    BY <1>7, <1>10, <2>1 DEF TerminalAttempt
<1>17. \A q \in requests' : q.reply = "ok" => q \in requests
  BY <1>1, <1>2
<1> QED
  BY <1>1, <1>5, <1>6, <1>9, <1>11, <1>12, <1>13, <1>14, <1>15, <1>16, <1>17, RunnerStep

\* An offer is taken under a fresh number, so that nothing sent or recorded
\* before can be taken for its answer.
LEMMA TakeOfferStep ==
  ASSUME IInv, RunnerProtocolAssumption, NEW o \in offers, TakeOffer(o)
  PROVE  IInv'
<1> DEFINE a == o.attempt
<1>1. /\ a \in Attempts /\ taken[a] \in Nat
      /\ offers' \subseteq offers
      /\ UNCHANGED <<server, up, session, wire, told, started, acked>>
  BY DEF TakeOffer, IInv, TypeOK
<1>2. CASE exec[a].stage # "idle"
  <2>1. UNCHANGED <<exec, requests, taken>>
    BY <1>2 DEF TakeOffer
  <2>2. TypeOK'
    BY <1>1, <2>1 DEF IInv, TypeOK, server
  <2>3. /\ MessagesFit' /\ RepetitionsAgree' /\ ExecutionsAsk' /\ AnswersRecorded'
        /\ StartedUnderOneId' /\ StartsRecorded' /\ AcceptanceRecorded'
    BY <1>1, <2>1, QuietStep DEF server
  <2>4. ReceiptsFit' /\ OutcomesRecorded' /\ AttemptsFit' /\ AcknowledgedOutcomeKept'
    BY <1>1, <2>1 DEF IInv, ReceiptsFit, Issued, OutcomesRecorded, Messages, AttemptsFit,
                      AcknowledgedOutcomeKept, server
  <2> QED
    BY <2>2, <2>3, <2>4 DEF IInv
<1>3. CASE exec[a].stage = "idle"
  <2>0. PICK kind, r :
          /\ kind \in {"accept", "reject"}
          /\ r = Request(a, kind, taken[a] + 1, "failed")
          /\ requests' = requests \cup {r}
          /\ taken' = [taken EXCEPT ![a] = @ + 1]
          /\ IF kind = "accept" THEN EnterStage(a, "accept") ELSE UNCHANGED exec
    BY <1>3 DEF TakeOffer
  <2>1. /\ r \in [id : MessageIds, attempt : Attempts, kind : Kinds, seq : 1..3,
                  status : AttemptStatus, sent : 0..MaxSessions,
                  reply : Answers \cup {"none"}]
        /\ r.id = <<a, kind, taken[a] + 1>> /\ r.attempt = a /\ r.kind = kind
        /\ r.reply = "none" /\ r.seq = SeqOf(kind) /\ r.status \in StatusesOf(kind)
    <3>1. kind \in Kinds /\ taken[a] + 1 \in Nat /\ "failed" \in TerminalAttempt
      BY <1>1, <2>0 DEF Kinds, TerminalAttempt
    <3> QED
      BY <1>1, <2>0, <3>1, RequestFacts
  <2>2. r.id[1] = a /\ r.id[2] = kind /\ r.id[3] = taken[a] + 1
    BY <2>1
  <2>3. /\ taken' \in [Attempts -> Nat]
        /\ taken'[a] = taken[a] + 1
        /\ \A b \in Attempts \ {a} : taken'[b] = taken[b]
    BY <1>1, <2>0 DEF IInv, TypeOK
  <2>4. /\ exec' \in [Attempts -> [stage : Stages, cancelled : BOOLEAN]]
        /\ \A b \in Attempts \ {a} : exec'[b] = exec[b]
        /\ exec'[a].stage = IF kind = "accept" THEN "accept" ELSE "idle"
    <3>1. CASE kind = "accept"
      <4>1. exec \in [Attempts -> [stage : Stages, cancelled : BOOLEAN]]
        BY DEF IInv, TypeOK
      <4>2. "accept" \in Stages
        BY DEF Stages, Kinds
      <4>3. EnterStage(a, "accept")
        BY <2>0, <3>1
      <4>4. exec' = [exec EXCEPT ![a] = [@ EXCEPT !.stage = "accept"]]
        BY <4>3 DEF EnterStage
      <4> QED
        BY <1>1, <3>1, <4>1, <4>2, <4>4
    <3>2. CASE kind # "accept"
      BY <1>1, <1>3, <2>0, <3>2 DEF IInv, TypeOK
    <3> QED
      BY <3>1, <3>2
  <2>5. ASSUME NEW id \in MessageIds, Issued(id) PROVE Issued(id)' /\ id # r.id
    <3>1. id[1] \in Attempts /\ id[3] \in Nat
      BY DEF MessageIds
    <3>2. CASE id[1] = a
      <4>1. id[3] <= taken[a]
        BY <2>5, <3>2 DEF Issued
      <4>2. id[3] < taken'[a]
        BY <1>1, <2>3, <3>1, <4>1
      <4> QED
        BY <1>1, <2>2, <2>3, <3>1, <3>2, <4>1, <4>2 DEF Issued
    <3>3. CASE id[1] # a
      BY <2>2, <2>3, <2>4, <2>5, <3>1, <3>3 DEF Issued
    <3> QED
      BY <3>2, <3>3
  <2>6. TypeOK'
    BY <1>1, <2>0, <2>1, <2>3, <2>4 DEF IInv, TypeOK, server
  <2>7. Messages' = Messages \cup {r}
    BY <1>1, <2>0 DEF Messages
  <2>8. \A m \in Messages : m.id \in MessageIds /\ Issued(m.id)
    BY DEF IInv, TypeOK, Messages, MessagesFit
  <2>9. \A id \in receipts : id \in MessageIds /\ Issued(id)
    BY DEF IInv, TypeOK, ReceiptsFit
  <2>10. MessagesFit'
    <3>1. /\ r.id[1] = r.attempt /\ r.seq = SeqOf(r.id[2]) /\ r.status \in StatusesOf(r.id[2])
      BY <2>1, <2>2
    <3>2. Issued(r.id)'
      <4>1. taken'[a] <= taken'[a]
        BY <1>1, <2>3
      <4>2. exec'[a].stage \in StagesAfter(kind)
        BY <2>4 DEF StagesAfter, Stages, Kinds
      <4> QED
        BY <2>2, <2>3, <4>1, <4>2 DEF Issued
    <3>3. \A m \in Messages : Issued(m.id)'
      BY <2>5, <2>8
    <3>4. \A m \in Messages :
            m.id[1] = m.attempt /\ m.seq = SeqOf(m.id[2]) /\ m.status \in StatusesOf(m.id[2])
      BY DEF IInv, MessagesFit
    <3>5. \A m \in Messages' :
            /\ m.id[1] = m.attempt /\ m.seq = SeqOf(m.id[2]) /\ m.status \in StatusesOf(m.id[2])
            /\ Issued(m.id)'
      BY <2>7, <3>1, <3>2, <3>3, <3>4
    <3> QED
      BY <3>5 DEF MessagesFit
  <2>11. RepetitionsAgree'
    <3>1. \A m \in Messages : m.id # r.id
      BY <2>5, <2>8
    <3> QED
      BY <2>7, <3>1 DEF IInv, RepetitionsAgree
  <2>12. ExecutionsAsk'
    <3>1. \A q \in requests : q.kind \in Kinds /\ q.attempt \in Attempts
      BY DEF IInv, TypeOK
    <3>2. \A q \in requests : q.kind # "reject" => q.attempt # a
      BY <1>3, <3>1 DEF IInv, ExecutionsAsk, Kinds
    <3>3. ASSUME NEW q \in requests
          PROVE  /\ q.id[2] = q.kind
                 /\ q.kind # "reject" =>
                      /\ q.id[3] = taken'[q.attempt]
                      /\ exec'[q.attempt].stage = q.kind
                      /\ \A p \in requests' : p.kind # "reject" /\ p.attempt = q.attempt => p = q
      BY <2>0, <2>1, <2>3, <2>4, <3>1, <3>2 DEF IInv, ExecutionsAsk
    <3>4. /\ r.id[2] = r.kind
          /\ r.kind # "reject" =>
               /\ r.id[3] = taken'[r.attempt]
               /\ exec'[r.attempt].stage = r.kind
               /\ \A p \in requests' : p.kind # "reject" /\ p.attempt = r.attempt => p = r
      BY <2>0, <2>1, <2>2, <2>3, <2>4, <3>2
    <3> QED
      BY <2>0, <3>3, <3>4 DEF ExecutionsAsk
  <2>13. StartsRecorded'
    <3> SUFFICES ASSUME NEW b \in Attempts
                 PROVE  /\ started[b] \in {0, 1}
                        /\ started[b] = 1 =>
                             \E id \in receipts :
                               /\ id[1] = b /\ id[2] = "start"
                               /\ id[3] = taken'[b] =>
                                    exec'[b].stage \in {"idle", "execute", "report"}
      BY <1>1 DEF StartsRecorded, server
    <3>1. CASE b = a
      <4>1. \A id \in receipts : id[1] = a => id[3] # taken'[a]
        <5>1. \A id \in receipts : id[1] = a => id[3] \in Nat /\ id[3] <= taken[a]
          BY <2>9 DEF Issued, MessageIds
        <5> QED
          BY <1>1, <2>3, <5>1
      <4> QED
        BY <1>1, <3>1, <4>1 DEF IInv, StartsRecorded
    <3>2. CASE b # a
      BY <2>3, <2>4, <3>2 DEF IInv, StartsRecorded
    <3> QED
      BY <3>1, <3>2
  <2>14. AcceptanceRecorded' /\ AcknowledgedOutcomeKept'
    BY <1>1, <2>3, <2>4 DEF IInv, AcceptanceRecorded, AcknowledgedOutcomeKept, server
  <2>15. /\ \A id \in receipts : Issued(id)'
         /\ r.id \notin receipts
    BY <2>5, <2>9
  <2>16. \A q \in requests' : q.reply = "ok" => q \in requests
    BY <2>0, <2>1
  <2> QED
    BY <1>1, <2>6, <2>7, <2>10, <2>11, <2>12, <2>13, <2>14, <2>15, <2>16, RunnerStep
<1> QED
  BY <1>2, <1>3

---------------------------------------------------------------------------
(* The theorems *)

\* The inductive step.
LEMMA IInvStep ==
  ASSUME IInv, RunnerProtocolAssumption, [Next]_vars
  PROVE  IInv'
<1>1. CASE Join \/ Disconnect \/ \E w \in wire : Lose(w)
  BY <1>1, ConnectionStep
<1>2. CASE Restart
  BY <1>2, RestartStep
<1>3. ASSUME NEW w \in wire, Serve(w) PROVE IInv'
  BY <1>3, ServeStep
<1>4. ASSUME NEW a \in Attempts, Dispatch(a) \/ LeaseLapses(a) \/ Sweep(a) \/ Cancel(a)
      PROVE  IInv'
  BY <1>4, ConnectionStep, LeaseStep
<1>5. CASE Heartbeat \/ HandleHeartbeat
  BY <1>5, LeaseStep, CancellationStep
<1>6. ASSUME NEW r \in requests, Send(r) \/ Answered(r) \/ Abandon(r) \/ TimesOut(r)
      PROVE  IInv'
  BY <1>6, SendStep, AnsweredStep, GivenUpStep
<1>7. ASSUME NEW o \in offers, TakeOffer(o) PROVE IInv'
  BY <1>7, TakeOfferStep
<1>8. ASSUME NEW a \in Attempts, Prepare(a) PROVE IInv'
  <2>1. PICK kind \in {"start", "unprepared"} : Ask(a, kind, "failed")
    BY <1>8 DEF Prepare
  <2>2. /\ exec[a].stage = IF kind = "report" THEN "execute" ELSE "prepare"
        /\ kind \in {"start", "unprepared", "report"} /\ "failed" \in TerminalAttempt
    BY <1>8 DEF Prepare, TerminalAttempt
  <2> QED
    BY <2>1, <2>2, AskStep
<1>9. ASSUME NEW a \in Attempts, Execute(a) PROVE IInv'
  <2>1. PICK outcome \in TerminalAttempt : Ask(a, "report", outcome)
    BY <1>9 DEF Execute, TerminalAttempt
  <2>2. exec[a].stage = IF "report" = "report" THEN "execute" ELSE "prepare"
    BY <1>9 DEF Execute
  <2> QED
    BY <2>1, <2>2, AskStep
<1>10. CASE UNCHANGED vars
  <2>1. UNCHANGED <<server, wire, receipts, exec, requests, taken, started, acked>>
    BY <1>10 DEF vars, runner, server
  <2>2. TypeOK'
    BY <1>10 DEF IInv, TypeOK, vars, runner, server
  <2>3. ReceiptsFit' /\ OutcomesRecorded' /\ AttemptsFit' /\ AcknowledgedOutcomeKept'
    BY <2>1 DEF IInv, ReceiptsFit, Issued, OutcomesRecorded, Messages, AttemptsFit,
                AcknowledgedOutcomeKept, server
  <2> QED
    BY <2>1, <2>2, <2>3, QuietStep DEF IInv
<1> QED
  BY <1>1, <1>2, <1>3, <1>4, <1>5, <1>6, <1>7, <1>8, <1>9, <1>10 DEF Next

\* The invariant of the protocol: what is in flight, what was recorded and
\* what the runner does with the answers fit together.
THEOREM Invariance == Spec => []IInv
<1>1. Init => IInv
  BY IInvInit, RunnerProtocolAssumption
<1>2. IInv /\ [Next]_vars => IInv'
  BY IInvStep, RunnerProtocolAssumption
<1> QED
  BY <1>1, <1>2, PTL DEF Spec

\* Every state of the protocol is one the records of both sides allow.
THEOREM TypeCorrect == Spec => []TypeOK
  BY Invariance, PTL DEF IInv

\* However often the connection breaks, the runner restarts and requests are
\* repeated, the steps of an attempt are started at most once.
THEOREM ExecutedAtMostOnce == Spec => []ExecutedOnce
<1>1. IInv => ExecutedOnce
  BY DEF IInv, StartsRecorded, ExecutedOnce
<1> QED
  BY <1>1, Invariance, PTL

\* An execution prepares only what this execution's own acceptance has been
\* recorded for, and runs steps only after its `running' has been.
THEOREM AcceptancesAreRecorded == Spec => []AcceptanceRecorded
  BY Invariance, PTL DEF IInv

\* What the runner was told is recorded is the outcome of attempt and job, and
\* neither the sweep nor a cancellation nor a repetition changes it.
THEOREM AcknowledgedOutcomesAreKept == Spec => []AcknowledgedOutcomeKept
  BY Invariance, PTL DEF IInv

---------------------------------------------------------------------------
(* RunnerProtocol implements AttemptHistory: nothing is known of an attempt  *)
(* before it is claimed                                                      *)

OnlyClaimed ==
  /\ \A o \in offers : o.attempt \in claimed
  /\ \A m \in Messages : m.attempt \in claimed
  /\ \A a \in Attempts \ claimed : exec[a].stage = "idle" /\ attempt[a].status = "queued"

\* The rows of attempts, as the history sees them.
SameLives == /\ UNCHANGED claimed
             /\ \A a \in Attempts : attempt'[a].status = attempt[a].status

\* Steps of the connection and of the rows of claimed attempts.
LEMMA OnlyClaimedRows ==
  ASSUME IInv, OnlyClaimed,
         \/ Join \/ Disconnect \/ Heartbeat \/ HandleHeartbeat
         \/ \E w \in wire : Lose(w)
         \/ \E a \in Attempts : Dispatch(a) \/ LeaseLapses(a) \/ Sweep(a) \/ Cancel(a)
  PROVE  OnlyClaimed'
<1>1. Messages' \subseteq Messages /\ claimed \subseteq claimed'
  BY DEF Join, Disconnect, Heartbeat, HandleHeartbeat, Lose, Dispatch, LeaseLapses, Sweep,
         Cancel, Messages, server, runner
<1>2. \A o \in offers' : o.attempt \in claimed'
  <2>1. CASE Join
    BY <2>1 DEF Join, Resumed, ActiveAttempts, OnlyClaimed, server
  <2>2. ASSUME NEW a \in Attempts, Dispatch(a)
        PROVE  \A o \in offers' : o.attempt \in claimed'
    BY <2>2 DEF Dispatch, OnlyClaimed
  <2>3. CASE offers' \subseteq offers
    BY <1>1, <2>3 DEF OnlyClaimed
  <2> QED
    BY <2>1, <2>2, <2>3 DEF Disconnect, Heartbeat, HandleHeartbeat, Lose, LeaseLapses, Sweep,
                            Cancel
<1>3. \A a \in Attempts \ claimed' : exec'[a].stage = "idle" /\ attempt'[a].status = "queued"
  <2>1. CASE Heartbeat \/ HandleHeartbeat
    BY <2>1 DEF OnlyClaimed, Heartbeat, HandleHeartbeat, ActiveAttempts, server, runner
  <2>2. ASSUME NEW a \in Attempts, LeaseLapses(a) \/ Sweep(a)
        PROVE  \A b \in Attempts \ claimed' :
                 exec'[b].stage = "idle" /\ attempt'[b].status = "queued"
    <3>1. a \in claimed
      BY <2>2 DEF LeaseLapses, Sweep, ActiveAttempts
    <3>2. \A b \in Attempts : b # a => attempt'[b] = attempt[b]
      BY <2>2 DEF LeaseLapses, Sweep, IInv, TypeOK
    <3> QED
      BY <2>2, <3>1, <3>2 DEF OnlyClaimed, LeaseLapses, Sweep, runner
  <2>3. CASE \/ Join \/ Disconnect \/ (\E w \in wire : Lose(w))
             \/ \E a \in Attempts : Dispatch(a) \/ Cancel(a)
    BY <2>3 DEF OnlyClaimed, Join, Disconnect, Lose, Dispatch, Cancel, server, runner
  <2> QED
    BY <2>1, <2>2, <2>3
<1> QED
  BY <1>1, <1>2, <1>3 DEF OnlyClaimed

\* Steps that move messages and executions of attempts that are known.
LEMMA OnlyClaimedMessages ==
  ASSUME IInv, OnlyClaimed,
         \/ Restart
         \/ \E w \in wire : Serve(w)
         \/ \E r \in requests : Send(r) \/ Answered(r) \/ Abandon(r) \/ TimesOut(r)
         \/ \E o \in offers : TakeOffer(o)
         \/ \E a \in Attempts : Prepare(a) \/ Execute(a)
  PROVE  OnlyClaimed'
<1>1. CASE Restart
  BY <1>1 DEF Restart, OnlyClaimed, Messages, Idle, server
<1>2. ASSUME NEW w \in wire, Serve(w) PROVE OnlyClaimed'
  <2>1. w.attempt \in claimed /\ w.attempt \in Attempts
    BY DEF OnlyClaimed, Messages, IInv, TypeOK
  <2>2. \A b \in Attempts : b # w.attempt => attempt'[b] = attempt[b]
    BY <1>2, <2>1 DEF Serve, IInv, TypeOK
  <2>3. \A q \in requests' : \E r \in requests : q.attempt = r.attempt
    <3>1. ASSUME NEW r \in requests
          PROVE  [r EXCEPT !.reply = Answer(w)].attempt = r.attempt
      BY DEF IInv, TypeOK
    <3> QED
      BY <1>2, <3>1 DEF Serve
  <2>4. wire' \subseteq wire /\ UNCHANGED <<claimed, offers, exec>>
    BY <1>2 DEF Serve
  <2> QED
    BY <2>1, <2>2, <2>3, <2>4 DEF OnlyClaimed, Messages
<1>3. ASSUME NEW r \in requests, Send(r) PROVE OnlyClaimed'
  <2>1. r.attempt \in claimed
    BY DEF OnlyClaimed, Messages
  <2>2. [r EXCEPT !.sent = session, !.reply = "none"].attempt = r.attempt
    BY DEF IInv, TypeOK
  <2>3. \A m \in Messages' : m.attempt \in claimed
    <3> DEFINE copy == [id |-> r.id, attempt |-> r.attempt, seq |-> r.seq,
                        status |-> r.status, session |-> session]
    <3>1. wire' = wire \cup {copy} /\ copy.attempt = r.attempt
      BY <1>3 DEF Send
    <3>2. \A q \in requests' : q.attempt \in claimed
      BY <1>3, <2>1, <2>2 DEF Send, OnlyClaimed, Messages
    <3> QED
      BY <2>1, <3>1, <3>2 DEF OnlyClaimed, Messages
  <2> QED
    BY <1>3, <2>3 DEF Send, OnlyClaimed, server
<1>4. ASSUME NEW r \in requests, Answered(r) \/ Abandon(r) \/ TimesOut(r) PROVE OnlyClaimed'
  <2>1. /\ r.attempt \in claimed
        /\ Messages' \subseteq Messages /\ UNCHANGED <<server, offers>>
    BY <1>4 DEF OnlyClaimed, Messages, Answered, Abandon, TimesOut
  <2>2. \A b \in Attempts \ claimed : exec'[b] = exec[b]
    BY <1>4, <2>1 DEF Answered, Abandon, TimesOut, EnterStage, IInv, TypeOK
  <2> QED
    BY <2>1, <2>2 DEF OnlyClaimed, server
<1>5. ASSUME NEW o \in offers, TakeOffer(o) PROVE OnlyClaimed'
  <2>1. o.attempt \in claimed /\ o.attempt \in Attempts
    BY DEF OnlyClaimed, IInv, TypeOK
  <2>2. \A m \in Messages' : m.attempt \in claimed
    BY <1>5, <2>1 DEF TakeOffer, Request, OnlyClaimed, Messages
  <2>3. \A b \in Attempts \ claimed : exec'[b] = exec[b]
    BY <1>5, <2>1 DEF TakeOffer, EnterStage, IInv, TypeOK
  <2>4. offers' \subseteq offers /\ UNCHANGED server
    BY <1>5 DEF TakeOffer
  <2> QED
    BY <2>2, <2>3, <2>4 DEF OnlyClaimed, server
<1>6. ASSUME NEW a \in Attempts, Prepare(a) \/ Execute(a) PROVE OnlyClaimed'
  <2>1. a \in claimed
    BY <1>6 DEF OnlyClaimed, Prepare, Execute
  <2>2. PICK kind, outcome : Ask(a, kind, outcome)
    BY <1>6 DEF Prepare, Execute
  <2>3. \A m \in Messages' : m.attempt \in claimed
    BY <2>1, <2>2 DEF Ask, Request, OnlyClaimed, Messages
  <2>4. \A b \in Attempts \ claimed : exec'[b] = exec[b]
    BY <2>1, <2>2 DEF Ask, EnterStage, IInv, TypeOK
  <2> QED
    BY <2>2, <2>3, <2>4 DEF Ask, OnlyClaimed, server
<1> QED
  BY <1>1, <1>2, <1>3, <1>4, <1>5, <1>6

\* Nothing is offered, sent, executed or recorded of an attempt that the
\* scheduler has not claimed for this runner.
THEOREM OnlyClaimedKnown == Spec => []OnlyClaimed
<1>1. Init => OnlyClaimed
  BY DEF Init, OnlyClaimed, Messages, Idle
<1>2. IInv /\ OnlyClaimed /\ [Next]_vars => OnlyClaimed'
  <2> SUFFICES ASSUME IInv, OnlyClaimed, [Next]_vars PROVE OnlyClaimed'
    OBVIOUS
  <2>1. CASE UNCHANGED vars
    BY <2>1 DEF vars, server, runner, OnlyClaimed, Messages
  <2>2. CASE Next
    BY <2>2, OnlyClaimedRows, OnlyClaimedMessages DEF Next
  <2> QED
    BY <2>1, <2>2
<1> QED
  BY <1>1, <1>2, Invariance, PTL DEF Spec

---------------------------------------------------------------------------
(* Every step is a step of the history, or none *)

\* What a step leaves to the history that changes no status, no receipt, no
\* count and no acknowledgement.
LEMMA HistoryStutters ==
  ASSUME UNCHANGED <<claimed, receipts, started, acked>>,
         \A a \in Attempts : attempt'[a].status = attempt[a].status
  PROVE  UNCHANGED History!vars
  BY DEF History!vars

\* The steps of the connection, of messages and of executions that wait.
LEMMA QuietHistory ==
  ASSUME IInv,
         \/ Join \/ Disconnect \/ Restart \/ Heartbeat \/ HandleHeartbeat
         \/ \E w \in wire : Lose(w)
         \/ \E a \in Attempts : LeaseLapses(a) \/ Cancel(a) \/ Prepare(a) \/ Execute(a)
         \/ \E r \in requests : Send(r) \/ Abandon(r) \/ TimesOut(r)
         \/ \E o \in offers : TakeOffer(o)
  PROVE  UNCHANGED History!vars
<1>1. UNCHANGED <<claimed, receipts, started, acked>>
  BY DEF Join, Disconnect, Restart, Heartbeat, HandleHeartbeat, Lose, LeaseLapses, Cancel,
         Prepare, Execute, Ask, Send, Abandon, TimesOut, TakeOffer, server, runner
<1>2. \A a \in Attempts : attempt'[a].status = attempt[a].status
  <2>1. CASE Heartbeat
    BY <2>1 DEF Heartbeat, IInv, TypeOK
  <2>2. ASSUME NEW a \in Attempts, LeaseLapses(a)
        PROVE  \A b \in Attempts : attempt'[b].status = attempt[b].status
    BY <2>2 DEF LeaseLapses, IInv, TypeOK
  <2>3. CASE attempt' = attempt
    BY <2>3
  <2> QED
    BY <2>1, <2>2, <2>3 DEF Join, Disconnect, Restart, HandleHeartbeat, Lose, Cancel, Prepare,
                            Execute, Ask, Send, Abandon, TimesOut, TakeOffer, server
<1> QED
  BY <1>1, <1>2, HistoryStutters

\* A claim offers the attempt.
LEMMA DispatchHistory ==
  ASSUME OnlyClaimed, NEW a \in Attempts, Dispatch(a)
  PROVE  History!Offer(a)
<1>1. /\ a \notin claimed /\ claimed' = claimed \cup {a}
      /\ attempt[a].status = "queued"
      /\ UNCHANGED <<attempt, receipts, started, acked>>
  BY DEF Dispatch, OnlyClaimed, runner
<1> QED
  BY <1>1 DEF History!Offer

\* Losing the lease ends it.
LEMMA SweepHistory ==
  ASSUME IInv, NEW a \in Attempts, Sweep(a)
  PROVE  History!End(a)
<1>1. /\ a \in claimed /\ attempt[a].status \in {"queued", "preparing", "running"}
      /\ UNCHANGED <<claimed, receipts, started, acked>>
  BY DEF Sweep, ActiveAttempts, ActiveAttempt, IInv, AttemptsFit, runner
<1>2. /\ attempt'[a].status = "failed"
      /\ \A b \in Attempts : b # a => attempt'[b] = attempt[b]
  BY DEF Sweep, IInv, TypeOK
<1> QED
  BY <1>1, <1>2 DEF History!End, History!Ended

\* The server records a message, or answers a repetition or a stale one.
LEMMA ServeHistory ==
  ASSUME IInv, OnlyClaimed, NEW w \in wire, Serve(w)
  PROVE  (\E a \in Attempts : History!Prepare(a) \/ History!Permit(a) \/ History!End(a))
           \/ UNCHANGED History!vars
<1> DEFINE a == w.attempt
           records == ~ Receipted(w) /\ Recordable(w)
<1>1. CASE ~ records
  <2>1. UNCHANGED <<attempt, claimed, receipts, started, acked>>
    BY <1>1 DEF Serve
  <2> QED
    BY <2>1, HistoryStutters
<1>2. CASE records
  <2>1. /\ a \in Attempts /\ a \in claimed /\ w.id[1] = a
        /\ w.seq = attempt[a].seq + 1 /\ w.seq = SeqOf(w.id[2])
        /\ w.status \in StatusesOf(w.id[2])
    BY <1>2, RecordFacts DEF OnlyClaimed, Messages, IInv, MessagesFit
  <2>2. w.status \in AttemptMoves[attempt[a].status] /\ attempt[a].status \in AttemptStatus
    BY <1>2, <2>1 DEF Recordable, Records, IInv, TypeOK
  <2>3. /\ attempt'[a].status = w.status
        /\ \A b \in Attempts : b # a => attempt'[b] = attempt[b]
        /\ receipts' = receipts \cup {w.id}
        /\ UNCHANGED <<claimed, started, acked>>
    <3>1. attempt' = [attempt EXCEPT ![a].status = w.status, ![a].seq = w.seq]
      BY <1>2 DEF Serve
    <3>2. /\ receipts' = receipts \cup {w.id}
          /\ UNCHANGED <<claimed, started, acked>>
      BY <1>2 DEF Serve
    <3> QED
      BY <2>1, <3>1, <3>2 DEF IInv, TypeOK
  <2>4. CASE w.id[2] = "accept"
    <3>1. attempt[a].status = "queued" /\ w.status = "preparing"
      BY <2>1, <2>2, <2>4 DEF StatusesOf, AttemptMoves, AttemptStatus, ActiveAttempt,
                              TerminalAttempt
    <3>2. UNCHANGED {id[1] : id \in {r \in receipts : r[2] = "start"}}
      BY <2>3, <2>4
    <3> QED
      BY <2>1, <2>3, <3>1, <3>2 DEF History!Prepare
  <2>5. CASE w.id[2] = "start"
    <3>1. attempt[a].status = "preparing" /\ w.status = "running"
      BY <2>1, <2>2, <2>5 DEF StatusesOf, AttemptMoves, AttemptStatus, ActiveAttempt,
                              TerminalAttempt
    <3>2. {id[1] : id \in {r \in receipts : r[2] = "start"}}'
            = {id[1] : id \in {r \in receipts : r[2] = "start"}} \cup {a}
      BY <2>1, <2>3, <2>5
    <3> QED
      BY <2>1, <2>3, <3>1, <3>2 DEF History!Permit
  <2>6. CASE w.id[2] \notin {"accept", "start"}
    <3>1. w.status \in TerminalAttempt
      BY <2>1, <2>6 DEF StatusesOf, TerminalAttempt
    <3>2. attempt[a].status \in {"queued", "preparing", "running"}
      BY <2>1, <2>2, <3>1 DEF AttemptMoves, AttemptStatus, ActiveAttempt, TerminalAttempt, IInv,
                              AttemptsFit
    <3>3. w.status # "failed" => attempt[a].status = "running"
      <4>1. ASSUME w.status # "failed" PROVE w.seq = 3
        BY <2>1, <2>6, <4>1 DEF StatusesOf, SeqOf
      <4> QED
        BY <2>1, <3>2, <4>1 DEF IInv, AttemptsFit, TypeOK
    <3>4. UNCHANGED {id[1] : id \in {r \in receipts : r[2] = "start"}}
      BY <2>3, <2>6
    <3> QED
      BY <2>1, <2>3, <3>1, <3>2, <3>3, <3>4 DEF History!End, History!Ended, TerminalAttempt
  <2> QED
    BY <2>1, <2>4, <2>5, <2>6
<1> QED
  BY <1>1, <1>2

\* What an answered request tells its execution.
LEMMA AnsweredHistory ==
  ASSUME IInv, IInv', OnlyClaimed, NEW r \in requests, Answered(r)
  PROVE  (\E a \in Attempts : History!Run(a) \/ History!Learn(a)) \/ UNCHANGED History!vars
<1> DEFINE a == r.attempt
<1>1. /\ a \in Attempts /\ a \in claimed /\ r.id[1] = a /\ r.id[2] = r.kind
      /\ r.status \in StatusesOf(r.kind)
      /\ UNCHANGED <<attempt, claimed, receipts>>
  BY DEF IInv, TypeOK, MessagesFit, ExecutionsAsk, OnlyClaimed, Messages, Answered, server
<1>2. /\ started' = IF r.kind = "start" /\ r.reply = "ok"
                     THEN [started EXCEPT ![a] = @ + 1] ELSE started
      /\ acked' = IF r.reply = "ok" /\ r.status \in TerminalAttempt
                   THEN [acked EXCEPT ![a] = r.status] ELSE acked
  BY DEF Answered
<1>3. CASE r.kind = "start" /\ r.reply = "ok"
  <2>1. r.status \notin TerminalAttempt
    BY <1>1, <1>3 DEF StatusesOf, TerminalAttempt
  <2>2. acked' = acked /\ started' = [started EXCEPT ![a] = @ + 1]
    BY <1>2, <1>3, <2>1
  <2>3. started[a] = 0
    <3>1. started[a] \in {0, 1} /\ started'[a] \in {0, 1}
      BY <1>1 DEF IInv, StartsRecorded
    <3> QED
      BY <1>1, <2>2, <3>1 DEF IInv, TypeOK
  <2>4. started' = [started EXCEPT ![a] = 1]
    BY <1>1, <2>2, <2>3 DEF IInv, TypeOK
  <2>5. a \in {id[1] : id \in {q \in receipts : q[2] = "start"}}
    BY <1>1, <1>3 DEF IInv, AnswersRecorded
  <2> QED
    BY <1>1, <2>2, <2>3, <2>4, <2>5 DEF History!Run
<1>4. CASE r.reply = "ok" /\ r.status \in TerminalAttempt
  <2>1. r.kind # "start"
    BY <1>1, <1>4 DEF StatusesOf, TerminalAttempt
  <2>2. started' = started /\ acked' = [acked EXCEPT ![a] = r.status]
    BY <1>2, <1>4, <2>1
  <2>3. attempt[a].status = r.status
    BY <1>1, <1>4 DEF IInv, AnswersRecorded, OutcomesRecorded, Messages
  <2> QED
    BY <1>1, <1>4, <2>2, <2>3 DEF History!Learn, History!Ended, TerminalAttempt
<1>5. CASE r.reply # "ok" \/ (r.kind # "start" /\ r.status \notin TerminalAttempt)
  BY <1>1, <1>2, <1>5, HistoryStutters
<1> QED
  BY <1>3, <1>4, <1>5

\* The refinement step.
LEMMA HistoryStep ==
  ASSUME IInv, IInv', OnlyClaimed, [Next]_vars
  PROVE  [History!Next]_(History!vars)
<1>1. CASE UNCHANGED vars
  BY <1>1, HistoryStutters DEF vars, server, runner
<1>2. ASSUME NEW a \in Attempts, Dispatch(a) PROVE History!Next
  BY <1>2, DispatchHistory DEF History!Next
<1>3. ASSUME NEW a \in Attempts, Sweep(a) PROVE History!Next
  BY <1>3, SweepHistory DEF History!Next
<1>4. ASSUME NEW w \in wire, Serve(w) PROVE [History!Next]_(History!vars)
  BY <1>4, ServeHistory DEF History!Next
<1>5. ASSUME NEW r \in requests, Answered(r) PROVE [History!Next]_(History!vars)
  BY <1>5, AnsweredHistory DEF History!Next
<1> QED
  BY <1>1, <1>2, <1>3, <1>4, <1>5, QuietHistory DEF Next

\* Whatever the connection does, runner and control plane together behave like
\* the abstract history: order, single execution, single end, true answers.
THEOREM HistoryImplemented == Spec => ImplementsHistory
<1>1. Init => History!Init
  BY DEF Init, History!Init
<1>2. IInv /\ IInv' /\ OnlyClaimed /\ [Next]_vars => [History!Next]_(History!vars)
  BY HistoryStep
<1> QED
  BY <1>1, <1>2, Invariance, OnlyClaimedKnown, PTL DEF Spec, ImplementsHistory, History!Spec
=============================================================================
