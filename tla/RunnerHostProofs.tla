-------------------------- MODULE RunnerHostProofs --------------------------
(* Theorems about RunnerHost, for any servers and any number of identities  *)
(* and processes.                                                           *)
EXTENDS RunnerHost, TLAPS

---------------------------------------------------------------------------
(* The inductive invariant *)

\* Process numbers are not used twice, and what a process logged says who it is.
Pids ==
  /\ \A p \in procs : p.pid <= lastPid
  /\ \A e \in log : e.pid <= lastPid
  /\ \A e \in log, p \in procs : e.pid = p.pid => e.same = p.same /\ e.as = p.as

\* An identity that is issued is newer than the one in the file.
Fresh ==
  /\ file.id <= issued
  /\ pending # NoPending => file.id < pending[1].id /\ pending[1].id <= issued

\* What the installer found out and has not been replaced since.
Checked ==
  /\ inst.asked => inst.as.server = Expected
  /\ inst.as.id <= file.id

\* An identity is the one that was checked, unless the file was replaced.
Current(who) == file = inst.as => who = inst.as

Found == {"found", "identified", "verifying", "done"}
Identified == Found \ {"found"}
Opened == {"writing", "starting", "restarting", "started"} \cup Found
Cleared == {"logging"} \cup Opened

\* Once the identical processes are gone, every identical process is a new one.
NewOnes ==
  inst.stage \in Cleared => \A p \in procs : p.same => Current(p.as)

\* So is every process of the installed command that the log speaks of.
NewEntries ==
  inst.stage \in Opened => \A e \in log : e.same => Current(e.as)

\* The process that was found runs the installed command.
Awaited ==
  /\ inst.stage \in Found => inst.pid <= lastPid
  /\ inst.stage \in Identified =>
       /\ \A p \in procs : p.pid = inst.pid => p.same
       /\ \A e \in log : e.pid = inst.pid => e.same

\* Who is stopped is a process of this installation's kind.
Targets ==
  /\ \A pid \in inst.targets : pid <= lastPid
  /\ \A p \in procs : p.pid \in inst.targets => p.same

Seen ==
  inst.stage = "done" => \E e \in log : e.what = "connected" /\ Begins(inst.pid, e.pid)

IInv ==
  /\ TypeOK /\ Pids /\ Fresh /\ Checked /\ NewOnes /\ NewEntries /\ Awaited
  /\ Targets /\ Seen
  /\ DifferentRunnersKept
---------------------------------------------------------------------------
(* What steps do to processes *)

SameProcess(p, q) ==
  p.pid = q.pid /\ p.managed = q.managed /\ p.same = q.same /\ p.as = q.as

\* No step but a start brings a process: what was there is there, in another
\* state, or gone.
Kept == \A q \in procs' : \E p \in procs : SameProcess(p, q)

\* Asking processes to stop changes nothing else of them.
LEMMA TerminateKeeps ==
  ASSUME TypeOK, NEW pids, Terminate(pids)
  PROVE  /\ Kept
         /\ procs' \subseteq Process
         /\ \A p, q \in procs' : p.pid = q.pid => p = q
         /\ \A p \in procs : \E q \in procs' : SameProcess(p, q)
         /\ \A q \in procs' : q.pid \notin pids => q \in procs
<1> DEFINE stopped(p) == IF p.pid \in pids THEN [p EXCEPT !.state = "stopping"] ELSE p
<1>1. procs' = {stopped(p) : p \in procs}
  BY DEF Terminate
<1>2. \A p \in procs : /\ stopped(p) \in Process
                       /\ SameProcess(p, stopped(p))
                       /\ p.pid \notin pids => stopped(p) = p
  BY DEF TypeOK, Process, SameProcess
<1> HIDE DEF stopped
<1>3. \A p, q \in procs : stopped(p).pid = stopped(q).pid => p = q
  BY <1>2 DEF SameProcess, TypeOK
<1> QED
  BY <1>1, <1>2, <1>3 DEF Kept, SameProcess

\* A process that ends is gone, and the manager knows it.
LEMMA LeavesKeeps ==
  ASSUME TypeOK, NEW p \in procs, Leaves(p)
  PROVE  /\ Kept
         /\ procs' \subseteq procs
         /\ main' = 0 \/ \E q \in procs' : q.pid = main' /\ q.managed
<1>1. procs' = procs \ {p}
  BY DEF Leaves
<1>2. main' = 0 \/ \E q \in procs' : q.pid = main' /\ q.managed
  <2>1. CASE main # 0 /\ main # p.pid
    BY <1>1, <2>1 DEF Leaves, TypeOK
  <2>2. CASE main = 0 \/ main = p.pid
    BY <2>2 DEF Leaves
  <2> QED
    BY <2>1, <2>2
<1> QED
  BY <1>1, <1>2 DEF Kept, SameProcess

\* Connecting changes the state of one process that is not stopping.
LEMMA ConnectKeeps ==
  ASSUME TypeOK, Connect
  PROVE  /\ Kept
         /\ procs' \subseteq Process
         /\ \A p, q \in procs' : p.pid = q.pid => p = q
         /\ \A p \in procs : \E q \in procs' : SameProcess(p, q)
         /\ \A q \in procs' : q.state = "stopping" => q \in procs
<1>1. PICK p \in procs : procs' = (procs \ {p}) \cup {[p EXCEPT !.state = "connected"]}
  BY DEF Connect
<1> DEFINE q == [p EXCEPT !.state = "connected"]
<1>2. q \in Process /\ SameProcess(p, q) /\ q.state = "connected"
  BY DEF TypeOK, Process, SameProcess
<1>3. procs' = (procs \ {p}) \cup {q}
  BY <1>1
<1> HIDE DEF q
<1> QED
  BY <1>2, <1>3 DEF Kept, SameProcess, TypeOK

\* A start adds one process, under a new number, as the file says it is.
LEMMA SpawnKeeps ==
  ASSUME TypeOK, Pids, NEW managed \in BOOLEAN, NEW same \in BOOLEAN, Spawn(managed, same)
  PROVE  /\ procs' \subseteq Process /\ procs \subseteq procs' /\ lastPid' \in 0..MaxPids
         /\ lastPid' = lastPid + 1
         /\ \A p, q \in procs' : p.pid = q.pid => p = q
         /\ \E p \in procs' : p.pid = lastPid' /\ p.managed = managed
         /\ \A p \in procs' \ procs :
              /\ p.pid = lastPid' /\ p.same = same /\ p.state = "up"
              /\ same => p.as = file
<1> DEFINE p == [pid |-> lastPid + 1, managed |-> managed, same |-> same,
                 as |-> IF same THEN file ELSE NoFile, state |-> "up"]
<1>1. NoFile \in Identity /\ file \in Identity
  BY HostAssumption DEF NoFile, Identity, TypeOK
<1>2. lastPid + 1 \in 1..MaxPids /\ lastPid' = lastPid + 1
  BY HostAssumption DEF Spawn, TypeOK
<1>3. p \in Process
  BY <1>1, <1>2 DEF Process
<1>4. procs' = procs \cup {p}
  BY DEF Spawn
<1>5. \A q \in procs : q.pid # p.pid
  BY <1>2 DEF Pids, TypeOK, Process
<1>6. p.pid = lastPid' /\ p.managed = managed /\ p.same = same /\ p.state = "up"
      /\ (same => p.as = file)
  BY <1>2
<1> HIDE DEF p
<1> QED
  BY <1>2, <1>3, <1>4, <1>5, <1>6 DEF TypeOK

---------------------------------------------------------------------------
(* Types *)

\* The types of the file and of what the server knows.
LEMMA TypeRecords ==
  ASSUME TypeOK, Enroll \/ Write \/ Revoke
  PROVE  TypeOK'
<1>1. UNCHANGED <<platform, procs, lastPid, log, unit, loaded, wanted, main, inst>>
  BY DEF Enroll, Write, Revoke, managerVars, processVars
<1>2. /\ file' \in Identity /\ pending' \in Identity \X BOOLEAN
      /\ issued' \in 0..MaxIds /\ revoked' \subseteq 1..issued'
  <2>1. NoFile \in Identity
    BY HostAssumption DEF NoFile, Identity
  <2>2. CASE Enroll
    <3>1. issued + 1 \in 0..MaxIds /\ issued \in Nat
      BY <2>2, HostAssumption DEF Enroll, TypeOK
    <3>2. \A x \in Servers : [server |-> x, id |-> issued + 1] \in Identity
      BY <3>1 DEF Identity
    <3> QED
      BY <2>2, <3>1, <3>2 DEF Enroll, TypeOK
  <2>3. CASE Write
    BY <2>1, <2>3 DEF Write, TypeOK, NoPending
  <2>4. CASE Revoke
    BY <2>4 DEF Revoke, TypeOK
  <2> QED
    BY <2>2, <2>3, <2>4
<1> QED
  BY <1>1, <1>2 DEF TypeOK

\* The types after a step of a process.
LEMMA TypeProcesses ==
  ASSUME TypeOK, Pids, StartByHand \/ StartManaged \/ Connect \/ ConnectFails \/ Fail \/ Exit
  PROVE  TypeOK'
<1>1. UNCHANGED <<platform, file, pending, issued, revoked, inst, unit, loaded>>
  BY DEF StartByHand, StartManaged, Connect, ConnectFails, Fail, Exit, serverVars, managerVars
<1>2. log' \subseteq Entry
  <2>1. ASSUME NEW p \in procs, NEW what \in {"connected", "failure"}, Logged(p, what)
        PROVE  log' \subseteq Entry
    BY <2>1 DEF Logged, Entry, TypeOK, Process
  <2>2. CASE log' = log
    BY <2>2 DEF TypeOK
  <2> QED
    BY <2>1, <2>2 DEF StartByHand, StartManaged, Connect, ConnectFails, Fail, Exit
<1>3. CASE StartByHand
  <2>1. PICK same \in BOOLEAN : Spawn(FALSE, same)
    BY <1>3 DEF StartByHand
  <2>2. UNCHANGED <<main, wanted>>
    BY <1>3 DEF StartByHand, managerVars
  <2> QED
    BY <1>1, <1>2, <2>1, <2>2, SpawnKeeps DEF TypeOK
<1>4. CASE StartManaged
  <2>1. Spawn(TRUE, unit = "same") /\ main' = lastPid' /\ wanted' = wanted
    BY <1>4 DEF StartManaged
  <2>2. (unit = "same") \in BOOLEAN
    OBVIOUS
  <2> QED
    BY <1>1, <1>2, <2>1, <2>2, SpawnKeeps DEF TypeOK
<1>5. CASE Connect
  <2>1. UNCHANGED <<main, wanted, lastPid>>
    BY <1>5 DEF Connect, managerVars
  <2> QED
    BY <1>1, <1>2, <1>5, <2>1, ConnectKeeps DEF TypeOK, SameProcess
<1>6. CASE ConnectFails
  BY <1>1, <1>2, <1>6 DEF ConnectFails, managerVars, TypeOK
<1>7. ASSUME NEW p \in procs, Leaves(p), wanted' \in BOOLEAN, UNCHANGED lastPid
      PROVE  TypeOK'
  BY <1>1, <1>2, <1>7, LeavesKeeps DEF TypeOK
<1>8. CASE Fail
  BY <1>7, <1>8 DEF Fail, TypeOK
<1>9. CASE Exit
  BY <1>7, <1>9 DEF Exit, TypeOK
<1> QED
  BY <1>3, <1>4, <1>5, <1>6, <1>8, <1>9

\* An installer that is not there has nothing.
LEMMA NoInstallerType ==
  NoInstaller \in [stage : Stages, targets : SUBSET (1..MaxPids), pid : 0..MaxPids, as : Identity,
                   asked : BOOLEAN, before : BOOLEAN]
<1>1. NoFile \in Identity /\ 0 \in 0..MaxPids
  BY HostAssumption DEF NoFile, Identity
<1> QED
  BY <1>1 DEF NoInstaller, Stages

\* Steps of the installer that ask no process to stop.
Quiet ==
  \/ Check \/ List \/ AwaitGone \/ OpenLog \/ WriteUnit \/ Bootstrap \/ StartUnit
  \/ AskManager \/ AskCommand \/ AskCount \/ Verify \/ GiveUp

\* The types after a step of the installer that stops nobody.
LEMMA TypeQuiet ==
  ASSUME TypeOK, Quiet
  PROVE  TypeOK'
<1>1. UNCHANGED <<platform, file, pending, issued, revoked, procs, lastPid, main>>
  BY DEF Quiet, Check, List, AwaitGone, OpenLog, WriteUnit, Bootstrap, StartUnit,
         AskManager, AskCommand, AskCount, Verify, GiveUp, serverVars, managerVars, processVars
<1>2. /\ unit' \in {"none", "same", "other"} /\ loaded' \in BOOLEAN /\ wanted' \in BOOLEAN
      /\ log' \subseteq Entry
  BY DEF Quiet, Check, List, AwaitGone, OpenLog, WriteUnit, Bootstrap, StartUnit,
         AskManager, AskCommand, AskCount, Verify, GiveUp, serverVars, managerVars, processVars,
         TypeOK
<1>3. inst' \in [stage : Stages, targets : SUBSET (1..MaxPids), pid : 0..MaxPids, as : Identity,
                asked : BOOLEAN, before : BOOLEAN]
  <2>1. CASE Check
    BY <2>1 DEF Check, TypeOK, Stages
  <2>2. CASE List
    <3>1. {p.pid : p \in {q \in procs : Identical(q)}} \subseteq 1..MaxPids
      BY DEF TypeOK, Process
    <3> QED
      BY <2>2, <3>1 DEF List, TypeOK, Stages
  <2>3. CASE AskManager
    <3>1. main \in 0..MaxPids
      BY <2>3 DEF AskManager, TypeOK, Process
    <3> QED
      BY <2>3, <3>1 DEF AskManager, TypeOK, Stages
  <2>4. CASE Fails \/ AwaitGone \/ Verify \/ GiveUp
    BY <2>4, NoInstallerType
       DEF Fails, NoInstaller, AwaitGone, Verify, GiveUp, To, TypeOK, Stages
  <2>5. CASE OpenLog \/ WriteUnit \/ Bootstrap \/ StartUnit \/ AskCommand \/ AskCount
    BY <2>5 DEF OpenLog, WriteUnit, Bootstrap, StartUnit, AskCommand, AskCount, To, TypeOK, Stages
  <2> QED
    BY <2>1, <2>2, <2>3, <2>4, <2>5 DEF Quiet
<1> QED
  BY <1>1, <1>2, <1>3 DEF TypeOK

\* The types after a step of the installer that stops processes.
LEMMA TypeStopping ==
  ASSUME TypeOK, Bootout \/ Kill \/ Kickstart \/ StopUnit
  PROVE  TypeOK'
<1>1. UNCHANGED <<platform, file, pending, issued, revoked, unit, lastPid, log>>
  BY DEF Bootout, Kill, Kickstart, StopUnit, serverVars, managerVars, processVars
<1>2. inst' \in [stage : Stages, targets : SUBSET (1..MaxPids), pid : 0..MaxPids, as : Identity,
                asked : BOOLEAN, before : BOOLEAN]
  <2>1. CASE Bootout \/ Kickstart \/ StopUnit
    BY <2>1 DEF Bootout, Kickstart, StopUnit, To, TypeOK, Stages
  <2>2. CASE Kill
    <3>1. inst.targets \in SUBSET (1..MaxPids)
      BY DEF TypeOK
    <3>2. \/ \E stage \in Stages : To(stage)
          \/ Fails
          \/ \E pid \in inst.targets : inst' = [inst EXCEPT !.targets = @ \ {pid}]
      BY <2>2 DEF Kill, Stages
    <3> QED
      BY <3>1, <3>2, NoInstallerType DEF To, Fails, NoInstaller, Stages, TypeOK
  <2> QED
    BY <2>1, <2>2
<1>3. loaded' \in BOOLEAN /\ wanted' \in BOOLEAN
  BY DEF Bootout, Kill, Kickstart, StopUnit, managerVars, TypeOK
<1>4. /\ procs' \subseteq Process
      /\ \A p, q \in procs' : p.pid = q.pid => p = q
      /\ main' = 0 \/ \E p \in procs' : p.pid = main' /\ p.managed
  <2> DEFINE Fits == /\ procs' \subseteq Process
                     /\ \A p, q \in procs' : p.pid = q.pid => p = q
                     /\ main' = 0 \/ \E p \in procs' : p.pid = main' /\ p.managed
  <2>1. ASSUME NEW pids, Terminate(pids), main' = 0 \/ main' = main PROVE Fits
    BY <2>1, TerminateKeeps DEF TypeOK, SameProcess
  <2>2. ASSUME procs' \subseteq procs, main' = 0 PROVE Fits
    BY <2>2 DEF TypeOK
  <2>3. ASSUME UNCHANGED <<procs, main>> PROVE Fits
    BY <2>3 DEF TypeOK
  <2>4. \/ \E pids : Terminate(pids) /\ (main' = 0 \/ main' = main)
        \/ procs' \subseteq procs /\ main' = 0
        \/ UNCHANGED <<procs, main>>
    BY DEF Bootout, Kill, Kickstart, StopUnit, managerVars
  <2> HIDE DEF Fits
  <2>5. Fits
    BY <2>1, <2>2, <2>3, <2>4
  <2> QED
    BY <2>5 DEF Fits
<1> QED
  BY <1>1, <1>2, <1>3, <1>4 DEF TypeOK

\* Every step keeps the types.
LEMMA TypeStep ==
  ASSUME TypeOK, Pids, [Next]_vars
  PROVE  TypeOK'
<1>1. CASE UNCHANGED vars
  BY <1>1 DEF vars, serverVars, managerVars, processVars,
         TypeOK
<1> QED
  BY <1>1, TypeRecords, TypeProcesses, TypeQuiet, TypeStopping DEF Next, Install, Quiet

---------------------------------------------------------------------------
(* Processes, logs and the file *)

Started ==
  /\ \E managed, same \in BOOLEAN : Spawn(managed, same)
  /\ UNCHANGED <<log, file, inst>>

\* Every step starts a process, or starts none.
LEMMA ProcessStep ==
  ASSUME TypeOK, Pids, [Next]_vars
  PROVE  Started \/ (Kept /\ UNCHANGED lastPid)
<1>1. CASE UNCHANGED procs /\ UNCHANGED lastPid
  BY <1>1 DEF Kept, SameProcess
<1>2. CASE StartByHand
  BY <1>2 DEF StartByHand, Started
<1>3. CASE StartManaged
  <2>1. (unit = "same") \in BOOLEAN /\ TRUE \in BOOLEAN
    OBVIOUS
  <2> QED
    BY <1>3, <2>1 DEF StartManaged, Started
<1>4. CASE Connect
  BY <1>4, ConnectKeeps DEF Connect
<1>5. CASE Fail \/ Exit
  BY <1>5, LeavesKeeps DEF Fail, Exit
<1>6. CASE Bootout \/ Kill \/ Kickstart \/ StopUnit
  <2>1. UNCHANGED lastPid
    BY <1>6 DEF Bootout, Kill, Kickstart, StopUnit
  <2>2. \/ \E pids : Terminate(pids)
        \/ procs' \subseteq procs
    BY <1>6 DEF Bootout, Kill, Kickstart, StopUnit
  <2>3. ASSUME NEW pids, Terminate(pids) PROVE Kept
    BY <2>3, TerminateKeeps
  <2>4. ASSUME procs' \subseteq procs PROVE Kept
    BY <2>4 DEF Kept, SameProcess
  <2> QED
    BY <2>1, <2>2, <2>3, <2>4
<1> QED
  BY <1>1, <1>2, <1>3, <1>4, <1>5, <1>6
     DEF Next, Install, vars, Enroll, Write, Revoke, ConnectFails, Check, List, AwaitGone, OpenLog,
         WriteUnit, Bootstrap, StartUnit, AskManager, AskCommand, AskCount, Verify, GiveUp,
         processVars

Says(e, p) == e.pid = p.pid /\ e.same = p.same /\ e.as = p.as

\* What a step logs, a process that is there logs about itself.
LEMMA LogStep ==
  ASSUME [Next]_vars
  PROVE  /\ \A e \in log' : e \in log \/ \E p \in procs : Says(e, p)
         /\ log \subseteq log' \/ inst.stage = "logging"
<1>1. ASSUME NEW p \in procs, NEW what, Logged(p, what)
      PROVE  /\ \A e \in log' : e \in log \/ \E q \in procs : Says(e, q)
             /\ log \subseteq log'
  BY <1>1 DEF Logged, Says
<1>2. CASE Connect \/ ConnectFails \/ Fail
  BY <1>1, <1>2 DEF Connect, ConnectFails, Fail
<1>3. CASE OpenLog
  BY <1>3 DEF OpenLog
<1>4. CASE UNCHANGED log
  BY <1>4
<1> QED
  BY <1>2, <1>3, <1>4
     DEF Next, Install, vars, processVars, Enroll, Write, Revoke, StartByHand, StartManaged, Exit,
         Check, Bootout, List, Kill, AwaitGone, WriteUnit, Bootstrap, Kickstart, StopUnit,
         StartUnit, AskManager, AskCommand, AskCount, Verify, GiveUp

\* Numbers of processes stay fresh, and log entries true.
LEMMA PidsStep ==
  ASSUME TypeOK, Pids, [Next]_vars
  PROVE  Pids'
<1>1. CASE Started
  <2>1. PICK managed \in BOOLEAN, same \in BOOLEAN : Spawn(managed, same)
    BY <1>1 DEF Started
  <2>2. log' = log /\ lastPid' = lastPid + 1 /\ lastPid \in Nat
    BY <1>1, <2>1, HostAssumption DEF Started, Spawn, TypeOK
  <2>3. \A p \in procs' \ procs : p.pid = lastPid'
    BY <2>1, SpawnKeeps
  <2>4. (\A p \in procs : p.pid \in Nat) /\ (\A e \in log : e.pid \in Nat)
    BY DEF TypeOK, Process, Entry
  <2> QED
    BY <2>2, <2>3, <2>4 DEF Pids
<1>2. CASE Kept /\ UNCHANGED lastPid
  <2>1. \A e \in log' : /\ e.pid <= lastPid
                        /\ \A p \in procs : e.pid = p.pid => e.same = p.same /\ e.as = p.as
    BY LogStep DEF Pids, Says, TypeOK
  <2> QED
    BY <1>2, <2>1 DEF Pids, Kept, SameProcess
<1> QED
  BY <1>1, <1>2, ProcessStep

\* The file is only ever replaced by a newer identity.
LEMMA FileStep ==
  ASSUME TypeOK, Fresh, [Next]_vars
  PROVE  Fresh' /\ (file' = file \/ (file'.id \in Nat /\ file'.id > file.id))
<1>1. /\ issued \in Nat /\ file.id \in Nat /\ pending[1].id \in Nat /\ NoFile.id = 0
      /\ pending = <<pending[1], pending[2]>>
  BY HostAssumption DEF TypeOK, Identity, NoFile
<1>2. CASE Enroll
  <2>1. PICK x \in Servers, force \in BOOLEAN :
          pending' = <<[server |-> x, id |-> issued + 1], force>>
    BY <1>2 DEF Enroll
  <2>2. pending'[1].id = issued + 1 /\ issued' = issued + 1 /\ file' = file
    BY <1>2, <2>1 DEF Enroll
  <2> QED
    BY <1>1, <2>2 DEF Fresh
<1>3. CASE Write
  BY <1>1, <1>3 DEF Write, Fresh, NoPending
<1>4. CASE UNCHANGED <<file, pending, issued>>
  BY <1>4 DEF Fresh
<1> QED
  BY <1>2, <1>3, <1>4
     DEF Next, Install, vars, serverVars, Revoke, StartByHand, StartManaged, Connect, ConnectFails,
         Fail, Exit, Check, Bootout, List, Kill, AwaitGone, OpenLog, WriteUnit, Bootstrap,
         Kickstart, StopUnit, StartUnit, AskManager, AskCommand, AskCount, Verify, GiveUp

---------------------------------------------------------------------------
(* The installation *)

\* How the installer goes on, but for its check.
LEMMA InstallStep ==
  ASSUME TypeOK, [Next]_vars, ~ Check
  PROVE  /\ \/ inst'.as = inst.as /\ inst'.asked = inst.asked
            \/ inst'.as = NoFile /\ ~ inst'.asked /\ inst'.stage \in {"busy", "failed"}
         /\ inst'.stage \in Cleared => inst.stage \in Cleared \/ AwaitGone
         /\ inst'.stage \in Opened => inst.stage \in Opened \/ OpenLog
         /\ inst'.stage \in Found => (inst.stage \in Found /\ inst'.pid = inst.pid) \/ AskManager
         /\ inst'.stage \in Identified =>
              (inst.stage \in Identified /\ inst'.pid = inst.pid) \/ AskCommand
         /\ inst'.stage = "done" =>
              (inst.stage = "done" /\ inst'.pid = inst.pid) \/ Verify
         /\ inst'.targets \subseteq inst.targets \/ List
<1> USE DEF Cleared, Opened, Found, Identified
<1>1. CASE inst' = inst
  BY <1>1
<1>2. CASE List
  BY <1>2 DEF List, TypeOK
<1>3. CASE Fails
  BY <1>3 DEF Fails, NoInstaller
<1>4. CASE AwaitGone
  <2>1. CASE inst' = [NoInstaller EXCEPT !.stage = "busy", !.before = inst.before]
    BY <2>1 DEF NoInstaller
  <2>2. CASE To("logging")
    BY <1>4, <2>2 DEF AwaitGone, To, TypeOK
  <2> QED
    BY <1>4, <2>1, <2>2 DEF AwaitGone
<1>5. CASE AskManager
  BY <1>5 DEF AskManager, TypeOK
<1>6. CASE Kill
  <2>1. /\ inst.stage = "killing"
        /\ \/ To("waiting") \/ Fails
           \/ \E pid \in inst.targets : inst' = [inst EXCEPT !.targets = @ \ {pid}]
    BY <1>6 DEF Kill
  <2> QED
    BY <1>3, <2>1 DEF To, TypeOK
<1>7. CASE AskCommand \/ AskCount
  BY <1>7 DEF AskCommand, AskCount, To, TypeOK
<1>8. CASE Verify \/ GiveUp
  BY <1>3, <1>8 DEF Verify, GiveUp, To, TypeOK
<1>9. CASE Bootout \/ OpenLog \/ WriteUnit \/ Bootstrap \/ Kickstart \/ StopUnit \/ StartUnit
  BY <1>9 DEF Bootout, OpenLog, WriteUnit, Bootstrap, Kickstart, StopUnit, StartUnit, To, TypeOK
<1> QED
  BY <1>1, <1>2, <1>3, <1>4, <1>5, <1>6, <1>7, <1>8, <1>9
     DEF Next, Install, vars, Enroll, Write, Revoke, StartByHand, StartManaged, Connect,
         ConnectFails, Fail, Exit

\* What was checked was right, and the file does not become older.
LEMMA CheckedStep ==
  ASSUME TypeOK, Fresh, Checked, [Next]_vars
  PROVE  Checked'
<1>1. file.id \in Nat /\ file'.id \in Nat /\ inst.as.id \in Nat
  BY FileStep, HostAssumption DEF TypeOK, Identity
<1>2. CASE Check
  <2>1. PICK asked \in BOOLEAN :
          /\ asked => SameServer
          /\ inst' = [inst EXCEPT !.stage = "checked", !.as = file, !.asked = asked,
                                 !.before = loaded]
    BY <1>2 DEF Check
  <2>2. inst'.as = file /\ inst'.asked = asked /\ file' = file
    BY <1>2, <2>1 DEF Check, TypeOK
  <2> QED
    BY <1>1, <2>1, <2>2 DEF SameServer, Checked
<1>3. CASE ~ Check
  <2>1. NoFile.id = 0
    BY DEF NoFile
  <2> QED
    BY <1>1, <1>3, <2>1, InstallStep, FileStep DEF Checked
<1> QED
  BY <1>2, <1>3

\* Who was current stays so, since a file that is replaced never comes back.
LEMMA CurrentStays ==
  ASSUME TypeOK, Fresh, Checked, [Next]_vars, inst'.as = inst.as, NEW who, Current(who)
  PROVE  Current(who)'
<1>1. file.id \in Nat /\ inst.as.id \in Nat /\ inst.as.id <= file.id
  BY HostAssumption DEF TypeOK, Identity, Checked
<1>2. file' = file \/ (file'.id \in Nat /\ file'.id > file.id)
  BY FileStep
<1>3. file' = inst.as => file' = file
  BY <1>1, <1>2
<1> QED
  BY <1>3 DEF Current

\* After the identical processes are gone, only current ones start.
LEMMA NewOnesStep ==
  ASSUME TypeOK, Pids, Fresh, Checked, NewOnes, [Next]_vars
  PROVE  NewOnes'
<1> SUFFICES ASSUME inst'.stage \in Cleared, NEW q \in procs', q.same
             PROVE  Current(q.as)'
  BY DEF NewOnes
<1>1. ~ Check
  BY DEF Check, Cleared, Opened, Found, TypeOK
<1>2. inst'.as = inst.as
  BY <1>1, InstallStep DEF Cleared, Opened, Found
<1>3. CASE AwaitGone
  <2>1. procs' = procs /\ ~ \E p \in procs : Identical(p)
    BY <1>3 DEF AwaitGone, NoInstaller, processVars, Cleared, Opened, Found, TypeOK
  <2> QED
    BY <2>1 DEF Identical
<1>4. CASE inst.stage \in Cleared
  <2>1. ASSUME NEW p \in procs, SameProcess(p, q) PROVE Current(q.as)'
    BY <1>2, <1>4, <2>1, CurrentStays DEF NewOnes, SameProcess
  <2>2. CASE Started /\ q \notin procs
    <3>1. PICK managed \in BOOLEAN, same \in BOOLEAN : Spawn(managed, same)
      BY <2>2 DEF Started
    <3>2. q.as = file /\ file' = file
      BY <2>2, <3>1, SpawnKeeps DEF Started
    <3> QED
      BY <3>2 DEF Current
  <2> QED
    BY <2>1, <2>2, ProcessStep DEF Kept, SameProcess
<1> QED
  BY <1>1, <1>3, <1>4, InstallStep

\* After the log was opened, only current ones write of the installed command.
LEMMA NewEntriesStep ==
  ASSUME TypeOK, Pids, Fresh, Checked, NewOnes, NewEntries, [Next]_vars
  PROVE  NewEntries'
<1> SUFFICES ASSUME inst'.stage \in Opened, NEW e \in log', e.same
             PROVE  Current(e.as)'
  BY DEF NewEntries
<1>1. ~ Check
  BY DEF Check, Opened, Found, TypeOK
<1>2. inst'.as = inst.as
  BY <1>1, InstallStep DEF Opened, Found
<1>3. ~ OpenLog
  BY DEF OpenLog
<1>4. inst.stage \in Opened
  BY <1>1, <1>3, InstallStep
<1>5. CASE e \in log
  BY <1>2, <1>4, <1>5, CurrentStays DEF NewEntries
<1>6. ASSUME NEW p \in procs, Says(e, p) PROVE Current(e.as)'
  BY <1>2, <1>4, <1>6, CurrentStays DEF NewOnes, Cleared, Says
<1> QED
  BY <1>5, <1>6, LogStep

\* The number that was found is that of a process of the installed command, and
\* stays so when the process is gone.
LEMMA AwaitedStep ==
  ASSUME TypeOK, Pids, Awaited, [Next]_vars
  PROVE  Awaited'
<1>1. inst'.stage \in Found => ~ Check
  BY DEF Check, Found, TypeOK
<1>2. lastPid \in Nat /\ inst.pid \in Nat /\ lastPid' \in Nat /\ lastPid' >= lastPid
  <2>1. CASE Started
    BY <2>1, SpawnKeeps, HostAssumption DEF Started, TypeOK
  <2> QED
    BY <2>1, ProcessStep, HostAssumption DEF TypeOK
<1>3. ASSUME inst'.stage \in Found PROVE inst'.pid <= lastPid'
  <2>1. CASE AskManager
    <3>1. inst'.pid = main /\ lastPid' = lastPid /\ \E p \in procs : p.pid = main
      BY <2>1 DEF AskManager, processVars, TypeOK
    <3> QED
      BY <3>1 DEF Pids
  <2>2. CASE inst.stage \in Found /\ inst'.pid = inst.pid
    BY <1>2, <2>2 DEF Awaited
  <2> QED
    BY <1>1, <1>3, <2>1, <2>2, InstallStep
<1>4. ASSUME inst'.stage \in Identified
      PROVE  /\ \A p \in procs' : p.pid = inst'.pid => p.same
             /\ \A e \in log' : e.pid = inst'.pid => e.same
  <2>1. CASE AskCommand
    <3>1. UNCHANGED <<procs, log>> /\ inst'.pid = inst.pid
      BY <2>1 DEF AskCommand, To, processVars, TypeOK
    <3>2. PICK p \in procs : p.pid = inst.pid /\ p.same
      <4>1. inst'.stage # "started"
        BY <1>4 DEF Identified, Found
      <4> QED
        BY <2>1, <4>1 DEF AskCommand, To, Identical, TypeOK
    <3> QED
      BY <3>1, <3>2 DEF Pids, TypeOK
  <2>2. CASE inst.stage \in Identified /\ inst'.pid = inst.pid
    <3>1. /\ inst.pid <= lastPid
          /\ \A p \in procs : p.pid = inst.pid => p.same
          /\ \A e \in log : e.pid = inst.pid => e.same
      BY <2>2 DEF Awaited, Identified
    <3>2. \A e \in log' : e.pid = inst.pid => e.same
      BY <3>1, LogStep DEF Says
    <3>3. CASE Kept /\ UNCHANGED lastPid
      BY <2>2, <3>1, <3>2, <3>3 DEF Kept, SameProcess
    <3>4. CASE Started
      <4>1. PICK managed \in BOOLEAN, same \in BOOLEAN : Spawn(managed, same)
        BY <3>4 DEF Started
      <4>2. lastPid' = lastPid + 1 /\ \A p \in procs' \ procs : p.pid = lastPid'
        BY <4>1, SpawnKeeps
      <4> QED
        BY <1>2, <2>2, <3>1, <3>2, <4>2
    <3> QED
      BY <3>3, <3>4, ProcessStep
  <2> QED
    BY <1>1, <1>4, <2>1, <2>2, InstallStep DEF Identified
<1> QED
  BY <1>3, <1>4 DEF Awaited

\* Only identical processes are among those to stop.
LEMMA TargetsStep ==
  ASSUME TypeOK, Pids, Targets, [Next]_vars
  PROVE  Targets'
<1>1. CASE List
  <2>1. /\ inst'.targets = {p.pid : p \in {q \in procs : Identical(q)}}
        /\ UNCHANGED <<procs, lastPid>>
    BY <1>1 DEF List, processVars, TypeOK
  <2> QED
    BY <2>1 DEF Targets, Identical, Pids, TypeOK
<1>2. CASE inst'.targets \subseteq inst.targets
  <2>1. CASE Kept /\ UNCHANGED lastPid
    BY <1>2, <2>1 DEF Targets, Kept, SameProcess
  <2>2. CASE Started
    <3>1. PICK managed \in BOOLEAN, same \in BOOLEAN : Spawn(managed, same)
      BY <2>2 DEF Started
    <3>2. /\ lastPid' = lastPid + 1 /\ lastPid \in Nat /\ inst.targets \subseteq Nat
          /\ \A p \in procs' \ procs : p.pid = lastPid'
      BY <3>1, SpawnKeeps, HostAssumption DEF TypeOK
    <3> QED
      BY <1>2, <3>2 DEF Targets
  <2> QED
    BY <2>1, <2>2, ProcessStep
<1>3. CASE Check
  BY <1>2, <1>3 DEF Check, TypeOK
<1> QED
  BY <1>1, <1>2, <1>3, InstallStep

\* Success stands for an entry of the log.
LEMMA SeenStep ==
  ASSUME TypeOK, Seen, [Next]_vars
  PROVE  Seen'
<1> SUFFICES ASSUME inst'.stage = "done"
             PROVE  \E e \in log' : e.what = "connected" /\ Begins(inst'.pid, e.pid)
  BY DEF Seen
<1>1. ~ Check
  BY DEF Check, TypeOK
<1>2. CASE Verify
  BY <1>2 DEF Verify, Verified, Fails, NoInstaller, To, processVars, TypeOK
<1>3. CASE inst.stage = "done" /\ inst'.pid = inst.pid
  <2>1. log \subseteq log'
    BY <1>3, LogStep
  <2> QED
    BY <1>3, <2>1 DEF Seen
<1> QED
  BY <1>1, <1>2, <1>3, InstallStep

\* No step stops a runner of another kind.
LEMMA DifferentStep ==
  ASSUME TypeOK, Pids, Targets, DifferentRunnersKept, [Next]_vars
  PROVE  DifferentRunnersKept'
<1>1. ASSUME NEW pids, Terminate(pids),
             \A p \in procs : p.pid \in pids => p.managed \/ p.same
      PROVE  DifferentRunnersKept'
  BY <1>1, TerminateKeeps DEF DifferentRunnersKept, Kept, SameProcess
<1>2. CASE procs' \subseteq procs
  BY <1>2 DEF DifferentRunnersKept
<1>3. CASE Connect
  BY <1>3, ConnectKeeps DEF DifferentRunnersKept
<1>4. CASE Started
  <2>1. PICK managed \in BOOLEAN, same \in BOOLEAN : Spawn(managed, same)
    BY <1>4 DEF Started
  <2> QED
    BY <2>1, SpawnKeeps DEF DifferentRunnersKept
<1>5. \A p \in procs : p.pid \in {main} => p.managed \/ p.same
  BY DEF TypeOK, Process
<1>6. CASE Bootout \/ StopUnit
  BY <1>1, <1>2, <1>5, <1>6 DEF Bootout, StopUnit
<1>7. CASE Kill
  <2>1. procs' \subseteq procs \/ \E pid \in inst.targets : Terminate({pid})
    BY <1>7 DEF Kill
  <2> QED
    BY <1>1, <1>2, <2>1 DEF Targets
<1>8. CASE Kickstart
  BY <1>2, <1>8 DEF Kickstart
<1>9. ASSUME NEW p \in procs, Leaves(p) PROVE DifferentRunnersKept'
  BY <1>2, <1>9, LeavesKeeps
<1>10. CASE Fail \/ Exit
  BY <1>9, <1>10 DEF Fail, Exit
<1>11. CASE StartByHand \/ StartManaged
  <2>1. Started
    <3>1. (unit = "same") \in BOOLEAN /\ TRUE \in BOOLEAN
      OBVIOUS
    <3> QED
      BY <1>11, <3>1 DEF StartByHand, StartManaged, Started
  <2> QED
    BY <1>4, <2>1
<1> QED
  BY <1>2, <1>3, <1>6, <1>7, <1>8, <1>10, <1>11
     DEF Next, Install, vars, Enroll, Write, Revoke, ConnectFails, Check, List, AwaitGone, OpenLog,
         WriteUnit, Bootstrap, StartUnit, AskManager, AskCommand, AskCount, Verify, GiveUp,
         processVars

---------------------------------------------------------------------------
(* Theorems *)

\* What the installer relies on is true whatever people, the service manager and
\* the server do meanwhile.
THEOREM Invariance == Spec => []IInv
<1>1. Init => IInv
  <2> SUFFICES ASSUME Init PROVE IInv
    OBVIOUS
  <2>1. NoFile \in Identity /\ NoFile.id = 0 /\ 1 \in 0..MaxIds
    BY HostAssumption DEF NoFile, Identity
  <2>2. [server : Servers, id : {1}] \subseteq Identity
    BY <2>1 DEF Identity
  <2>3. inst = NoInstaller
    BY DEF Init
  <2>4. TypeOK
    <3>1. inst \in [stage : Stages, targets : SUBSET (1..MaxPids), pid : 0..MaxPids, as : Identity,
                    asked : BOOLEAN, before : BOOLEAN]
      BY <2>3, NoInstallerType
    <3>2. /\ file \in Identity /\ pending \in Identity \X BOOLEAN
          /\ issued \in 0..MaxIds /\ revoked \subseteq 1..issued /\ lastPid \in 0..MaxPids
      <4>1. /\ file \in {NoFile} \cup [server : Servers, id : {1}]
            /\ pending = <<NoFile, FALSE>> /\ issued = 1 /\ revoked = {} /\ lastPid = 0
        BY DEF Init, NoPending
      <4>2. file \in Identity
        BY <2>1, <2>2, <4>1
      <4>3. pending \in Identity \X BOOLEAN
        BY <2>1, <4>1
      <4>4. issued \in 0..MaxIds /\ revoked \subseteq 1..issued /\ lastPid \in 0..MaxPids
        BY <2>1, <4>1, HostAssumption
      <4> QED
        BY <4>2, <4>3, <4>4
    <3>3. loaded \in BOOLEAN /\ wanted \in BOOLEAN
      BY DEF Init
    <3>4. /\ platform \in {"darwin", "linux"} /\ unit \in {"none", "same", "other"}
          /\ procs = {} /\ log = {} /\ main = 0
      BY DEF Init
    <3> QED
      BY <3>1, <3>2, <3>3, <3>4 DEF TypeOK
  <2>5. Fresh
    BY <2>1 DEF Init, Fresh
  <2>6. inst.as.id = 0 /\ ~ inst.asked /\ inst.stage = "idle" /\ inst.targets = {}
    BY <2>1, <2>3 DEF NoInstaller
  <2>7. Checked
    BY <2>1, <2>6 DEF Init, Checked
  <2> QED
    BY <2>4, <2>5, <2>6, <2>7
       DEF Init, IInv, Pids, NewOnes, NewEntries, Awaited, Targets, Seen, Cleared, Opened,
           Identified, Found, DifferentRunnersKept
<1>2. IInv /\ [Next]_vars => IInv'
  BY TypeStep, PidsStep, FileStep, CheckedStep, NewOnesStep, NewEntriesStep, AwaitedStep,
     TargetsStep, SeenStep,
     DifferentStep DEF IInv
<1> QED
  BY <1>1, <1>2, PTL DEF Spec

\* The types are right for any number of servers, identities and processes.
THEOREM TypeCorrect == Spec => []TypeOK
<1>1. IInv => TypeOK
  BY DEF IInv
<1> QED
  BY <1>1, Invariance, PTL

\* A success of "rbe install" stands for a connection under the number of the
\* service's process or one that begins with it; if it is that process it runs
\* the installed command, and what runs the installed command is who was checked,
\* however often the configuration, the service and the runners change meanwhile.
THEOREM InstallationsAreRight == Spec => []InstalledRight
<1>1. IInv => InstalledRight
  <2> SUFFICES ASSUME IInv, inst.stage = "done"
               PROVE  \E e \in log :
                        /\ e.what = "connected" /\ Begins(inst.pid, e.pid)
                        /\ e.pid = inst.pid => e.same
                        /\ e.same /\ file = inst.as => e.as = inst.as
                        /\ e.same /\ file = inst.as /\ inst.asked => e.as.server = Expected
    BY DEF InstalledRight
  <2>1. PICK e \in log : e.what = "connected" /\ Begins(inst.pid, e.pid)
    BY DEF IInv, Seen
  <2>2. e.pid = inst.pid => e.same
    BY DEF IInv, Awaited, Identified, Found
  <2>3. e.same => Current(e.as)
    BY DEF IInv, NewEntries, Opened, Found
  <2>4. inst.asked => inst.as.server = Expected
    BY DEF IInv, Checked
  <2> QED
    BY <2>1, <2>2, <2>3, <2>4 DEF Current
<1> QED
  BY <1>1, Invariance, PTL

\* No installation ever asks another runner to stop.
THEOREM OthersAreKept == Spec => []DifferentRunnersKept
<1>1. IInv => DifferentRunnersKept
  BY DEF IInv
<1> QED
  BY <1>1, Invariance, PTL
=============================================================================
