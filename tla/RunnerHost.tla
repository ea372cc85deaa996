----------------------------- MODULE RunnerHost -----------------------------
(***************************************************************************)
(* The machine of a runner (runner-go/cmd, internal/config and             *)
(* internal/service): "rbe enroll" exchanges a token for an identity and   *)
(* writes the configuration, "rbe install" checks it and replaces the      *)
(* launchd or systemd service that runs "rbe start", beside runners that   *)
(* people start by hand.                                                   *)
(*                                                                         *)
(* launchd, systemd and the server are external, modelled from the         *)
(* commands the code gives them: RunAtLoad and KeepAlive or                *)
(* Restart=on-failure start the command of the loaded unit unless it ended *)
(* successfully.  Processes are numbered in the order in which they start; *)
(* the operating system's own numbers matter where the installer looks for *)
(* one in a line of text.                                                  *)
(***************************************************************************)
EXTENDS Naturals, FiniteSets

CONSTANTS
  Servers,
  Expected,   \* the server "rbe install --server" names
  MaxIds,     \* bound on identities the servers issue
  MaxPids,    \* bound on processes that are started
  Longer      \* pairs of processes: the second's number is the first's, and more digits

ASSUME HostAssumption ==
  /\ Expected \in Servers /\ MaxIds \in Nat \ {0} /\ MaxPids \in Nat
  /\ Longer \subseteq (1..MaxPids) \X (1..MaxPids)

VARIABLES
  platform,  \* "darwin" or "linux"
  file,      \* the configuration: who the runner is, and at which server
  pending,   \* an identity that was issued and is not written yet, and --force
  issued,    \* number of identities issued
  revoked,   \* identities the server no longer accepts
  procs,     \* the runner processes of the machine
  lastPid,
  unit,      \* the command of the service definition: "none", "same", "other"
  loaded,    \* the service manager knows it
  wanted,    \* the manager keeps it running
  main,      \* the process of the service, or 0
  log,       \* what the service has logged since the installer opened the log
  inst       \* the installation

serverVars == <<pending, issued, revoked>>
managerVars == <<unit, loaded, wanted, main>>
processVars == <<procs, lastPid, log>>
vars == <<platform, file, serverVars, managerVars, processVars, inst>>

\* Identities are numbered; 0 is that of a runner with another configuration.
Identity == [server : Servers, id : 0..MaxIds]
NoFile == [server |-> Expected, id |-> 0]
NoPending == <<NoFile, FALSE>>
Ids == 1..MaxIds

\* "managed": a manager started it, and it logs to the files of the service.
\* "same": its command is the one the installer is about to install.
Process == [pid : 1..MaxPids, managed : BOOLEAN, same : BOOLEAN, as : Identity,
            state : {"up", "connected", "stopping"}]

Entry == [what : {"connected", "failure"}, pid : 1..MaxPids, same : BOOLEAN, as : Identity]

Stages == {"idle", "checked", "listing", "killing", "waiting", "logging", "writing", "starting",
           "restarting", "started", "found", "identified", "verifying", "done", "busy", "failed"}
Installing == inst.stage \notin {"idle", "done", "busy", "failed"}

NoInstaller == [stage |-> "idle", targets |-> {}, pid |-> 0, as |-> NoFile, asked |-> FALSE,
                before |-> FALSE]

TypeOK ==
  /\ platform \in {"darwin", "linux"}
  /\ file \in Identity /\ pending \in Identity \X BOOLEAN
  /\ issued \in 0..MaxIds /\ revoked \subseteq 1..issued
  /\ procs \subseteq Process /\ lastPid \in 0..MaxPids
  /\ \A p, q \in procs : p.pid = q.pid => p = q
  /\ unit \in {"none", "same", "other"} /\ loaded \in BOOLEAN /\ wanted \in BOOLEAN
  /\ main = 0 \/ \E p \in procs : p.pid = main /\ p.managed
  /\ log \subseteq Entry
  /\ inst \in [stage : Stages, targets : SUBSET (1..MaxPids), pid : 0..MaxPids, as : Identity,
               asked : BOOLEAN, before : BOOLEAN]

\* A machine that was enrolled once or never, with or without a service of an
\* earlier installation.
Init ==
  /\ platform \in {"darwin", "linux"}
  /\ issued = 1 /\ revoked = {} /\ pending = NoPending
  /\ file \in {NoFile} \cup [server : Servers, id : {1}]
  /\ unit \in {"none", "same", "other"}
  /\ loaded = (unit # "none") /\ wanted = loaded /\ main = 0
  /\ procs = {} /\ lastPid = 0 /\ log = {}
  /\ inst = NoInstaller

---------------------------------------------------------------------------
(* rbe enroll *)

\* The server takes the token, and creates an identity for it.
Enroll ==
  /\ pending = NoPending /\ issued < MaxIds
  /\ issued' = issued + 1
  /\ \E s \in Servers, force \in BOOLEAN :
       pending' = <<[server |-> s, id |-> issued + 1], force>>
  /\ UNCHANGED <<platform, file, revoked, managerVars, processVars, inst>>

\* The file is replaced as a whole, or not at all: the answer may be lost, and
\* an existing file needs --force.  The identity is then nobody's.
Write ==
  /\ pending # NoPending
  /\ \/ (file = NoFile \/ pending[2]) /\ file' = pending[1]
     \/ UNCHANGED file
  /\ pending' = NoPending
  /\ UNCHANGED <<platform, issued, revoked, managerVars, processVars, inst>>

Revoke ==
  /\ \E id \in 1..issued : id \notin revoked /\ revoked' = revoked \cup {id}
  /\ UNCHANGED <<platform, file, pending, issued, managerVars, processVars, inst>>

---------------------------------------------------------------------------
(* rbe start *)

\* A process reads the configuration once, when it starts.
Spawn(managed, same) ==
  /\ lastPid < MaxPids
  /\ lastPid' = lastPid + 1
  /\ same => file # NoFile
  /\ procs' = procs \cup {[pid |-> lastPid + 1, managed |-> managed, same |-> same,
                           as |-> IF same THEN file ELSE NoFile, state |-> "up"]}

StartByHand ==
  /\ \E same \in BOOLEAN : Spawn(FALSE, same)
  /\ UNCHANGED <<platform, file, serverVars, managerVars, log, inst>>

\* (external) The manager starts what it wants to run.
StartManaged ==
  /\ loaded /\ wanted /\ main = 0
  /\ Spawn(TRUE, unit = "same")
  /\ main' = lastPid'
  /\ UNCHANGED <<platform, file, serverVars, unit, loaded, wanted, log, inst>>

Logged(p, what) ==
  log' = IF p.managed
           THEN log \cup {[what |-> what, pid |-> p.pid, same |-> p.same, as |-> p.as]}
           ELSE log

Connect ==
  /\ \E p \in procs :
       /\ p.state = "up" /\ p.as.id \notin revoked
       /\ procs' = (procs \ {p}) \cup {[p EXCEPT !.state = "connected"]}
       /\ Logged(p, "connected")
  /\ UNCHANGED <<platform, file, lastPid, serverVars, managerVars, inst>>

\* A process that cannot reach its server logs it and tries again.
ConnectFails ==
  /\ \E p \in procs : p.state = "up" /\ Logged(p, "failure")
  /\ UNCHANGED <<platform, file, procs, lastPid, serverVars, managerVars, inst>>

\* Mutant: the manager is not told that its process is gone.
Leaves_Unnoticed(p) == procs' = procs \ {p} /\ UNCHANGED main

Leaves(p) ==
  /\ procs' = procs \ {p}
  /\ main' = IF p.pid = main THEN 0 ELSE main

\* A revoked identity ends it with an error, and so does a crash.
Fail ==
  /\ \E p \in procs :
       /\ Leaves(p)
       /\ \/ p.state = "up" /\ p.as.id \in revoked /\ Logged(p, "failure")
          \/ UNCHANGED log
  /\ UNCHANGED <<platform, file, lastPid, serverVars, unit, loaded, wanted, inst>>

\* It may take ten seconds to stop its job; the manager does not start what
\* ended successfully.
Exit ==
  /\ \E p \in procs :
       /\ p.state = "stopping" /\ Leaves(p)
       /\ wanted' = (wanted /\ p.pid # main)
  /\ UNCHANGED <<platform, file, lastPid, log, serverVars, unit, loaded, inst>>

---------------------------------------------------------------------------
(* rbe install *)

To(stage) == inst' = [inst EXCEPT !.stage = stage]

\* The installer ends with an error, and what it knew is gone.
Fails == inst' = [NoInstaller EXCEPT !.stage = "failed"]

Terminate(pids) ==
  procs' = {IF p.pid \in pids THEN [p EXCEPT !.state = "stopping"] ELSE p : p \in procs}

SameServer == file.server = Expected

\* loadConfiguration and its probe; a refusal leaves everything as it is.  An
\* explicit --config may do without --server, and then any server will do.
Check ==
  /\ inst.stage = "idle"
  /\ file # NoFile /\ file.id \notin revoked
  /\ \E asked \in BOOLEAN :
       /\ asked => SameServer
       /\ inst' = [inst EXCEPT !.stage = "checked", !.as = file, !.asked = asked, !.before = loaded]
  /\ UNCHANGED <<platform, file, serverVars, managerVars, processVars>>

\* launchd forgets the loaded job and terminates its process.
Bootout ==
  /\ inst.stage = "checked"
  /\ IF platform = "darwin" /\ loaded
       THEN loaded' = FALSE /\ wanted' = FALSE /\ main' = 0 /\ Terminate({main})
       ELSE UNCHANGED <<loaded, wanted, main, procs>>
  /\ To("listing")
  /\ UNCHANGED <<platform, file, serverVars, unit, lastPid, log>>

\* Mutant: every runner of this binary counts.
Identical_AnyRunner(p) == p \in procs

Identical(p) == p.same

List ==
  /\ inst.stage = "listing"
  /\ inst' = [inst EXCEPT !.stage = "killing",
                          !.targets = {p.pid : p \in {q \in procs : Identical(q)}}]
  /\ UNCHANGED <<platform, file, serverVars, managerVars, processVars>>

\* kill fails, and the installation with it, when the process has just ended.
Kill ==
  /\ inst.stage = "killing"
  /\ IF inst.targets = {} THEN To("waiting") /\ UNCHANGED procs
     ELSE \E pid \in inst.targets :
            IF \E p \in procs : p.pid = pid
            THEN Terminate({pid}) /\ inst' = [inst EXCEPT !.targets = @ \ {pid}]
            ELSE UNCHANGED procs /\ Fails
  /\ UNCHANGED <<platform, file, serverVars, managerVars, lastPid, log>>

\* They have two seconds to go.
AwaitGone ==
  /\ inst.stage = "waiting"
  /\ IF \E p \in procs : Identical(p)
       THEN inst' = [NoInstaller EXCEPT !.stage = "busy", !.before = inst.before]
       ELSE To("logging")
  /\ UNCHANGED <<platform, file, serverVars, managerVars, processVars>>

\* Only what is logged from here on is looked at.
OpenLog ==
  /\ inst.stage = "logging"
  /\ log' = {} /\ To("writing")
  /\ UNCHANGED <<platform, file, serverVars, managerVars, procs, lastPid>>

\* The definition is validated, and replaced as a whole.
WriteUnit ==
  /\ inst.stage = "writing"
  /\ unit' = "same" /\ To("starting")
  /\ UNCHANGED <<platform, file, serverVars, loaded, wanted, main, processVars>>

\* launchctl bootstrap starts the job, and so does kickstart.
Bootstrap ==
  /\ inst.stage = "starting" /\ platform = "darwin" /\ ~ loaded
  /\ loaded' = TRUE /\ wanted' = TRUE /\ To("restarting")
  /\ UNCHANGED <<platform, file, serverVars, unit, main, processVars>>

Kickstart ==
  /\ inst.stage = "restarting" /\ platform = "darwin"
  /\ procs' = {p \in procs : p.pid # main} /\ main' = 0 /\ wanted' = TRUE
  /\ To("started")
  /\ UNCHANGED <<platform, file, serverVars, unit, loaded, lastPid, log>>

\* systemctl restart ends the process of the service, whatever its command.
StopUnit ==
  /\ inst.stage = "starting" /\ platform = "linux"
  /\ loaded' = TRUE /\ Terminate({main}) /\ To("restarting")
  /\ UNCHANGED <<platform, file, serverVars, unit, wanted, main, lastPid, log>>

StartUnit ==
  /\ inst.stage = "restarting" /\ platform = "linux" /\ main = 0
  /\ wanted' = TRUE /\ To("started")
  /\ UNCHANGED <<platform, file, serverVars, unit, loaded, main, processVars>>

\* waitForRunningJob asks three commands, one after the other, and begins again
\* when an answer does not fit: the manager for the number of its process, ...
AskManager ==
  /\ inst.stage = "started" /\ main # 0
  /\ inst' = [inst EXCEPT !.stage = "found", !.pid = main]
  /\ UNCHANGED <<platform, file, serverVars, managerVars, processVars>>

\* ... ps for the command under that number, ...
AskCommand ==
  /\ inst.stage = "found"
  /\ To(IF \E p \in procs : p.pid = inst.pid /\ Identical(p) THEN "identified" ELSE "started")
  /\ UNCHANGED <<platform, file, serverVars, managerVars, processVars>>

\* ... and ps for how many processes have that command.
AskCount ==
  /\ inst.stage = "identified"
  /\ To(IF Cardinality({p \in procs : Identical(p)}) = 1 THEN "verifying" ELSE "started")
  /\ UNCHANGED <<platform, file, serverVars, managerVars, processVars>>

\* Mutant: the connection of any process of the service will do.
Verified_AnyProcess == \E e \in log : e.what = "connected"

\* The number is looked for in the text of the line, where it may be the
\* beginning of another one.
Begins(pid, number) == pid = number \/ <<pid, number>> \in Longer
Verified == \E e \in log : e.what = "connected" /\ Begins(inst.pid, e.pid)

\* verifyConnectionLog: a failure of any process is a failure.
Verify ==
  /\ inst.stage = "verifying"
  /\ \/ Verified /\ To("done")
     \/ ~ Verified /\ (\E e \in log : e.what = "failure") /\ Fails
  /\ UNCHANGED <<platform, file, serverVars, managerVars, processVars>>

\* A command fails, or 45 seconds have passed.
GiveUp ==
  /\ Installing /\ Fails
  /\ UNCHANGED <<platform, file, serverVars, managerVars, processVars>>

Install ==
  \/ Check \/ Bootout \/ List \/ Kill \/ AwaitGone \/ OpenLog \/ WriteUnit
  \/ Bootstrap \/ Kickstart \/ StopUnit \/ StartUnit
  \/ AskManager \/ AskCommand \/ AskCount \/ Verify \/ GiveUp

Next ==
  \/ Enroll \/ Write \/ Revoke
  \/ StartByHand \/ StartManaged \/ Connect \/ ConnectFails \/ Fail \/ Exit
  \/ Install

Spec == Init /\ [][Next]_vars

---------------------------------------------------------------------------
(* Properties *)

\* An installation that reports success has seen a process of the service connect
\* under its number, or a number that begins with it.  If it is the process that
\* was found, it runs the installed command; and who runs that is who was checked,
\* at the server that was asked for, unless the configuration was replaced since.
InstalledRight ==
  inst.stage = "done" =>
    \E e \in log :
      /\ e.what = "connected" /\ Begins(inst.pid, e.pid)
      /\ e.pid = inst.pid => e.same
      /\ e.same /\ file = inst.as => e.as = inst.as
      /\ e.same /\ file = inst.as /\ inst.asked => e.as.server = Expected

\* Runners with another binary or configuration that people started are never
\* asked to stop.
DifferentRunnersKept ==
  \A p \in procs : ~ p.managed /\ ~ p.same => p.state # "stopping"

\* What the documentation promises and the search for the number breaks: the
\* process that is reported has connected.
ReportedConnected ==
  inst.stage = "done" => \E e \in log : e.what = "connected" /\ e.pid = inst.pid

\* What the documentation promises and a busy runner breaks: installing again
\* over a service that is loaded does not leave the machine without it.
ReinstallKeepsService ==
  inst.stage = "busy" /\ inst.before => loaded /\ (wanted \/ main # 0)
=============================================================================
