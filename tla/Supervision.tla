------------------------------ MODULE Supervision ------------------------------
(* Who starts the daemon, and what is started: `ig autostart` writes a unit    *)
(* and tells systemd about it, systemd runs it and starts it again, `ig        *)
(* upgrade` replaces the executable, and daemons are run by hand beside all    *)
(* that.  Each of the commands may fail, or be killed, at any of its calls.    *)
(*                                                                             *)
(* Of systemd: it runs a unit as it was when it was last loaded, and loads one *)
(* by itself that it does not know; enable and disable make it load again, and *)
(* it forgets a unit that is disabled and does not run.  The unit and the      *)
(* executable that a boot finds are those that were there before.             *)
EXTENDS Startup

CONSTANTS Managed,    \* the process that systemd runs
          Arguments,  \* of `ig autostart install`
          None,
          Torn,       \* a file that has been truncated and not written
          Version,    \* the releases
          Setups      \* bounds: how many commands there are, and what fails

ASSUME SupervisionAssumption ==
  /\ Managed \in Process
  /\ None \notin Arguments \cup Version /\ Torn \notin Arguments \cup Version \cup {None}
  /\ Setups \subseteq [commands: Nat, upgrades: Nat, faults: Nat]

VARIABLES
  unit,      \* the unit file
  job,       \* the unit as systemd has loaded it
  enabled,   \* whether it is started at boot
  active,    \* whether systemd is to keep it running
  exe,       \* the file at the path of the executable
  image,     \* what the managed process was started from
  command,   \* the `ig autostart` under way, and its next call
  upgrade,   \* the `ig upgrade` under way, its next call, what it has fetched
  promised,  \* ledger: the arguments of the last install, if it succeeded
  recent,    \* ledger: the releases at exe since a restart last succeeded
  left       \* bound: what there may still be

systemd == <<unit, job, enabled, active>>
ledger == <<promised, recent>>
vars == <<startup, systemd, exe, image, command, upgrade, ledger, left>>

NoImage == [args |-> None, exe |-> None]
NoCommand == [do |-> "none", args |-> None, next |-> "none"]
NoUpgrade == [next |-> "none", version |-> None]

Init ==
  /\ StartupInit
  /\ unit = None /\ job = None /\ enabled = FALSE /\ active = FALSE
  /\ exe \in Version /\ image = NoImage
  /\ command = NoCommand /\ promised = None /\ recent = Version
  /\ upgrade = NoUpgrade
  /\ left \in Setups

Use(what) == left[what] > 0 /\ left' = [left EXCEPT ![what] = @ - 1]

(* systemd stops the managed process, and waits until it has ended.            *)
Stop ==
  /\ IF pc[Managed] = "down" THEN UNCHANGED startup ELSE Die(Managed)
  /\ image' = NoImage

-----------------------------------------------------------------------------
(* ig autostart.                                                               *)

At(step) == command.next = step
Then(step) == command' = [command EXCEPT !.next = step]

Install(args) ==
  /\ command = NoCommand /\ Use("commands")
  /\ command' = [do |-> "install", args |-> args, next |-> "open"]
  /\ promised' = None
  /\ UNCHANGED <<startup, systemd, exe, image, upgrade, recent>>

(* Both want a unit file to be there.                                          *)
Uninstall ==
  /\ command = NoCommand /\ unit # None /\ Use("commands")
  /\ command' = [do |-> "uninstall", args |-> None, next |-> "disable"]
  /\ promised' = None
  /\ UNCHANGED <<startup, systemd, exe, image, upgrade, recent>>

Restart ==
  /\ command = NoCommand /\ unit # None /\ Use("commands")
  /\ command' = [do |-> "restart", args |-> None, next |-> "restart"]
  /\ UNCHANGED <<startup, systemd, exe, image, upgrade, ledger>>

(* fs::write truncates the unit, and then writes it.                           *)
OpenUnit ==
  /\ At("open")
  /\ unit' = Torn /\ Then("write")
  /\ UNCHANGED <<startup, job, enabled, active, exe, image, upgrade, ledger, left>>

WriteUnit ==
  /\ At("write")
  /\ unit' = command.args /\ Then("reload")
  /\ UNCHANGED <<startup, job, enabled, active, exe, image, upgrade, ledger, left>>

(* systemctl daemon-reload: a unit that makes no sense is not loaded.          *)
Loaded == IF unit \in Arguments THEN unit ELSE None

Reload ==
  /\ At("reload")
  /\ job' = Loaded /\ Then("enable")
  /\ UNCHANGED <<startup, unit, enabled, active, exe, image, upgrade, ledger, left>>

Enable ==
  /\ At("enable")
  /\ job' = Loaded /\ enabled' = TRUE /\ Then("restart")
  /\ UNCHANGED <<startup, unit, active, exe, image, upgrade, ledger, left>>

(* Mutant of RestartJob: a unit that runs is left running.                     *)
StartJob ==
  /\ job' = IF job = None THEN Loaded ELSE job
  /\ active' = TRUE
  /\ IF active THEN UNCHANGED <<startup, image>> ELSE Stop

(* systemctl restart, of the unit as it has been loaded.                       *)
RestartJob ==
  /\ job' = IF job = None THEN Loaded ELSE job
  /\ active' = TRUE
  /\ Stop

(* The command succeeds, unless there is nothing that can be loaded.           *)
Restarted ==
  /\ At("restart") /\ (job # None \/ Loaded # None)
  /\ RestartJob
  /\ command' = NoCommand
  /\ promised' = IF command.do = "install" THEN command.args ELSE promised
  /\ recent' = {exe}
  /\ UNCHANGED <<unit, enabled, exe, upgrade, left>>

(* Mutant of Disable: the daemon goes on until the next boot.                  *)
DisableLater ==
  /\ At("disable")
  /\ enabled' = FALSE /\ Then("remove")
  /\ UNCHANGED <<startup, unit, job, active, exe, image, upgrade, ledger, left>>

(* systemctl disable --now.                                                    *)
Disable ==
  /\ At("disable")
  /\ enabled' = FALSE /\ active' = FALSE /\ job' = None
  /\ Stop /\ Then("remove")
  /\ UNCHANGED <<unit, exe, upgrade, ledger, left>>

RemoveUnit ==
  /\ At("remove")
  /\ unit' = None /\ command' = NoCommand
  /\ UNCHANGED <<startup, job, enabled, active, exe, image, upgrade, ledger, left>>

(* A call fails, or the command is killed before it, and does nothing more.    *)
Fail ==
  /\ command # NoCommand
  /\ \/ Use("faults")
     \/ At("restart") /\ job = None /\ Loaded = None /\ UNCHANGED left
  /\ command' = NoCommand
  /\ UNCHANGED <<startup, systemd, exe, image, upgrade, ledger>>

-----------------------------------------------------------------------------
(* ig upgrade.                                                                 *)

UpgradeTo(step, version) == upgrade' = [next |-> step, version |-> version]

(* The latest release is fetched if it is another than this, be it newer, or   *)
(* older, as when one has been withdrawn; what arrives may not be it.          *)
Fetch(version) ==
  /\ upgrade = NoUpgrade /\ Use("upgrades")
  /\ version \in Version \ {exe}
  /\ \E bytes \in {version, Torn} : UpgradeTo("verify", bytes)
  /\ UNCHANGED <<startup, systemd, exe, image, command, ledger>>

Verify ==
  /\ upgrade.next = "verify"
  /\ IF upgrade.version = Torn THEN upgrade' = NoUpgrade
     ELSE UpgradeTo("write", upgrade.version)
  /\ UNCHANGED <<startup, systemd, exe, image, command, ledger, left>>

(* To a temporary file beside the executable, named after the process.         *)
WriteExecutable ==
  /\ upgrade.next = "write"
  /\ UpgradeTo("rename", upgrade.version)
  /\ UNCHANGED <<startup, systemd, exe, image, command, ledger, left>>

Replace ==
  /\ upgrade.next = "rename"
  /\ exe' = upgrade.version /\ upgrade' = NoUpgrade
  /\ recent' = recent \cup {upgrade.version}
  /\ UNCHANGED <<startup, systemd, image, command, promised, left>>

UpgradeFails ==
  /\ upgrade # NoUpgrade /\ Use("faults")
  /\ upgrade' = NoUpgrade
  /\ UNCHANGED <<startup, systemd, exe, image, command, ledger>>

-----------------------------------------------------------------------------
(* Processes and the machine.                                                  *)

(* By hand, or by systemd, at once or after RestartSec.                        *)
StartByHand(p) ==
  /\ p # Managed /\ Start(p)
  /\ UNCHANGED <<systemd, exe, image, command, upgrade, ledger, left>>

Launch ==
  /\ active /\ Start(Managed)
  /\ image' = [args |-> job, exe |-> exe]
  /\ UNCHANGED <<systemd, exe, command, upgrade, ledger, left>>

Run(p) ==
  /\ Step(p)
  /\ image' = IF pc'[Managed] = "down" THEN NoImage ELSE image
  /\ UNCHANGED <<systemd, exe, command, upgrade, ledger, left>>

Killed(p) ==
  /\ Die(p) /\ Use("faults")
  /\ image' = IF p = Managed THEN NoImage ELSE image
  /\ UNCHANGED <<systemd, exe, command, upgrade, ledger>>

WrittenBack ==
  /\ Flush
  /\ UNCHANGED <<systemd, exe, image, command, upgrade, ledger, left>>

(* The machine starts again, and commands under way have come to an end.       *)
Reboot ==
  /\ Halt /\ Use("faults")
  /\ job' = IF enabled THEN Loaded ELSE None
  /\ active' = (enabled /\ Loaded # None)
  /\ image' = NoImage
  /\ command' = NoCommand /\ upgrade' = NoUpgrade
  /\ UNCHANGED <<unit, enabled, exe, ledger>>

-----------------------------------------------------------------------------
Autostart ==
  \/ OpenUnit \/ WriteUnit \/ Reload \/ Enable \/ Restarted \/ Disable \/ RemoveUnit \/ Fail

Upgrade == Verify \/ WriteExecutable \/ Replace \/ UpgradeFails

Next ==
  \/ \E args \in Arguments : Install(args)
  \/ Uninstall \/ Restart \/ Autostart
  \/ \E version \in Version : Fetch(version)
  \/ Upgrade
  \/ \E p \in Process : StartByHand(p) \/ Run(p) \/ Killed(p)
  \/ Launch \/ WrittenBack \/ Reboot

(* Startup is one sequence of calls that do not wait for anybody, and the unit *)
(* says Restart=always.                                                        *)
Fairness ==
  /\ \A p \in Process : WF_vars(Run(p))
  /\ WF_vars(Launch)

Spec == Init /\ [][Next]_vars /\ Fairness

-----------------------------------------------------------------------------
(* Properties.                                                                 *)

(* Every variable keeps its type; systemd keeps nothing running that it has    *)
(* not loaded.                                                                 *)
TypeOK ==
  /\ StartupTypeOK
  /\ unit \in Arguments \cup {None, Torn} /\ job \in Arguments \cup {None}
  /\ enabled \in BOOLEAN /\ active \in BOOLEAN
  /\ exe \in Version \cup {Torn}
  /\ image \in [args: Arguments, exe: Version \cup {Torn}] \cup {NoImage}
  /\ command \in [do: {"none", "install", "uninstall", "restart"},
                  args: Arguments \cup {None},
                  next: {"none", "open", "write", "reload", "enable", "restart", "disable",
                         "remove"}]
  /\ upgrade \in [next: {"none", "verify", "write", "rename"},
                  version: Version \cup {None, Torn}]
  /\ promised \in Arguments \cup {None} /\ recent \subseteq Version
  /\ left \in [commands: Nat, upgrades: Nat, faults: Nat]
  /\ active => job # None
  /\ pc[Managed] = "down" <=> image = NoImage

(* "Taking the file away first leaves the supervisor holding a job it can no   *)
(* longer describe" (uninstall), and what is installed is no more: whichever   *)
(* call of uninstall fails, no daemon is kept running without its unit.        *)
JobHasUnit == active \/ enabled \/ pc[Managed] # "down" => unit # None

(* "A config change that reports success and has no effect" (load_plan): an    *)
(* install that has succeeded over a running daemon, and after others that     *)
(* failed half way, leaves no daemon with other arguments, and none comes back *)
(* with them after a death or a boot.                                          *)
RunsAsInstalled ==
  promised # None =>
    /\ unit = promised /\ enabled /\ active
    /\ pc[Managed] # "down" => image.args = promised

(* "restart picks up an upgrade", and "an interrupted upgrade leaves the old   *)
(* binary rather than half a new one" (README), as does one that fails its     *)
(* checksum: what is there to be started is a whole release, and no daemon     *)
(* runs one that was replaced before a restart last succeeded.                 *)
RunsAsReplaced == exe \in Version /\ (pc[Managed] # "down" => image.exe \in recent)

(* "Clears a socket left behind by one that is gone" (CONTRACT.md), and what   *)
(* "actually restarts you after a crash or a reboot" (autostart.rs): after the *)
(* last death, command and boot a daemon serves for good, whatever socket the  *)
(* dead ones left, if one was to be kept running.  What it does not get over   *)
(* is a key file that one of them left short.                                  *)
Recovers == <>[](active => Serving # {} \/ key = "partial")
=============================================================================
