--------------------------- MODULE SupervisionProofs ---------------------------
(* Where daemons are started one at a time, no two of them ever have the       *)
(* control socket: bind_control_socket of daemon.rs; and what runs is what was *)
(* installed: autostart.rs and upgrade.rs.  For any number of processes,       *)
(* commands, deaths and failures.                                              *)
EXTENDS Supervision, FiniteSetTheorems, TLAPS

-----------------------------------------------------------------------------
(* The startup of daemons.                                                     *)

OneAtATime == MaxStarting = 1

(* Only one process is starting; the name is its own once it is bound, and     *)
(* from the moment it finds nobody there until then it is nobody's.            *)
ClaimInv ==
  /\ \A p, q \in Starting : p = q
  /\ \A p \in Process :
       /\ pc[p] = "unlink" => path \notin Process
       /\ pc[p] = "bind" => path = NoSocket
       /\ pc[p] = "listen" => path = p

(* A start finds no other process starting.                                    *)
LEMMA NobodyStarting ==
  ASSUME OneAtATime, Cardinality(Starting) < MaxStarting
  PROVE  Starting = {}
<1>1. IsFiniteSet(Starting)
  BY StartupAssumption, FS_Subset DEF Starting
<1>2. Cardinality(Starting) \in Nat
  BY <1>1, FS_CardinalityType
<1>3. Cardinality(Starting) = 0
  BY <1>2 DEF OneAtATime
<1> QED
  BY <1>1, <1>3, FS_EmptySet

(* Every step of startup keeps the types: those of the values, and that the    *)
(* owner of the path is a process that has bound it.                           *)
LEMMA StartupTypeStep == StartupTypeOK /\ [StartupNext]_startup => StartupTypeOK'
<1> SUFFICES ASSUME StartupTypeOK, [StartupNext]_startup PROVE StartupTypeOK'
  OBVIOUS
<1> USE StartupAssumption DEF StartupTypeOK, Claiming, Keying, Listening
<1>1. ASSUME NEW p \in Process, Start(p) PROVE StartupTypeOK'
  BY <1>1 DEF Start, Goto
<1>2. ASSUME NEW p \in Process, Connect(p) PROVE StartupTypeOK'
  BY <1>2 DEF Connect, Goto
<1>3. ASSUME NEW p \in Process, Unlink(p) PROVE StartupTypeOK'
  BY <1>3 DEF Unlink, Goto
<1>4. ASSUME NEW p \in Process, Bind(p) PROVE StartupTypeOK'
  BY <1>4 DEF Bind, Goto
<1>5. ASSUME NEW p \in Process, Listen(p) PROVE StartupTypeOK'
  BY <1>5 DEF Listen, Goto
<1>6. ASSUME NEW p \in Process, SetMode(p) PROVE StartupTypeOK'
  BY <1>6 DEF SetMode, End, Goto
<1>7. ASSUME NEW p \in Process, LoadKey(p) PROVE StartupTypeOK'
  BY <1>7 DEF LoadKey, End, Goto
<1>8. ASSUME NEW p \in Process, CreateKey(p) PROVE StartupTypeOK'
  BY <1>8 DEF CreateKey, End, Goto
<1>9. ASSUME NEW p \in Process, WriteKey(p) PROVE StartupTypeOK'
  BY <1>9 DEF WriteKey, Goto
<1>10. ASSUME NEW p \in Process, Die(p) PROVE StartupTypeOK'
  BY <1>10 DEF Die, End, Goto
<1>11. CASE Halt
  BY <1>11 DEF Halt
<1>12. CASE UNCHANGED startup
  BY <1>12 DEF startup
<1>13. CASE Flush
  BY <1>13 DEF Flush
<1> QED
  BY <1>1, <1>2, <1>3, <1>4, <1>5, <1>6, <1>7, <1>8, <1>9, <1>10, <1>11, <1>12, <1>13
  DEF StartupNext, Step

(* Whatever the processes do and however they die: every variable keeps its    *)
(* type, and the name of the socket leads to a process that has bound it.      *)
THEOREM StartupTyped == StartupSpec => []StartupTypeOK
<1>1. StartupInit => StartupTypeOK
  BY StartupAssumption DEF StartupInit, StartupTypeOK
<1> QED
  BY <1>1, StartupTypeStep, PTL DEF StartupSpec

LEMMA ClaimStep ==
  ASSUME OneAtATime, StartupTypeOK, Exclusive, ClaimInv, [StartupNext]_startup
  PROVE  Exclusive' /\ ClaimInv'
<1> USE StartupAssumption
    DEF StartupTypeOK, Exclusive, ClaimInv, Starting, Claiming, Keying, Listening
<1>1. ASSUME NEW p \in Process, Start(p) PROVE Exclusive' /\ ClaimInv'
  <2>1. \A q \in Process : pc[q] \notin Claiming \cup Keying
    BY <1>1, NobodyStarting DEF Start
  <2> QED
    BY <1>1, <2>1 DEF Start, Goto
<1>2. ASSUME NEW p \in Process, Connect(p) PROVE Exclusive' /\ ClaimInv'
  <2>1. path \in Process => pc[path] \in Listening
    BY <1>2 DEF Connect
  <2> QED
    BY <1>2, <2>1 DEF Connect, Goto
<1>3. ASSUME NEW p \in Process, Unlink(p) PROVE Exclusive' /\ ClaimInv'
  BY <1>3 DEF Unlink, Goto
<1>4. ASSUME NEW p \in Process, Bind(p) PROVE Exclusive' /\ ClaimInv'
  BY <1>4 DEF Bind, Goto
<1>5. ASSUME NEW p \in Process, Listen(p) PROVE Exclusive' /\ ClaimInv'
  BY <1>5 DEF Listen, Goto
<1>6. ASSUME NEW p \in Process, SetMode(p) PROVE Exclusive' /\ ClaimInv'
  BY <1>6 DEF SetMode, End, Goto
<1>7. ASSUME NEW p \in Process, LoadKey(p) PROVE Exclusive' /\ ClaimInv'
  BY <1>7 DEF LoadKey, End, Goto
<1>8. ASSUME NEW p \in Process, CreateKey(p) PROVE Exclusive' /\ ClaimInv'
  BY <1>8 DEF CreateKey, End, Goto
<1>9. ASSUME NEW p \in Process, WriteKey(p) PROVE Exclusive' /\ ClaimInv'
  BY <1>9 DEF WriteKey, Goto
<1>10. ASSUME NEW p \in Process, Die(p) PROVE Exclusive' /\ ClaimInv'
  BY <1>10 DEF Die, End, Goto
<1>11. CASE Halt
  BY <1>11 DEF Halt
<1>12. CASE UNCHANGED startup
  BY <1>12 DEF startup
<1>13. CASE Flush
  BY <1>13 DEF Flush
<1> QED
  BY <1>1, <1>2, <1>3, <1>4, <1>5, <1>6, <1>7, <1>8, <1>9, <1>10, <1>11, <1>12, <1>13
  DEF StartupNext, Step

(* A process that listens is the one that the path of the socket leads to.     *)
THEOREM OneDaemon == ASSUME OneAtATime PROVE StartupSpec => []Exclusive
<1>1. StartupInit => StartupTypeOK /\ Exclusive /\ ClaimInv
  BY StartupAssumption
  DEF StartupInit, StartupTypeOK, Exclusive, ClaimInv, Starting, Claiming, Keying, Listening
<1>2. StartupTypeOK /\ Exclusive /\ ClaimInv /\ [StartupNext]_startup
        => (StartupTypeOK /\ Exclusive /\ ClaimInv)'
  BY StartupTypeStep, ClaimStep
<1> QED
  BY <1>1, <1>2, PTL DEF StartupSpec

-----------------------------------------------------------------------------
(* The secret key, when any number of daemons start at once.                   *)

(* Who creates the key file is alone to write it, and nobody serves before it  *)
(* is whole.                                                                   *)
KeyWrittenOnce ==
  /\ \A p, q \in Process : pc[p] = "writekey" /\ pc[q] = "writekey" => p = q
  /\ \A p \in Process : /\ pc[p] = "writekey" => key = "partial"
                        /\ pc[p] = "serve" => key \in {"whole", "kept"}

(* What is on the disk stays, and what is whole, unless the machine goes down. *)
KeyStays == /\ key = "kept" => key' = "kept"
            /\ key = "whole" => \/ key' \in {"whole", "kept"}
                               \/ \A p \in Process : pc'[p] = "down"

LEMMA KeyStep ==
  ASSUME StartupTypeOK, KeyWrittenOnce, [StartupNext]_startup
  PROVE  KeyWrittenOnce' /\ KeyStays
<1> USE DEF StartupTypeOK, KeyWrittenOnce, KeyStays
<1>1. ASSUME NEW p \in Process, NEW step \in {"down", "connect", "unlink", "bind", "listen",
                                               "restrict", "loadkey", "create"},
             Goto(p, step), UNCHANGED key
      PROVE  KeyWrittenOnce' /\ KeyStays
  BY <1>1 DEF Goto
<1>2. ASSUME NEW p \in Process, Start(p) \/ Connect(p) \/ Unlink(p) \/ Bind(p) \/ Listen(p)
      PROVE  KeyWrittenOnce' /\ KeyStays
  BY <1>1, <1>2 DEF Start, Connect, Unlink, Bind, Listen
<1>3. ASSUME NEW p \in Process, SetMode(p) \/ Die(p)
      PROVE  KeyWrittenOnce' /\ KeyStays
  BY <1>1, <1>3 DEF SetMode, Die, End
<1>4. ASSUME NEW p \in Process, LoadKey(p)
      PROVE  KeyWrittenOnce' /\ KeyStays
  BY <1>4 DEF LoadKey, End, Goto
<1>5. ASSUME NEW p \in Process, CreateKey(p)
      PROVE  KeyWrittenOnce' /\ KeyStays
  BY <1>5 DEF CreateKey, End, Goto
<1>6. ASSUME NEW p \in Process, WriteKey(p)
      PROVE  KeyWrittenOnce' /\ KeyStays
  BY <1>6 DEF WriteKey, Goto
<1>7. CASE Halt
  BY <1>7 DEF Halt
<1>8. CASE UNCHANGED startup
  BY <1>8 DEF startup
<1>9. CASE Flush
  BY <1>9 DEF Flush
<1> QED
  BY <1>2, <1>3, <1>4, <1>5, <1>6, <1>7, <1>8, <1>9 DEF StartupNext, Step

(* However many daemons start at once, and however they die: the key file is   *)
(* written by the one that created it, before anybody serves, and a key that   *)
(* is whole stays, so that whoever serves has the key that is in the file; but *)
(* what has not got to the disk is lost when the machine goes down.            *)
THEOREM IdentityIsMadeOnce ==
  StartupSpec => []KeyWrittenOnce /\ [][KeyStays]_startup
<1>1. StartupInit => StartupTypeOK /\ KeyWrittenOnce
  BY StartupAssumption DEF StartupInit, StartupTypeOK, KeyWrittenOnce
<1>2. StartupTypeOK /\ KeyWrittenOnce /\ [StartupNext]_startup
        => /\ StartupTypeOK' /\ KeyWrittenOnce'
           /\ [KeyStays]_startup
  BY StartupTypeStep, KeyStep
<1> QED
  BY <1>1, <1>2, PTL DEF StartupSpec

-----------------------------------------------------------------------------
(* Who starts them takes steps of startup, or none.                            *)

LEMMA StopIsStartup ==
  ASSUME Stop
  PROVE  [StartupNext]_startup
BY SupervisionAssumption DEF Stop, StartupNext

(* The steps that a proof by cases has to look at.                             *)
LEMMA NextCases ==
  ASSUME Next
  PROVE  \/ \E args \in Arguments : Install(args)
         \/ Uninstall \/ Restart
         \/ OpenUnit \/ WriteUnit \/ Reload \/ Enable \/ Restarted \/ Disable \/ RemoveUnit \/ Fail
         \/ \E version \in Version : Fetch(version)
         \/ Verify \/ WriteExecutable \/ Replace \/ UpgradeFails
         \/ \E p \in Process : StartByHand(p) \/ Run(p) \/ Killed(p)
         \/ Launch \/ WrittenBack \/ Reboot
BY DEF Next, Autostart, Upgrade

LEMMA SupervisionStarts == [Next]_vars => [StartupNext]_startup
<1> SUFFICES ASSUME [Next]_vars PROVE [StartupNext]_startup
  OBVIOUS
<1>1. CASE \/ \E args \in Arguments : Install(args)
           \/ Uninstall \/ Restart
           \/ OpenUnit \/ WriteUnit \/ Reload \/ Enable \/ RemoveUnit \/ Fail
  BY <1>1 DEF Install, Uninstall, Restart, OpenUnit, WriteUnit, Reload, Enable, RemoveUnit, Fail
<1>2. CASE \/ \E version \in Version : Fetch(version)
           \/ Verify \/ WriteExecutable \/ Replace \/ UpgradeFails
  BY <1>2 DEF Fetch, Verify, WriteExecutable, Replace, UpgradeFails
<1>3. CASE Restarted \/ Disable
  BY <1>3, StopIsStartup DEF Restarted, RestartJob, Disable
<1>4. ASSUME NEW p \in Process, StartByHand(p) \/ Run(p) \/ Killed(p)
      PROVE  [StartupNext]_startup
  BY <1>4 DEF StartByHand, Run, Killed, StartupNext
<1>5. CASE Launch \/ WrittenBack \/ Reboot
  BY <1>5, SupervisionAssumption DEF Launch, WrittenBack, Reboot, StartupNext
<1>6. CASE UNCHANGED vars
  BY <1>6 DEF vars
<1> QED BY <1>1, <1>2, <1>3, <1>4, <1>5, <1>6, NextCases

LEMMA SupervisionIsStartup == Spec => StartupSpec
BY SupervisionStarts, PTL DEF Spec, Init, StartupSpec

(* Commands, upgrades, boots and daemons started by hand beside the unit do    *)
(* not let two daemons have the socket either.                                 *)
THEOREM OneSupervisedDaemon == ASSUME OneAtATime PROVE Spec => []Exclusive
BY SupervisionIsStartup, OneDaemon, PTL

-----------------------------------------------------------------------------
(* Types.                                                                      *)

Files ==
  /\ unit \in Arguments \cup {None, Torn} /\ job \in Arguments \cup {None}
  /\ enabled \in BOOLEAN /\ active \in BOOLEAN
  /\ exe \in Version \cup {Torn}
  /\ command \in [do: {"none", "install", "uninstall", "restart"},
                  args: Arguments \cup {None},
                  next: {"none", "open", "write", "reload", "enable", "restart", "disable",
                         "remove"}]
  /\ upgrade \in [next: {"none", "verify", "write", "rename"},
                  version: Version \cup {None, Torn}]
  /\ promised \in Arguments \cup {None} /\ recent \subseteq Version
  /\ left \in [commands: Nat, upgrades: Nat, faults: Nat]

Images ==
  /\ image \in [args: Arguments, exe: Version \cup {Torn}] \cup {NoImage}
  /\ pc[Managed] = "down" <=> image = NoImage

(* What an upgrade has verified is a release, and what a start finds has been  *)
(* there since the last restart.                                               *)
Upgrading ==
  /\ exe \in recent
  /\ upgrade.next = "none" <=> upgrade.version = None
  /\ upgrade.next \in {"write", "rename"} => upgrade.version \in Version
  /\ pc[Managed] # "down" => image.exe \in recent

(* How far each command has got: what it has written and loaded when it comes  *)
(* to the next call, and that nothing is promised until it is through.         *)
Installing ==
  /\ command.do = "none" <=> command.next = "none"
  /\ command.do = "install" =>
       /\ promised = None /\ command.args \in Arguments
       /\ command.next \in {"open", "write", "reload", "enable", "restart"}
       /\ command.next \in {"reload", "enable", "restart"} => unit = command.args
       /\ command.next = "restart" => job = command.args /\ enabled
  /\ command.do = "uninstall" =>
       /\ promised = None
       /\ command.next \in {"disable", "remove"}
       /\ command.next = "remove" => ~active /\ ~enabled /\ pc[Managed] = "down"
  /\ command.do = "restart" => command.next = "restart" /\ unit # None

(* What is promised is in the unit file, loaded, enabled, and running or about *)
(* to; nothing runs that systemd is not to keep running.                       *)
Supervised ==
  /\ promised # None =>
       /\ unit = promised /\ job = promised /\ enabled /\ active
       /\ pc[Managed] # "down" => image.args = promised
  /\ active => job # None
  /\ active \/ enabled => unit # None
  /\ pc[Managed] # "down" => active

SupervisionInv == StartupTypeOK /\ Files /\ Images /\ Upgrading /\ Installing /\ Supervised

LEMMA SupervisionInit == Init => SupervisionInv
<1> SUFFICES ASSUME Init PROVE SupervisionInv
  OBVIOUS
<1> USE SupervisionAssumption
<1>1. StartupTypeOK
  BY StartupAssumption DEF Init, StartupInit, StartupTypeOK
<1>3. Files
  BY DEF Init, Files, NoCommand, NoUpgrade
<1>4. Images
  BY DEF Init, StartupInit, Images
<1>5. Upgrading
  BY DEF Init, StartupInit, Upgrading, NoUpgrade
<1>6. Installing /\ Supervised
  BY DEF Init, StartupInit, Installing, Supervised, NoCommand
<1> QED BY <1>1, <1>3, <1>4, <1>5, <1>6 DEF SupervisionInv

LEMMA LeftStep ==
  ASSUME NEW what \in {"commands", "upgrades", "faults"}, Use(what),
         left \in [commands: Nat, upgrades: Nat, faults: Nat]
  PROVE  left' \in [commands: Nat, upgrades: Nat, faults: Nat]
<1>1. left' = [left EXCEPT ![what] = left[what] - 1] /\ left[what] > 0
  BY DEF Use
<1>2. left[what] \in Nat
  OBVIOUS
<1>3. left[what] - 1 \in Nat
  BY <1>1, <1>2
<1> QED BY <1>1, <1>3

LEMMA FilesStep == SupervisionInv /\ [Next]_vars => Files'
<1> SUFFICES ASSUME Files, Upgrading, [Next]_vars PROVE Files'
  BY DEF SupervisionInv
<1> USE SupervisionAssumption DEF Files, systemd, ledger, Loaded, At, Then
<1>1. ASSUME NEW args \in Arguments, Install(args) PROVE Files'
  BY <1>1, LeftStep DEF Install
<1>2. CASE Uninstall \/ Restart
  BY <1>2, LeftStep DEF Uninstall, Restart
<1>3. CASE OpenUnit \/ Reload \/ RemoveUnit
  BY <1>3 DEF OpenUnit, Reload, RemoveUnit, NoCommand
<1>4. CASE Enable \/ Disable
  BY <1>4 DEF Enable, Disable, NoCommand
<1>5. CASE Restarted
  <2>1. recent' \subseteq Version
    BY <1>5 DEF Restarted, Upgrading
  <2> QED BY <1>5, <2>1 DEF Restarted, RestartJob, NoCommand
<1>6. CASE Fail \/ UpgradeFails
  BY <1>6, LeftStep DEF Fail, UpgradeFails, NoCommand, NoUpgrade
<1>7. ASSUME NEW version \in Version, Fetch(version) PROVE Files'
  BY <1>7, LeftStep DEF Fetch, UpgradeTo
<1>8. CASE Verify \/ WriteExecutable
  BY <1>8 DEF Verify, WriteExecutable, UpgradeTo, NoUpgrade
<1>9. CASE Replace
  BY <1>9 DEF Replace, NoUpgrade, Upgrading
<1>10. ASSUME NEW p \in Process, StartByHand(p) \/ Run(p) PROVE Files'
  BY <1>10 DEF StartByHand, Run
<1>11. ASSUME NEW p \in Process, Killed(p) PROVE Files'
  BY <1>11, LeftStep DEF Killed
<1>12. CASE Launch \/ WrittenBack
  BY <1>12 DEF Launch, WrittenBack
<1>13. CASE Reboot
  BY <1>13, LeftStep DEF Reboot, NoCommand, NoUpgrade
<1>14. CASE WriteUnit
  BY <1>14 DEF WriteUnit
<1>15. CASE UNCHANGED vars
  BY <1>15 DEF vars
<1> HIDE DEF Files
<1> QED
  BY <1>1, <1>2, <1>3, <1>4, <1>5, <1>6, <1>7, <1>8, <1>9, <1>10, <1>11, <1>12, <1>13, <1>14,
     <1>15, NextCases

(* What a step of a process does to the managed one.                           *)
LEMMA StepOfProcess ==
  ASSUME StartupTypeOK, NEW p \in Process, Step(p) \/ Die(p)
  PROVE  pc[p] # "down" /\ \A q \in Process : q # p => pc'[q] = pc[q]
<1> USE DEF StartupTypeOK, Goto, End
<1>1. CASE Connect(p) \/ Unlink(p) \/ Bind(p) \/ Listen(p)
  BY <1>1 DEF Connect, Unlink, Bind, Listen
<1>2. CASE SetMode(p) \/ LoadKey(p)
  BY <1>2 DEF SetMode, LoadKey
<1>3. CASE CreateKey(p) \/ WriteKey(p) \/ Die(p)
  BY <1>3 DEF CreateKey, WriteKey, Die
<1> QED BY <1>1, <1>2, <1>3 DEF Step

LEMMA StopEnds ==
  ASSUME StartupTypeOK, Stop
  PROVE  pc'[Managed] = "down" /\ image' = NoImage
BY SupervisionAssumption DEF Stop, Die, End, Goto, StartupTypeOK, startup

(* All that a step can do to the managed process and to its image.             *)
Unmoved == (pc[Managed] = "down" <=> pc'[Managed] = "down") /\ image' = image

LEMMA ManagedStep ==
  ASSUME SupervisionInv, [Next]_vars
  PROVE  \/ Unmoved /\ ~Restarted /\ ~Disable /\ ~Launch /\ ~Reboot
         \/ pc'[Managed] = "down" /\ image' = NoImage /\ ~Launch
         \/ Launch /\ pc'[Managed] # "down" /\ image' = [args |-> job, exe |-> exe]
<1> USE SupervisionAssumption DEF systemd, ledger
<1> DEFINE Goal == \/ Unmoved /\ ~Restarted /\ ~Disable /\ ~Launch /\ ~Reboot
                   \/ pc'[Managed] = "down" /\ image' = NoImage /\ ~Launch
                   \/ Launch /\ pc'[Managed] # "down" /\ image' = [args |-> job, exe |-> exe]
<1>1. StartupTypeOK /\ Images
  BY DEF SupervisionInv
<1>2. CASE Launch
  BY <1>1, <1>2 DEF Launch, Start, Goto, StartupTypeOK
<1>3. CASE Restarted \/ Disable
  BY <1>1, <1>3, <1>2, StopEnds DEF Restarted, RestartJob, Disable
<1>4. CASE Reboot
  BY <1>2, <1>4 DEF Reboot, Halt
<1>5. ASSUME NEW p \in Process, StartByHand(p) PROVE Unmoved
  BY <1>1, <1>5 DEF StartByHand, Start, Goto, StartupTypeOK, Unmoved
<1>6. ASSUME NEW p \in Process, Run(p) \/ Killed(p)
      PROVE  Unmoved \/ (pc'[Managed] = "down" /\ image' = NoImage)
  <2>1. CASE p # Managed
    <3>1. pc'[Managed] = pc[Managed]
      BY <1>1, <1>6, <2>1, StepOfProcess DEF Run, Killed
    <3> QED BY <1>1, <1>6, <2>1, <3>1 DEF Run, Killed, Unmoved, Images
  <2>2. CASE p = Managed
    <3>1. pc[Managed] # "down"
      BY <1>1, <1>6, <2>2, StepOfProcess DEF Run, Killed
    <3>2. Killed(p) => pc'[Managed] = "down"
      BY <1>1, <2>2 DEF Killed, Die, End, Goto, StartupTypeOK
    <3> QED BY <1>6, <2>2, <3>1, <3>2 DEF Run, Killed, Unmoved
  <2> QED BY <2>1, <2>2
<1>7. CASE \/ \E args \in Arguments : Install(args)
           \/ Uninstall \/ Restart \/ OpenUnit \/ WriteUnit \/ Reload \/ Enable \/ RemoveUnit
           \/ Fail
  <2>1. UNCHANGED <<startup, image>>
    BY <1>7 DEF Install, Uninstall, Restart, OpenUnit, WriteUnit, Reload, Enable, RemoveUnit, Fail
  <2> QED BY <1>2, <1>3, <1>4, <2>1 DEF Unmoved, startup
<1>8. CASE \/ \E version \in Version : Fetch(version)
           \/ Verify \/ WriteExecutable \/ Replace \/ UpgradeFails
           \/ UNCHANGED vars
  <2>1. UNCHANGED <<startup, image>>
    BY <1>8 DEF Fetch, Verify, WriteExecutable, Replace, UpgradeFails, vars
  <2> QED BY <1>2, <1>3, <1>4, <2>1 DEF Unmoved, startup
<1>9. CASE WrittenBack
  BY <1>2, <1>3, <1>4, <1>9 DEF WrittenBack, Flush, Unmoved
<1> QED BY <1>2, <1>3, <1>4, <1>5, <1>6, <1>7, <1>8, <1>9, NextCases

LEMMA ImagesStep == SupervisionInv /\ [Next]_vars => Images'
<1> SUFFICES ASSUME SupervisionInv, [Next]_vars PROVE Images'
  OBVIOUS
<1>1. Images /\ Files /\ Supervised
  BY DEF SupervisionInv
<1>2. CASE Unmoved
  BY <1>1, <1>2 DEF Unmoved, Images, NoImage
<1>3. CASE pc'[Managed] = "down" /\ image' = NoImage
  BY <1>3 DEF Images, NoImage
<1>4. CASE Launch /\ pc'[Managed] # "down" /\ image' = [args |-> job, exe |-> exe]
  <2>1. job \in Arguments /\ exe \in Version \cup {Torn}
    BY <1>1, <1>4 DEF Launch, Files, Supervised
  <2>2. image' \in [args: Arguments, exe: Version \cup {Torn}] /\ image' # NoImage
    BY <1>4, <2>1, SupervisionAssumption DEF NoImage
  <2> QED BY <1>4, <2>2 DEF Images, NoImage
<1> QED BY <1>2, <1>3, <1>4, ManagedStep

LEMMA UpgradingStep == SupervisionInv /\ [Next]_vars => Upgrading'
<1> SUFFICES ASSUME SupervisionInv, [Next]_vars PROVE Upgrading'
  OBVIOUS
<1>1. Upgrading /\ Files
  BY DEF SupervisionInv
<1> USE SupervisionAssumption DEF systemd, ledger
<1> DEFINE Older == exe' \in recent' /\ (recent' = recent \/ recent' = {exe} \/ Replace)
           Fetched == /\ upgrade'.next = "none" <=> upgrade'.version = None
                      /\ upgrade'.next \in {"write", "rename"} => upgrade'.version \in Version
<1>2. ASSUME UNCHANGED <<exe, upgrade, recent>> PROVE Older /\ Fetched
  BY <1>1, <1>2 DEF Upgrading
<1>3. NoUpgrade.next = "none" /\ NoUpgrade.version = None
  BY DEF NoUpgrade
<1>4. ASSUME Restarted PROVE Older /\ Fetched
  <2>1. UNCHANGED <<exe, upgrade>> /\ recent' = {exe}
    BY <1>4 DEF Restarted
  <2> QED BY <1>1, <2>1 DEF Upgrading
<1>5. ASSUME NEW version \in Version, Fetch(version) PROVE Older /\ Fetched
  <2>1. PICK bytes \in {version, Torn} : UpgradeTo("verify", bytes)
    BY <1>5 DEF Fetch
  <2>2. /\ UNCHANGED <<exe, recent>>
        /\ upgrade'.next = "verify" /\ upgrade'.version = bytes
    BY <1>5, <2>1 DEF Fetch, UpgradeTo
  <2> QED BY <1>1, <2>2 DEF Upgrading
<1>6. ASSUME Verify PROVE Older /\ Fetched
  <2>1. UNCHANGED <<exe, recent>>
    BY <1>6 DEF Verify
  <2>2. CASE upgrade.version = Torn
    BY <1>1, <1>3, <1>6, <2>1, <2>2 DEF Verify, Upgrading
  <2>3. CASE upgrade.version # Torn
    <3>1. upgrade.version \in Version
      BY <1>1, <1>6, <2>3 DEF Verify, Upgrading, Files
    <3>2. upgrade'.next = "write" /\ upgrade'.version = upgrade.version
      BY <1>6, <2>3 DEF Verify, UpgradeTo
    <3> QED BY <1>1, <2>1, <3>1, <3>2 DEF Upgrading
  <2> QED BY <2>2, <2>3
<1>7. ASSUME WriteExecutable PROVE Older /\ Fetched
  <2>1. /\ UNCHANGED <<exe, recent>> /\ upgrade.next = "write"
        /\ upgrade'.next = "rename" /\ upgrade'.version = upgrade.version
    BY <1>7 DEF WriteExecutable, UpgradeTo
  <2> QED BY <1>1, <2>1 DEF Upgrading
<1>8. ASSUME Replace PROVE Older /\ Fetched
  BY <1>3, <1>8 DEF Replace
<1>9. ASSUME UpgradeFails \/ Reboot PROVE Older /\ Fetched
  <2>1. UNCHANGED <<exe, recent>> /\ upgrade' = NoUpgrade
    BY <1>9 DEF UpgradeFails, Reboot
  <2> QED BY <1>1, <1>3, <2>1 DEF Upgrading
<1>10. ASSUME \/ \E args \in Arguments : Install(args)
              \/ Uninstall \/ Restart \/ OpenUnit \/ WriteUnit \/ Reload \/ Enable \/ Disable
              \/ RemoveUnit \/ Fail
       PROVE  Older /\ Fetched
  BY <1>2, <1>10
  DEF Install, Uninstall, Restart, OpenUnit, WriteUnit, Reload, Enable, Disable, RemoveUnit, Fail
<1>11. ASSUME \/ \E p \in Process : StartByHand(p) \/ Run(p) \/ Killed(p)
              \/ Launch \/ WrittenBack \/ UNCHANGED vars
       PROVE  Older /\ Fetched
  BY <1>2, <1>11 DEF StartByHand, Run, Killed, Launch, WrittenBack, vars
<1>12. Older /\ Fetched
  BY <1>4, <1>5, <1>6, <1>7, <1>8, <1>9, <1>10, <1>11, NextCases
<1>13. pc'[Managed] # "down" => image'.exe \in recent'
  <2>1. CASE Unmoved /\ ~Restarted
    <3>1. recent \subseteq recent'
      BY <2>1, NextCases
      DEF Install, Uninstall, Restart, OpenUnit, WriteUnit, Reload, Enable, Disable, RemoveUnit,
          Fail, Fetch, Verify, WriteExecutable, Replace, UpgradeFails, StartByHand, Run, Killed,
          Launch, WrittenBack, Reboot, vars
    <3> QED BY <1>1, <2>1, <3>1 DEF Unmoved, Upgrading
  <2>2. CASE Launch /\ image' = [args |-> job, exe |-> exe]
    BY <1>1, <2>2 DEF Launch, Upgrading
  <2> QED BY <2>1, <2>2, ManagedStep
<1> QED BY <1>12, <1>13 DEF Upgrading

LEMMA InstallingStep == SupervisionInv /\ [Next]_vars => Installing'
<1> SUFFICES ASSUME Installing, Files, SupervisionInv, [Next]_vars PROVE Installing'
  BY DEF SupervisionInv
<1> USE SupervisionAssumption DEF Installing, systemd, ledger, At, Then
<1>1. NoCommand.do = "none" /\ NoCommand.next = "none"
  BY DEF NoCommand
<1>2. ASSUME command' = NoCommand PROVE Installing'
  BY <1>1, <1>2
<1>3. ASSUME UNCHANGED <<unit, job, enabled, active, command, promised>>,
             pc[Managed] = "down" => pc'[Managed] = "down" \/ active
      PROVE  Installing'
  BY <1>3
<1>4. ASSUME NEW args \in Arguments, Install(args) PROVE Installing'
  BY <1>4 DEF Install
<1>5. CASE Uninstall \/ Restart
  BY <1>5 DEF Uninstall, Restart
<1>6. CASE OpenUnit
  BY <1>6 DEF OpenUnit, Files
<1>7. CASE WriteUnit
  BY <1>7 DEF WriteUnit, Files
<1>8. CASE Reload
  BY <1>8 DEF Reload, Files
<1>9. CASE Enable
  BY <1>9 DEF Enable, Files, Loaded
<1>10. CASE Disable
  <2>1. pc'[Managed] = "down"
    BY <1>10, StopEnds DEF Disable, SupervisionInv
  <2> QED BY <1>10, <2>1 DEF Disable, Files
<1>11. CASE Restarted \/ RemoveUnit \/ Fail \/ Reboot
  BY <1>2, <1>11 DEF Restarted, RemoveUnit, Fail, Reboot
<1>12. CASE \/ \E version \in Version : Fetch(version)
            \/ Verify \/ WriteExecutable \/ Replace \/ UpgradeFails
            \/ UNCHANGED vars
  BY <1>3, <1>12 DEF Fetch, Verify, WriteExecutable, Replace, UpgradeFails, vars, startup
<1>13. ASSUME NEW p \in Process, StartByHand(p) \/ Run(p) \/ Killed(p) PROVE Installing'
  <2>1. UNCHANGED <<unit, job, enabled, active, command, promised>>
    BY <1>13 DEF StartByHand, Run, Killed
  <2>2. CASE Launch
    BY <1>3, <2>1, <2>2 DEF Launch
  <2> QED BY <1>3, <2>1, <2>2, ManagedStep DEF Unmoved
<1>14. CASE Launch \/ WrittenBack
  BY <1>3, <1>14 DEF Launch, WrittenBack, Flush
<1> HIDE DEF Installing
<1> QED
  BY <1>4, <1>5, <1>6, <1>7, <1>8, <1>9, <1>10, <1>11, <1>12, <1>13, <1>14, NextCases

LEMMA SupervisedStep == SupervisionInv /\ [Next]_vars => Supervised'
<1> SUFFICES ASSUME Supervised, Installing, Files, Images, StartupTypeOK, SupervisionInv,
                    [Next]_vars
             PROVE  Supervised'
  BY DEF SupervisionInv
<1> USE SupervisionAssumption DEF Supervised, systemd, ledger, At
<1>1. ASSUME UNCHANGED <<unit, job, enabled, active, promised>>, ~Launch PROVE Supervised'
  BY <1>1, ManagedStep DEF Unmoved
<1>2. \/ Unmoved \/ (pc'[Managed] = "down" /\ image' = NoImage) \/ Launch
  BY ManagedStep
<1>3. CASE (\E args \in Arguments : Install(args)) \/ Uninstall
  <2>1. UNCHANGED <<startup, image, unit, job, enabled, active>> /\ promised' = None
    BY <1>3 DEF Install, Uninstall
  <2> QED BY <2>1 DEF startup
<1>4. CASE OpenUnit \/ WriteUnit \/ Reload \/ Enable
  <2>1. /\ command.do = "install" /\ promised = None /\ command.args \in Arguments
        /\ UNCHANGED <<startup, image, active, promised>>
    BY <1>4 DEF OpenUnit, WriteUnit, Reload, Enable, Installing, Files
  <2>2. /\ unit' # None
        /\ active => job' # None
    BY <1>4, <2>1 DEF OpenUnit, WriteUnit, Reload, Enable, Installing, Loaded
  <2> QED BY <2>1, <2>2 DEF startup
<1>5. CASE Restarted
  <2>1. pc'[Managed] = "down" /\ active' /\ UNCHANGED <<unit, enabled>>
    BY <1>5, StopEnds DEF Restarted, RestartJob
  <2>2. job' # None /\ (job # None => job' = job)
    BY <1>5 DEF Restarted, RestartJob
  <2>3. CASE command.do = "install"
    BY <1>5, <2>1, <2>2, <2>3 DEF Restarted, Installing
  <2>4. CASE command.do = "restart"
    BY <1>5, <2>1, <2>2, <2>4 DEF Restarted, Installing
  <2> QED BY <1>5, <2>3, <2>4 DEF Restarted, Installing, Files
<1>6. CASE Disable
  <2>1. pc'[Managed] = "down" /\ ~active' /\ ~enabled'
    BY <1>6, StopEnds DEF Disable
  <2>2. promised' = None
    BY <1>6 DEF Disable, Installing, Files
  <2> QED BY <2>1, <2>2
<1>7. CASE RemoveUnit
  <2>1. /\ promised' = None /\ ~active' /\ ~enabled'
        /\ UNCHANGED <<startup, image>>
    BY <1>7 DEF RemoveUnit, Installing, Files
  <2>2. pc'[Managed] = "down"
    BY <1>7, <2>1 DEF RemoveUnit, Installing, Files, startup
  <2> QED BY <2>1, <2>2
<1>8. CASE Restart \/ Fail
  <2>1. UNCHANGED <<startup, image, unit, job, enabled, active, promised>>
    BY <1>8 DEF Restart, Fail
  <2> QED BY <2>1 DEF startup
<1>9. CASE \/ \E version \in Version : Fetch(version)
           \/ Verify \/ WriteExecutable \/ Replace \/ UpgradeFails
           \/ UNCHANGED vars
  <2>1. UNCHANGED <<startup, image, unit, job, enabled, active, promised>>
    BY <1>9 DEF Fetch, Verify, WriteExecutable, Replace, UpgradeFails, vars
  <2> QED BY <2>1 DEF startup
<1>10. CASE Launch
  <2>1. /\ UNCHANGED <<unit, job, enabled, active, promised>> /\ active
        /\ image' = [args |-> job, exe |-> exe]
    BY <1>10 DEF Launch
  <2> QED BY <2>1
<1>11. ASSUME NEW p \in Process, StartByHand(p) \/ Run(p) \/ Killed(p) PROVE Supervised'
  <2>1. UNCHANGED <<unit, job, enabled, active, promised>>
    BY <1>11 DEF StartByHand, Run, Killed
  <2> QED BY <1>1, <1>10, <2>1
<1>12. CASE Reboot
  <2>1. /\ job' = IF enabled THEN Loaded ELSE None
        /\ active' = (enabled /\ Loaded # None)
        /\ pc'[Managed] = "down" /\ UNCHANGED <<unit, enabled, promised>>
    BY <1>12 DEF Reboot, Halt
  <2>2. promised # None => Loaded = promised
    BY DEF Loaded, Files
  <2> QED BY <2>1, <2>2
<1>13. CASE WrittenBack
  BY <1>13 DEF WrittenBack, Flush
<1> HIDE DEF Supervised
<1> QED
  BY <1>3, <1>4, <1>5, <1>6, <1>7, <1>8, <1>9, <1>10, <1>11, <1>12, <1>13, NextCases

LEMMA SupervisionStep == SupervisionInv /\ [Next]_vars => SupervisionInv'
<1> SUFFICES ASSUME SupervisionInv, [Next]_vars PROVE SupervisionInv'
  OBVIOUS
<1>1. StartupTypeOK'
  BY StartupTypeStep, SupervisionStarts DEF SupervisionInv
<1>2. Files' /\ Images' /\ Upgrading'
  BY FilesStep, ImagesStep, UpgradingStep
<1>3. Installing' /\ Supervised'
  BY InstallingStep, SupervisedStep
<1> QED BY <1>1, <1>2, <1>3 DEF SupervisionInv

LEMMA SupervisionInvariant == Spec => []SupervisionInv
BY SupervisionInit, SupervisionStep, PTL DEF Spec

-----------------------------------------------------------------------------
(* Every variable keeps its type, whatever fails and whenever.                 *)
THEOREM SupervisionTyped == Spec => []TypeOK
<1>1. SupervisionInv => TypeOK
  BY DEF SupervisionInv, TypeOK, Files, Images, Supervised
<1> QED BY <1>1, SupervisionInvariant, PTL

(* Whichever call of install or uninstall fails, no daemon is kept running,    *)
(* or started at boot, without its unit.                                       *)
THEOREM UnitOutlivesJob == Spec => []JobHasUnit
<1>1. SupervisionInv => JobHasUnit
  BY DEF SupervisionInv, JobHasUnit, Supervised
<1> QED BY <1>1, SupervisionInvariant, PTL

(* What an install that succeeded has asked for is what runs, and what comes   *)
(* back after a death or a boot, for any number of commands and faults.        *)
THEOREM RunsWhatWasInstalled == Spec => []RunsAsInstalled
<1>1. SupervisionInv => RunsAsInstalled
  BY DEF SupervisionInv, RunsAsInstalled, Supervised
<1> QED BY <1>1, SupervisionInvariant, PTL

(* Whatever releases there are, in whatever order they are fetched, and        *)
(* wherever an upgrade is cut short: the executable is a whole release, and no *)
(* daemon runs one that had been replaced when a restart last succeeded.       *)
THEOREM RunsWhatWasReplaced == Spec => []RunsAsReplaced
<1>1. SupervisionInv => RunsAsReplaced
  BY DEF SupervisionInv, RunsAsReplaced, Upgrading, Files
<1> QED BY <1>1, SupervisionInvariant, PTL
=============================================================================
