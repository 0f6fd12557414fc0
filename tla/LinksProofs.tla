------------------------------ MODULE LinksProofs ------------------------------
(* For any connections and faults, and whichever sides dial, a connection loop *)
(* serves what is installed and misses no connection: Peer.connection and      *)
(* Peer.conn_notify of peer.rs, when dials of both sides cross, too.           *)
EXTENDS Links, TLAPS

(* The installed connection has ended, or its notification is there or to come.*)
Announced(s) ==
  \/ connection[s] = None \/ s \in permit
  \/ s \in ended[connection[s]]
  \/ Handling(connection[s], s, "notify")

(* What a loop waits or dials beside is announced, and so is what has replaced *)
(* the connection that it still serves.                                        *)
Wakeful ==
  \A s \in Side :
    /\ loop[s] \in {"notified", "backoff", "dial"} => Announced(s)
    /\ loop[s] = "serve" => conn[s] = connection[s] \/ Announced(s)

LinkInv == TypeOK /\ ServesInstalled /\ Wakeful

(* What a dial gets is nobody's: neither installed, nor served, nor handled.   *)
LEMMA Fresh ==
  ASSUME TypeOK, Gone # {}, NEW c, c = CHOOSE k \in Gone : TRUE
  PROVE  /\ c \in Conn /\ Side \subseteq ended[c]
         /\ \A s \in Side : connection[s] # c /\ conn[s] # c /\ task[c].side # s
<1>1. c \in Gone
  OBVIOUS
<1> QED
  BY <1>1 DEF Gone, Held, TypeOK

LEMMA OtherSide == \A s \in Side : Other(s) \in Side /\ Other(s) # s
BY LinksAssumption DEF Side, Other

LEMMA TypeInit == Init => LinkInv
<1> SUFFICES ASSUME Init PROVE LinkInv
  OBVIOUS
<1>1. /\ {dial, openers, announcers, removers} \subseteq SUBSET Side
      /\ pool \subseteq Conn /\ faults \in Nat
  BY LinksAssumption DEF Init
<1>2. task \in [Conn -> Tasks] /\ ended \in [Conn -> SUBSET (Side \cup {"network"})]
  BY LinksAssumption DEF Init, Tasks, NoTask, Side
<1>3. connection \in [Side -> Conn \cup {None}]
  BY LinksAssumption DEF Init
<1>4. TypeOK
  BY <1>1, <1>2, <1>3 DEF Init, TypeOK, Writable, Telling, Handling, NoTask
<1> QED
  BY <1>4 DEF Init, LinkInv, ServesInstalled, Wakeful

(* TypeOK without what is known of a guard.                                    *)
Typed ==
  /\ {dial, openers, announcers, removers} \subseteq SUBSET Side /\ pool \subseteq Conn
  /\ connection \in [Side -> Conn \cup {None}]
  /\ permit \subseteq Side
  /\ loop \in [Side -> {"top", "serve", "notified", "backoff", "dial", "install", "tell",
                         "telling", "gone"}]
  /\ conn \in [Side -> Conn \cup {None}]
  /\ task \in [Conn -> Tasks]
  /\ ended \in [Conn -> SUBSET (Side \cup {"network"})]
  /\ reading \subseteq Side /\ streams \subseteq Side \X Conn
  /\ announce \in [Side -> {"none", "waiting", "sending"}]
  /\ removal \in [Side -> {"none", "asked", "removed", "done"}]
  /\ faults \in Nat
  /\ \A s \in Side : loop[s] \in {"serve", "install", "tell", "telling"} <=> conn[s] # None

Guarded == \A s \in Side : ~Writable(s) => connection[s] # None

LEMMA TypeParts == TypeOK <=> Typed /\ Guarded
BY DEF TypeOK, Typed, Guarded

(* Every step keeps the types: a loop has a connection at hand exactly when it *)
(* serves it, installs it or tells the other side of its ports.                *)
LEMMA TypedStep == TypeOK /\ [Next]_vars => Typed'
<1> SUFFICES ASSUME TypeOK, Typed, [Next]_vars PROVE Typed'
  BY TypeParts
<1> USE LinksAssumption DEF Typed, setup, guards, tasks
<1>1. ASSUME NEW s \in Side, Top(s) PROVE Typed'
  BY <1>1 DEF Top, Goto, Idle
<1>2. ASSUME NEW s \in Side, Disconnected(s) PROVE Typed'
  BY <1>2 DEF Disconnected, Goto, Idle
<1>3. ASSUME NEW s \in Side, Notified(s) PROVE Typed'
  BY <1>3 DEF Notified, Goto
<1>4. ASSUME NEW s \in Side, Slept(s) PROVE Typed'
  BY <1>4 DEF Slept, Goto
<1>5. ASSUME NEW s \in Side, Connected(s) PROVE Typed'
  <2> DEFINE c == CHOOSE k \in Gone : TRUE
  <2>1. c \in Conn
    BY <1>5, Fresh DEF Connected
  <2>2. task' \in [Conn -> Tasks]
    BY <1>5, <2>1, OtherSide DEF Connected, Handle, Tasks
  <2> QED
    BY <1>5, <2>1, <2>2 DEF Connected, Goto
<1>6. ASSUME NEW s \in Side, Unreachable(s) PROVE Typed'
  BY <1>6 DEF Unreachable, Goto, Idle
<1>7. ASSUME NEW s \in Side, Install(s) PROVE Typed'
  BY <1>7 DEF Install, Goto
<1>8. ASSUME NEW s \in Side, NEW c \in Conn, Queue(s, c) PROVE Typed'
  <2>1. task' \in [Conn -> Tasks]
    BY <1>8 DEF Queue, Handle, Tasks
  <2> QED
    BY <1>8, <2>1 DEF Queue
<1>9. ASSUME NEW s \in Side, NEW c \in Conn, Replace(s, c) PROVE Typed'
  <2>1. task' \in [Conn -> Tasks]
    BY <1>9 DEF Replace, Handle, Tasks
  <2> QED
    BY <1>9, <2>1 DEF Replace
<1>10. ASSUME NEW s \in Side, NEW c \in Conn, NotifyOne(s, c) PROVE Typed'
  BY <1>10 DEF NotifyOne, Handle, Tasks
<1>11. ASSUME NEW s \in Side, Open(s) PROVE Typed'
  BY <1>11 DEF Open
<1>12. ASSUME NEW s \in Side, Opened(s) PROVE Typed'
  <2>1. connection[s] \in Conn
    BY <1>12, TypeParts DEF Opened, Guarded, Writable
  <2> QED
    BY <1>12, <2>1 DEF Opened
<1>13. ASSUME NEW s \in Side, NEW c \in Conn, Finished(s, c) PROVE Typed'
  BY <1>13 DEF Finished
<1>14. ASSUME NEW c \in Conn, Lose(c) PROVE Typed'
  BY <1>14 DEF Lose
<1>15. ASSUME NEW s \in Side, NEW c \in Conn, End(s, c) PROVE Typed'
  BY <1>15 DEF End
<1>16. ASSUME NEW s \in Side, NEW c \in Conn, Refuse(s, c)
       PROVE  Typed'
  BY <1>16 DEF Refuse, Tasks, NoTask
<1>17. ASSUME NEW s \in Side, Broadcast(s) PROVE Typed'
  BY <1>17 DEF Broadcast, Announce
<1>18. ASSUME NEW s \in Side, AskRemoval(s) PROVE Typed'
  BY <1>18 DEF AskRemoval
<1>19. ASSUME NEW s \in Side, Remove(s) PROVE Typed'
  BY <1>19 DEF Remove
<1>20. ASSUME NEW s \in Side, Take(s) PROVE Typed'
  BY <1>20 DEF Take
<1>21. CASE UNCHANGED vars
  BY <1>21 DEF vars
<1>22. ASSUME NEW s \in Side, Tell(s) PROVE Typed'
  BY <1>22 DEF Tell, Goto
<1>23. ASSUME NEW s \in Side, Told(s) PROVE Typed'
  BY <1>23 DEF Told, Goto
<1>24. ASSUME NEW s \in Side, NEW c \in Conn, TellPeer(s, c) PROVE Typed'
  BY <1>24 DEF TellPeer, Handle, Tasks
<1>25. ASSUME NEW s \in Side, NEW c \in Conn, ToldPeer(s, c) PROVE Typed'
  BY <1>25 DEF ToldPeer, NoTask, Tasks
<1> QED
  BY <1>1, <1>2, <1>3, <1>4, <1>5, <1>6, <1>7, <1>8, <1>9, <1>10, <1>11, <1>12,
     <1>13, <1>14, <1>15, <1>16, <1>17, <1>18, <1>19, <1>20, <1>21, <1>22,
     <1>23, <1>24, <1>25
  DEF Next, Loop, Accept

(* A guard is held on a connection, and who stores one waits for the guard.    *)
LEMMA GuardedStep == TypeOK /\ [Next]_vars => Guarded'
<1> SUFFICES ASSUME Typed, Guarded, [Next]_vars, NEW t \in Side, ~Writable(t)'
             PROVE  connection'[t] # None
  BY TypeParts DEF Guarded
<1> USE LinksAssumption DEF Typed, Guarded, Writable, Telling, Handling, setup, guards, tasks
<1>1. ASSUME NEW s \in Side, Install(s) PROVE connection'[t] # None
  BY <1>1 DEF Install, Goto
<1>2. ASSUME NEW s \in Side, NEW c \in Conn, Replace(s, c) PROVE connection'[t] # None
  BY <1>2 DEF Replace, Handle
<1>3. ASSUME NEW s \in Side, Take(s) PROVE connection'[t] # None
  BY <1>3 DEF Take
<1>4. ASSUME NEW s \in Side, Open(s) \/ Opened(s) PROVE connection'[t] # None
  BY <1>4 DEF Open, Opened
<1>5. ASSUME NEW s \in Side, Broadcast(s) PROVE connection'[t] # None
  BY <1>5 DEF Broadcast, Announce
<1>6. ASSUME NEW s \in Side, Tell(s) PROVE connection'[t] # None
  BY <1>6 DEF Tell, Goto
<1>7. ASSUME NEW s \in Side, NEW c \in Conn, TellPeer(s, c) PROVE connection'[t] # None
  BY <1>7 DEF TellPeer, Handle
<1>8. ASSUME NEW s \in Side,
             Top(s) \/ Disconnected(s) \/ Notified(s) \/ Slept(s) \/ Unreachable(s) \/ Told(s)
      PROVE  connection'[t] # None
  <2>1. UNCHANGED <<connection, reading, announce, task>>
    BY <1>8 DEF Top, Disconnected, Notified, Slept, Unreachable, Told
  <2>2. loop'[t] = "telling" => loop[t] = "telling"
    BY <1>8 DEF Top, Disconnected, Notified, Slept, Unreachable, Told, Goto, Idle
  <2> QED
    BY <2>1, <2>2
<1>9. ASSUME NEW s \in Side, Connected(s) PROVE connection'[t] # None
  <2> DEFINE c == CHOOSE k \in Gone : TRUE
  <2>1. task' = [task EXCEPT ![c] = [side |-> Other(s), step |-> "accepted"]]
    BY <1>9 DEF Connected, Handle
  <2>2. \A k \in Conn : Handling(k, t, "telling")' => Handling(k, t, "telling")
    BY <2>1
  <2>3. loop'[t] = "telling" => loop[t] = "telling"
    BY <1>9 DEF Connected, Goto
  <2> QED
    BY <1>9, <2>2, <2>3 DEF Connected
<1>10. ASSUME NEW s \in Side, NEW c \in Conn,
              Queue(s, c) \/ Refuse(s, c) \/ NotifyOne(s, c) \/ ToldPeer(s, c)
       PROVE  connection'[t] # None
  <2>1. UNCHANGED <<connection, reading, announce, loop>>
    BY <1>10 DEF Queue, Refuse, NotifyOne, ToldPeer
  <2>2. \A k \in Conn : Handling(k, t, "telling")' => Handling(k, t, "telling")
    BY <1>10 DEF Queue, Refuse, NotifyOne, ToldPeer, Handle, NoTask
  <2> QED
    BY <2>1, <2>2
<1>11. CASE UNCHANGED <<connection, reading, announce, loop, task>>
  BY <1>11
<1> QED
  BY <1>1, <1>2, <1>3, <1>4, <1>5, <1>6, <1>7, <1>8, <1>9, <1>10, <1>11
  DEF Next, Loop, Accept, vars, Finished, AskRemoval, Remove, Lose, End

LEMMA TypeStep == TypeOK /\ [Next]_vars => TypeOK'
BY TypedStep, GuardedStep DEF TypeOK, Typed, Guarded

(* Every step keeps what is served and what is announced.  Only Replace        *)
(* installs beside a loop that serves or waits, and it leaves a notification.  *)
LEMMA ServeStep ==
  ASSUME LinkInv, [Next]_vars PROVE ServesInstalled' /\ Wakeful'
<1> USE LinksAssumption
    DEF LinkInv, TypeOK, ServesInstalled, Wakeful, Announced, Handling, Writable,
        setup, guards, tasks
<1>1. ASSUME NEW s \in Side, Top(s) PROVE ServesInstalled' /\ Wakeful'
  BY <1>1 DEF Top, Goto, Idle
<1>2. ASSUME NEW s \in Side, Disconnected(s) PROVE ServesInstalled' /\ Wakeful'
  BY <1>2 DEF Disconnected, Goto, Idle
<1>3. ASSUME NEW s \in Side, Notified(s) PROVE ServesInstalled' /\ Wakeful'
  BY <1>3 DEF Notified, Goto
<1>4. ASSUME NEW s \in Side, Slept(s) PROVE ServesInstalled' /\ Wakeful'
  BY <1>4 DEF Slept, Goto
<1>5. ASSUME NEW s \in Side, Connected(s) PROVE ServesInstalled' /\ Wakeful'
  <2> DEFINE c == CHOOSE k \in Gone : TRUE
  <2>1. c \in Conn /\ \A t \in Side : connection[t] # c /\ conn[t] # c
    BY <1>5, Fresh DEF Connected
  <2>2. \A k \in Conn \ {c} : task'[k] = task[k] /\ ended'[k] = ended[k]
    BY <1>5, <2>1 DEF Connected, Handle
  <2>3. \A t \in Side : t # s => loop'[t] = loop[t] /\ conn'[t] = conn[t]
    BY <1>5 DEF Connected, Goto
  <2>4. loop'[s] = "install" /\ connection' = connection /\ permit' = permit
    BY <1>5 DEF Connected, Goto
  <2>5. \A t \in Side : Announced(t) => Announced(t)'
    BY <2>1, <2>2, <2>4
  <2> HIDE DEF c
  <2>6. ServesInstalled'
    BY <2>1, <2>2, <2>3, <2>4
  <2>7. Wakeful'
    BY <2>3, <2>4, <2>5
  <2> QED
    BY <2>6, <2>7
<1>6. ASSUME NEW s \in Side, Unreachable(s) PROVE ServesInstalled' /\ Wakeful'
  BY <1>6 DEF Unreachable, Goto, Idle
<1>7. ASSUME NEW s \in Side, Install(s) PROVE ServesInstalled' /\ Wakeful'
  BY <1>7 DEF Install, Goto
<1>8. ASSUME NEW s \in Side, NEW c \in Conn, Queue(s, c) PROVE ServesInstalled' /\ Wakeful'
  BY <1>8 DEF Queue, Handle
<1>9. ASSUME NEW s \in Side, NEW c \in Conn, Replace(s, c) PROVE ServesInstalled' /\ Wakeful'
  BY <1>9 DEF Replace, Handle
<1>10. ASSUME NEW s \in Side, NEW c \in Conn, NotifyOne(s, c)
       PROVE  ServesInstalled' /\ Wakeful'
  BY <1>10 DEF NotifyOne, Handle
<1>11. ASSUME NEW s \in Side, Open(s) PROVE ServesInstalled' /\ Wakeful'
  BY <1>11 DEF Open
<1>12. ASSUME NEW s \in Side, Opened(s) PROVE ServesInstalled' /\ Wakeful'
  BY <1>12 DEF Opened
<1>13. ASSUME NEW s \in Side, NEW c \in Conn, Finished(s, c)
       PROVE  ServesInstalled' /\ Wakeful'
  BY <1>13 DEF Finished
<1>14. ASSUME NEW c \in Conn, Lose(c) PROVE ServesInstalled' /\ Wakeful'
  BY <1>14 DEF Lose
<1>15. ASSUME NEW s \in Side, NEW c \in Conn, End(s, c) PROVE ServesInstalled' /\ Wakeful'
  BY <1>15 DEF End
<1>16. ASSUME NEW s \in Side, NEW c \in Conn, Refuse(s, c)
       PROVE  ServesInstalled' /\ Wakeful'
  BY <1>16 DEF Refuse, Tasks, NoTask
<1>17. ASSUME NEW s \in Side, Broadcast(s) PROVE ServesInstalled' /\ Wakeful'
  BY <1>17 DEF Broadcast, Announce
<1>18. ASSUME NEW s \in Side, AskRemoval(s) PROVE ServesInstalled' /\ Wakeful'
  BY <1>18 DEF AskRemoval
<1>19. ASSUME NEW s \in Side, Remove(s) PROVE ServesInstalled' /\ Wakeful'
  BY <1>19 DEF Remove
<1>20. ASSUME NEW s \in Side, Take(s) PROVE ServesInstalled' /\ Wakeful'
  BY <1>20 DEF Take
<1>21. CASE UNCHANGED vars
  BY <1>21 DEF vars
<1>22. ASSUME NEW s \in Side, Tell(s) PROVE ServesInstalled' /\ Wakeful'
  BY <1>22 DEF Tell, Goto
<1>23. ASSUME NEW s \in Side, Told(s) PROVE ServesInstalled' /\ Wakeful'
  BY <1>23 DEF Told, Goto
<1>24. ASSUME NEW s \in Side, NEW c \in Conn, TellPeer(s, c) PROVE ServesInstalled' /\ Wakeful'
  BY <1>24 DEF TellPeer, Handle
<1>25. ASSUME NEW s \in Side, NEW c \in Conn, ToldPeer(s, c) PROVE ServesInstalled' /\ Wakeful'
  BY <1>25 DEF ToldPeer, NoTask
<1> QED
  BY <1>1, <1>2, <1>3, <1>4, <1>5, <1>6, <1>7, <1>8, <1>9, <1>10, <1>11, <1>12,
     <1>13, <1>14, <1>15, <1>16, <1>17, <1>18, <1>19, <1>20, <1>21, <1>22,
     <1>23, <1>24, <1>25
  DEF Next, Loop, Accept

(* The inductive invariant holds throughout peer_connection_loop.              *)
THEOREM LinkInvariance == Safety => []LinkInv
<1>1. LinkInv /\ [Next]_vars => LinkInv'
  BY TypeStep, ServeStep DEF LinkInv
<1> QED
  BY TypeInit, <1>1, PTL DEF Safety

(* A loop has a connection at hand exactly when it serves it or installs it.   *)
THEOREM LinksTyped == Safety => []TypeOK
BY LinkInvariance, PTL DEF LinkInv

(* handle_connection closes what it replaces: no loop serves a connection that *)
(* works while another is installed.                                           *)
THEOREM LinksServeInstalled == Safety => []ServesInstalled
BY LinkInvariance, PTL DEF LinkInv

(* conn_notify keeps a permit: no loop waits beside a connection that works    *)
(* and that nobody will tell it of.                                            *)
THEOREM LinksMissNothing == Safety => []NoMissedConnection
<1>1. LinkInv => NoMissedConnection
  BY DEF LinkInv, Wakeful, Announced, NoMissedConnection
<1> QED
  BY LinkInvariance, <1>1, PTL
-----------------------------------------------------------------------------
(* Removals.                                                                   *)

(* Only a side that dials waits for a dial or installs one.  Who is out of the *)
(* map is referred to by no task, so that none of them comes to install.       *)
Parted ==
  \A s \in Side :
    /\ loop[s] \in {"backoff", "dial", "install"} => s \in dial
    /\ Removed(s) => ~Referred(s)

LEMMA PartedStep == TypeOK /\ Parted /\ [Next]_vars => Parted'
<1> SUFFICES ASSUME TypeOK, Parted, [Next]_vars PROVE Parted'
  OBVIOUS
<1> USE LinksAssumption
    DEF TypeOK, Parted, Removed, Referred, Handling, setup, guards, tasks
<1>1. ASSUME NEW s \in Side, Top(s) PROVE Parted'
  BY <1>1 DEF Top, Goto, Idle
<1>2. ASSUME NEW s \in Side, Disconnected(s) PROVE Parted'
  BY <1>2 DEF Disconnected, Goto, Idle
<1>3. ASSUME NEW s \in Side, Notified(s) PROVE Parted'
  BY <1>3 DEF Notified, Goto
<1>4. ASSUME NEW s \in Side, Slept(s) PROVE Parted'
  BY <1>4 DEF Slept, Goto
<1>5. ASSUME NEW s \in Side, Connected(s) PROVE Parted'
  <2> DEFINE c == CHOOSE k \in Gone : TRUE
  <2>1. c \in Conn
    BY <1>5, Fresh DEF Connected
  <2>2. \A k \in Conn : task'[k] = IF k = c THEN [side |-> Other(s), step |-> "accepted"]
                                   ELSE task[k]
    BY <1>5, <2>1 DEF Connected, Handle
  <2> HIDE DEF c
  <2> QED
    BY <1>5, <2>2 DEF Connected, Goto
<1>6. ASSUME NEW s \in Side, Unreachable(s) PROVE Parted'
  BY <1>6 DEF Unreachable, Goto, Idle
<1>7. ASSUME NEW s \in Side, Install(s) PROVE Parted'
  BY <1>7 DEF Install, Goto
<1>8. ASSUME NEW s \in Side, NEW c \in Conn, Queue(s, c) PROVE Parted'
  BY <1>8 DEF Queue, Handle
<1>9. ASSUME NEW s \in Side, NEW c \in Conn, Replace(s, c) PROVE Parted'
  BY <1>9 DEF Replace, Handle
<1>10. ASSUME NEW s \in Side, NEW c \in Conn, NotifyOne(s, c) PROVE Parted'
  BY <1>10 DEF NotifyOne, Handle
<1>11. ASSUME NEW s \in Side, Open(s) PROVE Parted'
  BY <1>11 DEF Open
<1>12. ASSUME NEW s \in Side, Opened(s) PROVE Parted'
  BY <1>12 DEF Opened
<1>13. ASSUME NEW s \in Side, NEW c \in Conn, Finished(s, c) PROVE Parted'
  BY <1>13 DEF Finished
<1>14. ASSUME NEW c \in Conn, Lose(c) PROVE Parted'
  BY <1>14 DEF Lose
<1>15. ASSUME NEW s \in Side, NEW c \in Conn, End(s, c) PROVE Parted'
  BY <1>15 DEF End
<1>16. ASSUME NEW s \in Side, NEW c \in Conn, Refuse(s, c) PROVE Parted'
  BY <1>16 DEF Refuse, NoTask
<1>17. ASSUME NEW s \in Side, Broadcast(s) PROVE Parted'
  BY <1>17 DEF Broadcast, Announce
<1>18. ASSUME NEW s \in Side, AskRemoval(s) PROVE Parted'
  BY <1>18 DEF AskRemoval
<1>19. ASSUME NEW s \in Side, Remove(s) PROVE Parted'
  BY <1>19 DEF Remove
<1>20. ASSUME NEW s \in Side, Take(s) PROVE Parted'
  BY <1>20 DEF Take
<1>21. CASE UNCHANGED vars
  BY <1>21 DEF vars
<1>22. ASSUME NEW s \in Side, Tell(s) PROVE Parted'
  BY <1>22 DEF Tell, Goto
<1>23. ASSUME NEW s \in Side, Told(s) PROVE Parted'
  BY <1>23 DEF Told, Goto
<1>24. ASSUME NEW s \in Side, NEW c \in Conn, TellPeer(s, c) PROVE Parted'
  BY <1>24 DEF TellPeer, Handle
<1>25. ASSUME NEW s \in Side, NEW c \in Conn, ToldPeer(s, c) PROVE Parted'
  BY <1>25 DEF ToldPeer, NoTask
<1> QED
  BY <1>1, <1>2, <1>3, <1>4, <1>5, <1>6, <1>7, <1>8, <1>9, <1>10, <1>11, <1>12,
     <1>13, <1>14, <1>15, <1>16, <1>17, <1>18, <1>19, <1>20, <1>21, <1>22,
     <1>23, <1>24, <1>25
  DEF Next, Loop, Accept

(* Of the steps that store a connection, Install is for a side that dials and  *)
(* Replace for one that still has the peer.                                    *)
LEMMA UnlinkedStep ==
  ASSUME TypeOK, Parted, RemovedIsUnlinked, [Next]_vars PROVE RemovedIsUnlinked'
<1> USE DEF TypeOK, Parted, RemovedIsUnlinked, Removed, Referred, setup, guards, tasks
<1>1. CASE UNCHANGED <<dial, connection, removal>>
  BY <1>1
<1>2. ASSUME NEW s \in Side, Install(s) PROVE RemovedIsUnlinked'
  BY <1>2 DEF Install
<1>3. ASSUME NEW s \in Side, NEW c \in Conn, Replace(s, c) PROVE RemovedIsUnlinked'
  BY <1>3 DEF Replace
<1>4. ASSUME NEW s \in Side, AskRemoval(s) PROVE RemovedIsUnlinked'
  BY <1>4 DEF AskRemoval
<1>5. ASSUME NEW s \in Side, Remove(s) PROVE RemovedIsUnlinked'
  BY <1>5 DEF Remove
<1>6. ASSUME NEW s \in Side, Take(s) PROVE RemovedIsUnlinked'
  BY <1>6 DEF Take
<1> QED
  BY <1>1, <1>2, <1>3, <1>4, <1>5, <1>6
  DEF Next, Loop, Accept, vars, Top, Disconnected, Notified, Slept, Connected, Unreachable,
      Tell, Told, Queue, Refuse, NotifyOne, TellPeer, ToldPeer, Open, Opened, Broadcast, Lose, End, Finished

LEMMA PartedInvariant == Safety => [](TypeOK /\ Parted /\ RemovedIsUnlinked)
<1>1. Init => TypeOK /\ Parted /\ RemovedIsUnlinked
  <2> SUFFICES ASSUME Init PROVE Parted /\ RemovedIsUnlinked
    BY TypeInit DEF LinkInv
  <2> QED
    BY DEF Init, Parted, Removed, RemovedIsUnlinked
<1> QED
  BY <1>1, TypeStep, PartedStep, UnlinkedStep, PTL DEF Safety

(* A side that does not dial has no connection any more to a peer that it has  *)
(* removed, however late one comes in: the task that would install it refers   *)
(* to the entry of the map, which remove_peer waits for.                       *)
THEOREM LinksPart == Safety => []RemovedIsUnlinked
BY PartedInvariant, PTL

(* What remove_peer still waits for, once the peer is out of the map and the   *)
(* bind lock is held, is a task that opens a tunnel or one that announces to a *)
(* connection that it has just installed: a broadcast is over by then.         *)
RemovalWaits ==
  \A s \in Side : Removed(s) /\ ~Writable(s) => s \in reading \/ Telling(s)

THEOREM RemovalPastTheMap == Safety => []RemovalWaits
<1>1. TypeOK /\ Parted => RemovalWaits
  BY DEF Parted, Referred, Writable, RemovalWaits
<1> QED
  BY <1>1, PartedInvariant, PTL
=============================================================================
