----------------------------- MODULE Announcements -----------------------------
(* What daemons tell each other on a connection: the enrollment token, and the *)
(* ports that one grants to the other.  An operator's daemon is dialled by     *)
(* workloads, which dial again whenever their connection has ended.            *)
(*                                                                             *)
(* A message is a uni stream that a task of its own reads and applies, so that *)
(* messages overtake each other, and one that was read outlives its connection.*)
(* A list of ports is known by the number of the grants it was read from, and  *)
(* 0 stands for none; equal lists that are under way on a connection are one.  *)
(*                                                                             *)
(* Who is evicted, and what becomes of listeners, is in Bindings.              *)
EXTENDS Naturals

CONSTANTS Workload,   \* keys of those that dial
          Token,
          Presents,   \* the token each is started with, or None
          Conn,       \* bound: connections that exist at a time
          None,
          Enroll,     \* the message that carries the token
          Last,       \* bound: the last number of a list
          Setups      \* who dials, is pinned or may be on request, the tokens and
                      \* grants at first, what fails

(* "up" is what a workload tells the operator, "down" the other way.           *)
Way == {"up", "down"}
List == 0..Last

ASSUME AnnouncementsAssumption ==
  /\ Last \in Nat
  /\ Presents \in [Workload -> Token \cup {None}]
  /\ None \notin Workload \cup Token \cup Conn \cup List
  /\ None \notin [list: List, newest: List]
  /\ Enroll \notin List
  /\ Setups \subseteq [dials: SUBSET Workload, pins: SUBSET Workload,
                       vouches: SUBSET Workload, token: [Token -> {"unminted", "expired"}],
                       granted: [Workload \X Way -> List], faults: Nat]

VARIABLES
  token,    \* each token: "unminted", "pending", or what has become of it
  admits,   \* ledger: the keys that each token let in
  known, pins,   \* the operator's peers, and its pin file
  vouch,    \* what has become of the last Pin request for a key
  link,     \* Peer.connection of the operator, None if it has ended
  pc,       \* where add_peer and the connection loop of a workload are
  conn,     \* Peer.connection of the workload, None if it has ended
  silent,   \* ledger: workloads that have begun no announcement
  of, serve, early, flight,
            \* of each connection: who has dialled, the step of the operator's
            \* task, its early_ports, the messages under way
  granted,  \* the number of the ports granted, for each peer and way
  due, sending,  \* announcements that have not read the grants, or have
  heard,    \* Peer.exposed_ports of the listener
  newest,   \* ledger: the newest list that it has heard
  faults    \* how many there still may be

tokens == <<token, admits>>
operator == <<known, pins, vouch, link>>
dialler == <<pc, conn, silent>>
wire == <<of, serve, early, flight>>
lists == <<granted, due, sending, heard, newest>>
vars == <<tokens, operator, dialler, wire, lists, faults>>

Nobody == [w \in Workload |-> None]
Nothing == [x \in Workload \X Way |-> {}]
Unheard == [x \in Workload \X Way |-> 0]

Init ==
  /\ \E chosen \in Setups : /\ pins = chosen.pins /\ known = chosen.pins
                            /\ token = chosen.token
                            /\ vouch = [w \in Workload |->
                                          IF w \in chosen.vouches THEN "unasked" ELSE "never"]
                            /\ granted = chosen.granted /\ faults = chosen.faults
                            /\ pc = [w \in Workload |->
                                       IF w \in chosen.dials THEN "out" ELSE "absent"]
  /\ admits = [t \in Token |-> {}]
  /\ link = Nobody /\ conn = Nobody
  /\ silent = {}
  /\ of = [c \in Conn |-> None] /\ serve = [c \in Conn |-> "done"]
  /\ early = [c \in Conn |-> None]
  /\ flight = [c \in Conn |-> [way \in Way |-> {}]]
  /\ due = {} /\ sending = Nothing
  /\ heard = Unheard /\ newest = Unheard

Fault == faults > 0 /\ faults' = faults - 1

Newer(list, other) == IF list > other THEN list ELSE other

(* Whether a side has not seen the end of a connection.                        *)
HeldUp(c) == \E w \in Workload : conn[w] = c
HeldDown(c) == serve[c] # "done" \/ \E w \in Workload : link[w] = c

(* Connections that nobody refers to any more.                                 *)
Unused(c) ==
  ~HeldUp(c) /\ ~HeldDown(c) /\ \A way \in Way : flight[c][way] = {}

(* When a listener sees the end of a connection, what it has not read is lost, *)
(* and lists that it has read are applied all the same.                        *)
Lost(c, way) ==
  \E read \in SUBSET (flight[c][way] \ {Enroll}) :
    flight' = [flight EXCEPT ![c][way] = read]

-----------------------------------------------------------------------------
(* Tokens.                                                                     *)

Mint(t) ==
  /\ token[t] = "unminted"
  /\ token' = [token EXCEPT ![t] = "pending"]
  /\ UNCHANGED <<admits, operator, dialler, wire, lists, faults>>

(* Its time is over; the next claim drops it.                                  *)
Expire(t) ==
  /\ token[t] = "pending"
  /\ token' = [token EXCEPT ![t] = "expired"]
  /\ UNCHANGED <<admits, operator, dialler, wire, lists, faults>>

-----------------------------------------------------------------------------
(* The workload's side: add_peer and peer_connection_loop.                     *)

Greeting(w) == IF Presents[w] = None THEN {} ELSE {Enroll}

Dialed(w, c, messages) ==
  /\ Unused(c)
  /\ conn' = [conn EXCEPT ![w] = c]
  /\ of' = [of EXCEPT ![c] = w] /\ serve' = [serve EXCEPT ![c] = "new"]
  /\ flight' = [flight EXCEPT ![c]["up"] = messages]
  /\ UNCHANGED early

(* add_peer: for a client's request, which is not followed by an announcement, *)
(* or when the daemon starts with -a, which is.                                *)
AddPeer(w, c, request) ==
  /\ pc[w] = "out"
  /\ Presents[w] # None => token[Presents[w]] # "unminted"
  /\ Dialed(w, c, Greeting(w))
  /\ pc' = [pc EXCEPT ![w] = "up"]
  /\ IF request THEN silent' = silent \cup {w} /\ UNCHANGED due
     ELSE due' = due \cup {<<w, "up">>} /\ UNCHANGED silent
  /\ UNCHANGED <<tokens, operator, granted, sending, heard, newest, faults>>

(* The loop has dialled again and installs the connection.                     *)
Redial(w, c) ==
  /\ pc[w] = "up" /\ conn[w] = None
  /\ Dialed(w, c, {})
  /\ pc' = [pc EXCEPT ![w] = "present"]
  /\ UNCHANGED <<tokens, operator, silent, lists, faults>>

(* Mutant of Greet: the token is sent with the first connection only.          *)
GreetOnce(w) == UNCHANGED flight

Greet(w) ==
  IF conn[w] = None THEN UNCHANGED flight
  ELSE flight' = [flight EXCEPT ![conn[w]]["up"] = @ \cup Greeting(w)]

(* It presents the token again, and announces.                                 *)
Present(w) ==
  /\ pc[w] = "present"
  /\ Greet(w)
  /\ pc' = [pc EXCEPT ![w] = "up"] /\ silent' = silent \ {w}
  /\ due' = due \cup {<<w, "up">>}
  /\ UNCHANGED <<tokens, operator, conn, of, serve, early, granted, sending, heard, newest,
                 faults>>

-----------------------------------------------------------------------------
(* The operator's side: handle_connection and handle_enrollment.               *)

Goto(c, step) == serve' = [serve EXCEPT ![c] = step]

(* Mutant of Refuse: the connection is left open.                              *)
RefuseOpen(c) == Goto(c, "refused") /\ UNCHANGED <<early, of, flight>>

(* The operator closes the connection, or drops its last handle.               *)
Refuse(c) ==
  /\ Goto(c, "done")
  /\ early' = [early EXCEPT ![c] = None]
  /\ flight' = [flight EXCEPT ![c]["up"] = {}]
  /\ UNCHANGED of

(* A known peer has its connection replaced, which closes the old one, and is  *)
(* told its ports; anybody else has to enroll.                                 *)
Accept(c) ==
  /\ serve[c] = "new"
  /\ LET w == of[c]
     IN  IF w \in known
         THEN /\ link' = [link EXCEPT ![w] = c]
              /\ IF link[w] # None THEN Lost(link[w], "up") ELSE UNCHANGED flight
              /\ Goto(c, "done")
              /\ due' = due \cup {<<w, "down">>}
         ELSE Goto(c, "enrolling") /\ UNCHANGED <<link, flight, due>>
  /\ UNCHANGED <<tokens, known, pins, vouch, dialler, of, early, granted, sending, heard,
                 newest, faults>>

(* A list that comes before the token is kept; the last one counts.            *)
Early(c) ==
  /\ serve[c] = "enrolling"
  /\ \E list \in flight[c]["up"] \ {Enroll} :
       /\ early' = [early EXCEPT ![c] =
                      [list |-> list,
                       newest |-> IF @ = None THEN list ELSE Newer(list, @.newest)]]
       /\ flight' = [flight EXCEPT ![c]["up"] = @ \ {list}]
  /\ UNCHANGED <<tokens, operator, dialler, of, serve, lists, faults>>

(* Mutant of Spend: the token stays in the table.                              *)
SpendNothing(t) == UNCHANGED token

Spend(t) == token' = [token EXCEPT ![t] = "spent"]

(* Mutant of Claim: a token that is not there is put up with.                  *)
ClaimAny(c) ==
  /\ serve[c] = "enrolling" /\ Goto(c, "claimed")
  /\ UNCHANGED <<tokens, operator, dialler, of, early, flight, lists, faults>>

(* The token is claimed, which spends it, or is not there to be claimed.       *)
Claim(c) ==
  /\ serve[c] = "enrolling" /\ Enroll \in flight[c]["up"]
  /\ LET t == Presents[of[c]]
     IN  IF token[t] = "pending"
         THEN /\ Spend(t)
              /\ admits' = [admits EXCEPT ![t] = @ \cup {of[c]}]
              /\ flight' = [flight EXCEPT ![c]["up"] = @ \ {Enroll}]
              /\ Goto(c, "claimed")
              /\ UNCHANGED <<of, early>>
         ELSE Refuse(c) /\ UNCHANGED tokens
  /\ UNCHANGED <<operator, dialler, lists, faults>>

(* No token in time, which fails nobody who has none, or the connection ends   *)
(* before one.                                                                 *)
InVain(c) == serve[c] = "enrolling" /\ (~HeldUp(c) \/ Presents[of[c]] = None)

Unenrolled(c) ==
  /\ serve[c] = "enrolling"
  /\ IF InVain(c) THEN UNCHANGED faults ELSE Fault
  /\ Refuse(c)
  /\ UNCHANGED <<tokens, operator, dialler, lists>>

(* After the claim: a port of the early list is held by a live peer, or the    *)
(* pin cannot be saved.  The token stays spent.                                *)
Rejected(c) ==
  /\ serve[c] = "claimed" /\ Fault
  /\ token' = [token EXCEPT ![Presents[of[c]]] = "wasted"]
  /\ Refuse(c)
  /\ UNCHANGED <<admits, operator, dialler, lists>>

(* Mutant of Pin: a pin that cannot be saved is put up with.                   *)
PinOrNot(c) ==
  /\ serve[c] = "claimed"
  /\ \/ pins' = pins \cup {of[c]} /\ UNCHANGED faults
     \/ UNCHANGED pins /\ Fault
  /\ Goto(c, "pinned")
  /\ UNCHANGED <<tokens, known, vouch, link, dialler, of, early, flight, lists>>

Pin(c) ==
  /\ serve[c] = "claimed"
  /\ pins' = pins \cup {of[c]}
  /\ Goto(c, "pinned")
  /\ UNCHANGED <<tokens, known, vouch, link, dialler, of, early, flight, lists, faults>>

(* A new Peer with this connection, served from now on.                        *)
Insert(c) ==
  /\ serve[c] = "pinned"
  /\ known' = known \cup {of[c]}
  /\ link' = [link EXCEPT ![of[c]] = c]
  /\ Goto(c, "admitted")
  /\ UNCHANGED <<tokens, pins, vouch, dialler, of, early, flight, lists, faults>>

(* A list is applied: the listener's exposed_ports, and its bindings.          *)
Hear(x, list, new) ==
  /\ heard' = [heard EXCEPT ![x] = list]
  /\ newest' = [newest EXCEPT ![x] = Newer(new, @)]

(* Mutant of ApplyEarly: a list is applied only if it comes after the token.   *)
DropEarly(c) == UNCHANGED <<heard, newest>>

ApplyEarly(c) ==
  IF early[c] = None THEN UNCHANGED <<heard, newest>>
  ELSE Hear(<<of[c], "up">>, early[c].list, early[c].newest)

(* The early list is applied, and the new peer is told its ports.              *)
Welcome(c) ==
  /\ serve[c] = "admitted"
  /\ ApplyEarly(c)
  /\ early' = [early EXCEPT ![c] = None]
  /\ due' = due \cup {<<of[c], "down">>}
  /\ Goto(c, "done")
  /\ UNCHANGED <<tokens, operator, dialler, of, flight, granted, sending, faults>>

-----------------------------------------------------------------------------
(* Pinning by request, with no token: pin_peer.                                *)

(* The peer is known first, unless it was; a key that comes with a token is    *)
(* pinned by request only once it has enrolled.                                *)
AddPinned(w) ==
  /\ vouch[w] \notin {"never", "pending"}
  /\ w \in known \/ Presents[w] = None
  /\ known' = known \cup {w}
  /\ vouch' = [vouch EXCEPT ![w] = "pending"]
  /\ UNCHANGED <<tokens, pins, link, dialler, wire, lists, faults>>

(* The pin is saved then, or the request fails and the peer stays known.       *)
SavePin(w) ==
  /\ vouch[w] = "pending"
  /\ \/ /\ pins' = pins \cup {w} /\ UNCHANGED faults
        /\ vouch' = [vouch EXCEPT ![w] = "kept"]
     \/ /\ UNCHANGED pins /\ Fault
        /\ vouch' = [vouch EXCEPT ![w] = "failed"]
  /\ UNCHANGED <<tokens, known, link, dialler, wire, lists>>

-----------------------------------------------------------------------------
(* Announcing: broadcast_grants and send_exposed_ports_to_peer.                *)

(* A request changes what is granted, and then tells the peer.                 *)
Change(x) ==
  /\ granted[x] < Last
  /\ granted' = [granted EXCEPT ![x] = @ + 1]
  /\ due' = due \cup {x}
  /\ UNCHANGED <<tokens, operator, dialler, wire, sending, heard, newest, faults>>

Dialling == {"up", "present"}
IsPeer(x) == IF x[2] = "up" THEN pc[x[1]] \in Dialling ELSE x[1] \in known
Sender(x) == IF x[2] = "up" THEN conn[x[1]] ELSE link[x[1]]

(* The grants are read, for a peer that is in the map.                         *)
Read(x) ==
  /\ x \in due
  /\ due' = due \ {x}
  /\ sending' = IF IsPeer(x) THEN [sending EXCEPT ![x] = @ \cup {granted[x]}] ELSE sending
  /\ silent' = IF x[2] = "up" THEN silent \ {x[1]} ELSE silent
  /\ UNCHANGED <<tokens, operator, pc, conn, wire, granted, heard, newest, faults>>

(* They go out on what is the peer's connection by now, if there is one; what  *)
(* the other side has given up is lost.                                        *)
Send(x, list) ==
  /\ list \in sending[x]
  /\ sending' = [sending EXCEPT ![x] = @ \ {list}]
  /\ LET c == Sender(x)
     IN  IF c # None /\ (IF x[2] = "up" THEN HeldDown(c) ELSE HeldUp(c))
         THEN flight' = [flight EXCEPT ![c][x[2]] = @ \cup {list}]
         ELSE UNCHANGED flight
  /\ UNCHANGED <<tokens, operator, dialler, of, serve, early, granted, due, heard, newest,
                 faults>>

(* The operator's loop serves a connection once its task has let the peer in.  *)
Served(c, way) == way = "up" => serve[c] \in {"done", "admitted"}

(* run_connection gives each stream to a task, whichever task is the first to  *)
(* reach update_peer_ports; a known peer's token is ignored.                   *)
Apply(c, way) ==
  /\ Served(c, way)
  /\ \E message \in flight[c][way] :
       /\ flight' = [flight EXCEPT ![c][way] = @ \ {message}]
       /\ IF message = Enroll THEN UNCHANGED <<heard, newest>>
          ELSE Hear(<<of[c], way>>, message, message)
  /\ UNCHANGED <<tokens, operator, dialler, of, serve, early, granted, due, sending, faults>>

-----------------------------------------------------------------------------
(* The network and the processes.                                              *)

(* A daemon notices the end of a connection, by the other's close or, after a  *)
(* fault, by the idle timeout.                                                 *)
NoticeUp(w, c) ==
  /\ conn[w] = c
  /\ IF HeldDown(c) THEN Fault ELSE UNCHANGED faults
  /\ conn' = [conn EXCEPT ![w] = None]
  /\ Lost(c, "down")
  /\ UNCHANGED <<tokens, operator, pc, silent, of, serve, early, lists>>

NoticeDown(w, c) ==
  /\ link[w] = c /\ serve[c] = "done"
  /\ IF HeldUp(c) THEN Fault ELSE UNCHANGED faults
  /\ link' = [link EXCEPT ![w] = None]
  /\ Lost(c, "up")
  /\ UNCHANGED <<tokens, known, pins, vouch, dialler, of, serve, early, lists>>

(* The operator's daemon dies and starts again: "a daemon restart voids" the   *)
(* tokens, and its peers are those of the pin file.                            *)
Restart ==
  /\ Fault
  /\ token' = [t \in Token |->
                 IF token[t] = "pending" THEN "expired"
                 ELSE IF token[t] = "spent" /\ admits[t] \cap pins = {} THEN "wasted"
                 ELSE token[t]]
  /\ known' = pins /\ link' = Nobody
  /\ vouch' = [w \in Workload |-> IF vouch[w] = "pending" THEN "failed" ELSE vouch[w]]
  /\ serve' = [c \in Conn |-> "done"] /\ early' = [c \in Conn |-> None]
  /\ flight' = [c \in Conn |-> [flight[c] EXCEPT !["up"] = {}]]
  /\ due' = {x \in due : x[2] = "up"}
  /\ sending' = [x \in DOMAIN sending |-> IF x[2] = "up" THEN sending[x] ELSE {}]
  /\ heard' = [x \in DOMAIN heard |-> IF x[2] = "up" THEN 0 ELSE heard[x]]
  /\ newest' = [x \in DOMAIN newest |-> IF x[2] = "up" THEN 0 ELSE newest[x]]
  /\ UNCHANGED <<admits, pins, dialler, of, granted>>

-----------------------------------------------------------------------------
Dial(w) == Present(w) \/ \E c \in Conn : Redial(w, c)

Enrollment(c) ==
  \/ Early(c) \/ Claim(c) \/ Pin(c) \/ Insert(c) \/ Welcome(c)
  \/ InVain(c) /\ Unenrolled(c)

Announce(x) == Read(x) \/ \E list \in sending[x] : Send(x, list)

Ends(c) == \E w \in Workload : \/ ~HeldDown(c) /\ NoticeUp(w, c)
                               \/ ~HeldUp(c) /\ NoticeDown(w, c)

Fails(c) ==
  \/ Unenrolled(c) \/ Rejected(c)
  \/ \E w \in Workload : NoticeUp(w, c) \/ NoticeDown(w, c)

Next ==
  \/ \E t \in Token : Mint(t) \/ Expire(t)
  \/ \E w \in Workload, c \in Conn, request \in BOOLEAN : AddPeer(w, c, request)
  \/ \E w \in Workload : Dial(w) \/ AddPinned(w) \/ SavePin(w)
  \/ \E c \in Conn : Accept(c) \/ Enrollment(c) \/ Ends(c) \/ Fails(c)
  \/ \E x \in Workload \X Way : Change(x) \/ Announce(x)
  \/ \E c \in Conn, way \in Way : Apply(c, way)
  \/ Restart

Safety == Init /\ [][Next]_vars

(* The runtime runs every task, a stream arrives or its connection ends, and a *)
(* workload's backoff is over in time.                                         *)
Fairness ==
  /\ \A w \in Workload : WF_vars(Dial(w))
  /\ \A c \in Conn : WF_vars(Accept(c)) /\ WF_vars(Enrollment(c)) /\ WF_vars(Ends(c))
  /\ \A x \in Workload \X Way : WF_vars(Announce(x))
  /\ \A c \in Conn, way \in Way : WF_vars(Apply(c, way))

Spec == Safety /\ Fairness

-----------------------------------------------------------------------------
(* Properties.                                                                 *)

Steps == {"done", "new", "enrolling", "claimed", "pinned", "admitted"}

(* Every variable keeps its type; a connection belongs to who has dialled it,  *)
(* and a peer with a connection is known.                                      *)
TypeOK ==
  /\ token \in [Token -> {"unminted", "pending", "spent", "expired", "wasted"}]
  /\ admits \in [Token -> SUBSET Workload]
  /\ known \subseteq Workload /\ pins \subseteq Workload
  /\ vouch \in [Workload -> {"never", "unasked", "pending", "kept", "failed"}]
  /\ link \in [Workload -> Conn \cup {None}] /\ conn \in [Workload -> Conn \cup {None}]
  /\ pc \in [Workload -> {"absent", "out"} \cup Dialling] /\ silent \subseteq Workload
  /\ of \in [Conn -> Workload \cup {None}] /\ serve \in [Conn -> Steps]
  /\ early \in [Conn -> [list: List, newest: List] \cup {None}]
  /\ flight \in [Conn -> [Way -> SUBSET (List \cup {Enroll})]]
  /\ granted \in [Workload \X Way -> List] /\ due \subseteq Workload \X Way
  /\ sending \in [Workload \X Way -> SUBSET List]
  /\ heard \in [Workload \X Way -> List] /\ newest \in [Workload \X Way -> List]
  /\ faults \in Nat
  /\ \A w \in Workload : /\ link[w] # None => of[link[w]] = w /\ w \in known
                         /\ conn[w] # None => of[conn[w]] = w /\ pc[w] \in Dialling
  /\ \A c \in Conn : serve[c] # "done" => of[c] # None

(* "A valid claim pins its key ... and admits it" (handle_enrollment), and     *)
(* "pins persist across restarts, so a reboot does not orphan enrolled         *)
(* workloads" (README): a peer that is served, or has been told its ports, is  *)
(* in the pin file, whatever failed or stopped in between.  A Pin request lets *)
(* its key in before it writes the pin; one that the client was told has       *)
(* failed, or that a restart has cut off, may have let it in for that run.     *)
AdmittedIsPinned ==
  \A w \in Workload : w \in known \/ newest[<<w, "down">>] > 0 =>
                       w \in pins \/ vouch[w] \in {"pending", "failed"}

(* "Single use" (claim): whoever else has been given the token, and however    *)
(* often its connection fails after the claim, a token lets one key in.        *)
TokenAdmitsOne == \A t \in Token : \A v, w \in admits[t] : v = w

(* "A valid claim pins the peer's key", and "`pin` authorizes a key directly"  *)
(* (README): a key comes into the pin file by a Pin request that names it, or  *)
(* when the token that it presents has let it in and can be claimed no more,   *)
(* in whichever order its connections are served, and however often the        *)
(* operator restarts in between.                                               *)
PinnedOnPurpose ==
  [][\A w \in pins' \ pins :
       \/ vouch[w] = "pending"
       \/ /\ Presents[w] # None
          /\ w \in admits[Presents[w]] /\ token[Presents[w]] = "spent"]_vars

(* A workload and the operator have the same connection, and nothing that the  *)
(* one has to tell the other is on its way.                                    *)
Linked(w) == pc[w] = "up" /\ conn[w] # None /\ conn[w] = link[w]
Settled(x) ==
  /\ Linked(x[1]) /\ x \notin due /\ sending[x] = {}
  /\ \A c \in Conn : of[c] = x[1] => serve[c] = "done" /\ flight[c][x[2]] = {}

(* "Each peer is announced only the ports granted to it" (README), "always     *)
(* sent, even when empty, so a revocation tears down the peer's binding"       *)
(* (peer.rs): once all is quiet, the listener has been told of the last        *)
(* change, whatever was lost with a connection, came before the enrollment, or *)
(* was read before a change and sent after it.  Lists may have overtaken it.   *)
(* That is, unless a peer was added by a request, which announces nothing.     *)
Informed ==
  \A x \in Workload \X Way :
    Settled(x) /\ ~(x[2] = "up" /\ x[1] \in silent) => newest[x] = granted[x]

(* "It ignores the message once we are pinned", and until then the token is    *)
(* presented "on connect and on every reconnect" (add_peer): a workload gets   *)
(* in, and stays, unless its token ran out, let another in, or was spent on an *)
(* enrollment that was refused; without a token, once it is pinned.            *)
TokenGone(w) ==
  Presents[w] # None => \/ token[Presents[w]] \in {"expired", "wasted"}
                        \/ admits[Presents[w]] \notin {{}, {w}}
Joins ==
  \A w \in Workload :
    <>[](pc[w] \in Dialling => Linked(w) \/ (w \notin known /\ TokenGone(w)))
=============================================================================
