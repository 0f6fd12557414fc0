-------------------------- MODULE AnnouncementsProofs --------------------------
(* A peer that is known, or has been told its ports, is in the pin file or was *)
(* let in by a request to pin it, a token lets one key in, and the last change *)
(* is told: handle_enrollment, Enrollment::claim, pin_peer and announcements,  *)
(* with lost connections and restarts, for any workloads and connections.      *)
EXTENDS Announcements, TLAPS

-----------------------------------------------------------------------------
(* Types.                                                                      *)

Values ==
  /\ token \in [Token -> {"unminted", "pending", "spent", "expired", "wasted"}]
  /\ admits \in [Token -> SUBSET Workload]
  /\ known \subseteq Workload /\ pins \subseteq Workload
  /\ vouch \in [Workload -> {"never", "unasked", "pending", "kept", "failed"}]
  /\ pc \in [Workload -> {"absent", "out"} \cup Dialling] /\ silent \subseteq Workload
  /\ granted \in [Workload \X Way -> List] /\ due \subseteq Workload \X Way
  /\ sending \in [Workload \X Way -> SUBSET List]
  /\ heard \in [Workload \X Way -> List] /\ newest \in [Workload \X Way -> List]
  /\ faults \in Nat

Connections ==
  /\ link \in [Workload -> Conn \cup {None}] /\ conn \in [Workload -> Conn \cup {None}]
  /\ of \in [Conn -> Workload \cup {None}] /\ serve \in [Conn -> Steps]
  /\ early \in [Conn -> [list: List, newest: List] \cup {None}]
  /\ flight \in [Conn -> [Way -> SUBSET (List \cup {Enroll})]]

(* A connection belongs to who has dialled it, and a peer that has one is      *)
(* known.                                                                      *)
Owned ==
  /\ \A w \in Workload : /\ link[w] # None => of[link[w]] = w /\ w \in known
                         /\ conn[w] # None => of[conn[w]] = w /\ pc[w] \in Dialling
  /\ \A c \in Conn : serve[c] # "done" => of[c] # None

LEMMA TypeParts == TypeOK <=> Values /\ Connections /\ Owned
BY DEF TypeOK, Values, Connections, Owned

LEMMA TypeInit == Init => TypeOK
<1> SUFFICES ASSUME Init PROVE TypeOK
  OBVIOUS
<1> PICK chosen \in Setups :
      /\ pins = chosen.pins /\ known = chosen.pins /\ token = chosen.token
      /\ vouch = [w \in Workload |-> IF w \in chosen.vouches THEN "unasked" ELSE "never"]
      /\ granted = chosen.granted /\ faults = chosen.faults
      /\ pc = [w \in Workload |-> IF w \in chosen.dials THEN "out" ELSE "absent"]
  BY DEF Init
<1>1. chosen \in [dials: SUBSET Workload, pins: SUBSET Workload,
                  vouches: SUBSET Workload, token: [Token -> {"unminted", "expired"}],
                  granted: [Workload \X Way -> List], faults: Nat]
  BY AnnouncementsAssumption
<1>2. 0 \in List
  BY AnnouncementsAssumption DEF List
<1>3. Values
  <2>1. token \in [Token -> {"unminted", "pending", "spent", "expired", "wasted"}]
    BY <1>1
  <2>2. /\ sending \in [Workload \X Way -> SUBSET List]
        /\ heard \in [Workload \X Way -> List] /\ newest \in [Workload \X Way -> List]
    BY <1>2 DEF Init, Nothing, Unheard
  <2> QED BY <1>1, <2>1, <2>2 DEF Init, Values
<1>4. Connections
  BY DEF Init, Connections, Nobody, Steps
<1>5. Owned
  BY DEF Init, Owned, Nobody
<1> QED BY <1>3, <1>4, <1>5, TypeParts

LEMMA NewerIsList == \A a, b \in List : Newer(a, b) \in List
BY DEF Newer

Messages == List \cup {Enroll}

(* What an update of the messages on the way leaves, and where.                *)
LEMMA FlightPut ==
  ASSUME flight \in [Conn -> [Way -> SUBSET Messages]],
         NEW c, NEW way, NEW messages \in SUBSET Messages
  PROVE  /\ [flight EXCEPT ![c][way] = messages] \in [Conn -> [Way -> SUBSET Messages]]
         /\ \A d \in Conn, v \in Way :
              [flight EXCEPT ![c][way] = messages][d][v] =
                IF d = c /\ v = way THEN messages ELSE flight[d][v]
OBVIOUS

(* What a listener has heard is a list, and the newest is the newer of the two.*)
LEMMA HearTyped ==
  ASSUME Values, NEW x, NEW list \in List, NEW new \in List, Hear(x, list, new)
  PROVE  /\ heard' \in [Workload \X Way -> List] /\ newest' \in [Workload \X Way -> List]
         /\ \A y \in Workload \X Way : y # x => newest'[y] = newest[y]
<1>1. heard' = [heard EXCEPT ![x] = list] /\ newest' = [newest EXCEPT ![x] = Newer(new, newest[x])]
  BY DEF Hear
<1>2. x \in Workload \X Way => Newer(new, newest[x]) \in List
  BY NewerIsList DEF Values
<1> QED BY <1>1, <1>2 DEF Values

LEMMA Enrolling ==
  ASSUME Owned, Connections, NEW c \in Conn, serve[c] # "done"
  PROVE  of[c] \in Workload
BY DEF Owned, Connections

(* The steps that a proof by cases has to look at.                             *)
LEMMA NextCases ==
  ASSUME Next
  PROVE  \/ \E t \in Token : Mint(t) \/ Expire(t)
         \/ \E w \in Workload, c \in Conn, request \in BOOLEAN : AddPeer(w, c, request)
         \/ \E w \in Workload : Present(w) \/ AddPinned(w) \/ SavePin(w)
         \/ \E w \in Workload, c \in Conn : Redial(w, c)
         \/ \E c \in Conn : \/ Accept(c) \/ Early(c) \/ Claim(c) \/ Unenrolled(c)
                           \/ Rejected(c) \/ Pin(c) \/ Insert(c) \/ Welcome(c)
         \/ \E x \in Workload \X Way : Change(x) \/ Read(x)
         \/ \E x \in Workload \X Way : \E list \in sending[x] : Send(x, list)
         \/ \E c \in Conn, way \in Way : Apply(c, way)
         \/ \E w \in Workload, c \in Conn : NoticeUp(w, c) \/ NoticeDown(w, c)
         \/ Restart
<1>1. ASSUME NEW c \in Conn, Enrollment(c) \/ Fails(c) \/ Ends(c)
      PROVE  \/ Early(c) \/ Claim(c) \/ Unenrolled(c) \/ Rejected(c) \/ Pin(c) \/ Insert(c)
             \/ Welcome(c)
             \/ \E w \in Workload : NoticeUp(w, c) \/ NoticeDown(w, c)
  BY <1>1 DEF Enrollment, Fails, Ends
<1> QED BY <1>1 DEF Next, Dial, Announce

(* Each action, and what it does to the types.                                 *)
LEMMA ValuesStep == TypeOK /\ [Next]_vars => Values'
<1> SUFFICES ASSUME Values, Connections, Owned, [Next]_vars PROVE Values'
  BY TypeParts
<1> USE AnnouncementsAssumption
    DEF Values, tokens, operator, dialler, wire, lists, Fault, Way
<1>1. ASSUME NEW t \in Token, Mint(t) \/ Expire(t) PROVE Values'
  BY <1>1 DEF Mint, Expire
<1>2. ASSUME NEW w \in Workload, NEW c \in Conn, NEW request \in BOOLEAN,
             AddPeer(w, c, request)
      PROVE  Values'
  BY <1>2 DEF AddPeer, Dialling
<1>3. ASSUME NEW w \in Workload, Present(w) PROVE Values'
  BY <1>3 DEF Present, Dialling
<1>4. ASSUME NEW w \in Workload, NEW c \in Conn, Redial(w, c) PROVE Values'
  BY <1>4 DEF Redial, Dialling
<1>5. ASSUME NEW c \in Conn, Accept(c) PROVE Values'
  BY <1>5 DEF Accept, Owned, Connections
<1>6. ASSUME NEW c \in Conn, Early(c) PROVE Values'
  BY <1>6 DEF Early
<1>7. ASSUME NEW c \in Conn, Claim(c) PROVE Values'
  <2> DEFINE t == Presents[of[c]]
  <2>1. of[c] \in Workload
    BY <1>7, Enrolling DEF Claim
  <2>2. [token EXCEPT ![t] = "spent"] \in
          [Token -> {"unminted", "pending", "spent", "expired", "wasted"}]
    OBVIOUS
  <2>3. [admits EXCEPT ![t] = @ \cup {of[c]}] \in [Token -> SUBSET Workload]
    BY <2>1
  <2>4. /\ \/ /\ token' = [token EXCEPT ![t] = "spent"]
              /\ admits' = [admits EXCEPT ![t] = @ \cup {of[c]}]
           \/ UNCHANGED tokens
        /\ UNCHANGED <<operator, dialler, lists, faults>>
    BY <1>7 DEF Claim, Spend
  <2> QED BY <2>2, <2>3, <2>4
<1>8. ASSUME NEW c \in Conn, Unenrolled(c) PROVE Values'
  BY <1>8 DEF Unenrolled
<1>9. ASSUME NEW c \in Conn, Rejected(c) PROVE Values'
  <2>1. token' = [token EXCEPT ![Presents[of[c]]] = "wasted"]
    BY <1>9 DEF Rejected
  <2>2. token' \in [Token -> {"unminted", "pending", "spent", "expired", "wasted"}]
    BY <2>1
  <2> QED BY <1>9, <2>2 DEF Rejected
<1>10. ASSUME NEW c \in Conn, Pin(c) \/ Insert(c) PROVE Values'
  BY <1>10 DEF Pin, Insert, Owned, Connections
<1>11. ASSUME NEW c \in Conn, Welcome(c) PROVE Values'
  <2>1. of[c] \in Workload
    BY <1>11, Enrolling DEF Welcome
  <2>2. early[c] # None => early[c].list \in List /\ early[c].newest \in List
    BY DEF Connections
  <2>3. heard' \in [Workload \X Way -> List] /\ newest' \in [Workload \X Way -> List]
    BY <1>11, <2>2, HearTyped DEF Welcome, ApplyEarly
  <2> QED BY <1>11, <2>1, <2>3 DEF Welcome
<1>12. ASSUME NEW x \in Workload \X Way, Change(x) PROVE Values'
  BY <1>12 DEF Change, List
<1>13. ASSUME NEW x \in Workload \X Way, Read(x) PROVE Values'
  BY <1>13 DEF Read
<1>14. ASSUME NEW x \in Workload \X Way, NEW list \in sending[x], Send(x, list)
       PROVE  Values'
  BY <1>14 DEF Send
<1>15. ASSUME NEW c \in Conn, NEW way \in Way, Apply(c, way) PROVE Values'
  <2>1. PICK message \in flight[c][way] :
          IF message = Enroll THEN UNCHANGED <<heard, newest>>
          ELSE Hear(<<of[c], way>>, message, message)
    BY <1>15 DEF Apply
  <2>2. message \in List \cup {Enroll}
    BY DEF Connections
  <2>3. heard' \in [Workload \X Way -> List] /\ newest' \in [Workload \X Way -> List]
    BY <2>1, <2>2, HearTyped
  <2> QED BY <1>15, <2>3 DEF Apply
<1>16. ASSUME NEW w \in Workload, NEW c \in Conn, NoticeUp(w, c) \/ NoticeDown(w, c)
       PROVE  Values'
  BY <1>16 DEF NoticeUp, NoticeDown
<1>17. CASE Restart
  BY <1>17 DEF Restart, List
<1>18. CASE UNCHANGED vars
  BY <1>18 DEF vars
<1>19. ASSUME NEW w \in Workload, AddPinned(w) \/ SavePin(w) PROVE Values'
  BY <1>19 DEF AddPinned, SavePin
<1> HIDE DEF Values, Fault
<1> QED
  BY <1>1, <1>2, <1>3, <1>4, <1>5, <1>6, <1>7, <1>8, <1>9, <1>10, <1>11, <1>12, <1>13, <1>14,
     <1>15, <1>16, <1>17, <1>18, <1>19, NextCases

LEMMA ConnectionsStep == TypeOK /\ [Next]_vars => Connections'
<1> SUFFICES ASSUME Values, Connections, Owned, [Next]_vars PROVE Connections'
  BY TypeParts
<1> USE AnnouncementsAssumption
    DEF Connections, Steps, Way, tokens, operator, dialler, wire, lists
<1>a. \A w : Greeting(w) \in SUBSET Messages
  BY DEF Greeting, Messages
<1>b. ASSUME NEW c, NEW way, NEW messages \in SUBSET Messages,
             flight' = [flight EXCEPT ![c][way] = messages]
      PROVE  flight' \in [Conn -> [Way -> SUBSET Messages]]
  BY <1>b, FlightPut DEF Messages
<1>c. ASSUME NEW c \in Conn, NEW way \in Way, Lost(c, way)
      PROVE  flight' \in [Conn -> [Way -> SUBSET Messages]]
  BY <1>b, <1>c DEF Lost, Messages
<1>d. ASSUME NEW c \in Conn, Refuse(c)
      PROVE  /\ flight' \in [Conn -> [Way -> SUBSET Messages]]
             /\ serve' \in [Conn -> Steps] /\ UNCHANGED of
             /\ early' \in [Conn -> [list: List, newest: List] \cup {None}]
  <2>1. /\ serve' = [serve EXCEPT ![c] = "done"] /\ UNCHANGED of
        /\ early' = [early EXCEPT ![c] = None]
        /\ flight' = [flight EXCEPT ![c]["up"] = {}]
    BY <1>d DEF Refuse, Goto
  <2>2. {} \in SUBSET Messages
    OBVIOUS
  <2>3. flight' \in [Conn -> [Way -> SUBSET Messages]]
    BY <1>b, <2>1, <2>2
  <2> QED BY <2>1, <2>3
<1>1. ASSUME NEW t \in Token, Mint(t) \/ Expire(t) PROVE Connections'
  BY <1>1 DEF Mint, Expire
<1>2. ASSUME NEW w \in Workload, NEW c \in Conn, NEW request \in BOOLEAN,
             AddPeer(w, c, request)
      PROVE  Connections'
  <2>1. /\ conn' = [conn EXCEPT ![w] = c] /\ of' = [of EXCEPT ![c] = w]
        /\ serve' = [serve EXCEPT ![c] = "new"]
        /\ flight' = [flight EXCEPT ![c]["up"] = Greeting(w)]
        /\ UNCHANGED <<link, early>>
    BY <1>2 DEF AddPeer, Dialed
  <2>2. flight' \in [Conn -> [Way -> SUBSET Messages]]
    BY <1>a, <1>b, <2>1
  <2> QED BY <2>1, <2>2 DEF Messages
<1>3. ASSUME NEW w \in Workload, Present(w) PROVE Connections'
  <2>1. flight' \in [Conn -> [Way -> SUBSET Messages]]
    <3>1. CASE conn[w] = None
      BY <1>3, <3>1 DEF Present, Greet, Messages
    <3>2. CASE conn[w] # None
      <4>1. flight' = [flight EXCEPT ![conn[w]]["up"] = @ \cup Greeting(w)]
        BY <1>3, <3>2 DEF Present, Greet
      <4>2. flight[conn[w]]["up"] \cup Greeting(w) \in SUBSET Messages
        BY <1>a, <3>2 DEF Messages
      <4> QED BY <1>b, <4>1, <4>2
    <3> QED BY <3>1, <3>2
  <2> QED BY <1>3, <2>1 DEF Present, Messages
<1>4. ASSUME NEW w \in Workload, NEW c \in Conn, Redial(w, c) PROVE Connections'
  BY <1>4 DEF Redial, Dialed
<1>5. ASSUME NEW c \in Conn, Accept(c) PROVE Connections'
  <2>1. flight' \in [Conn -> [Way -> SUBSET Messages]]
    BY <1>5, <1>c, Enrolling DEF Accept, Messages
  <2>2. /\ link' = [link EXCEPT ![of[c]] = c] \/ UNCHANGED link
        /\ Goto(c, "done") \/ Goto(c, "enrolling")
        /\ UNCHANGED <<dialler, of, early>>
    BY <1>5 DEF Accept
  <2>3. link' \in [Workload -> Conn \cup {None}]
    BY <2>2
  <2>4. serve' \in [Conn -> Steps]
    BY <2>2 DEF Goto, Steps
  <2> QED BY <2>1, <2>2, <2>3, <2>4 DEF Messages
<1>6. ASSUME NEW c \in Conn, Early(c) PROVE Connections'
  BY <1>6, NewerIsList DEF Early
<1>7. ASSUME NEW c \in Conn, Claim(c) PROVE Connections'
  <2>1. CASE Refuse(c)
    BY <1>7, <1>d, <2>1 DEF Claim, Messages
  <2>2. CASE ~Refuse(c)
    <3>1. /\ flight' = [flight EXCEPT ![c]["up"] = @ \ {Enroll}] /\ Goto(c, "claimed")
          /\ UNCHANGED <<of, early, operator, dialler>>
      BY <1>7, <2>2 DEF Claim
    <3>2. flight' \in [Conn -> [Way -> SUBSET Messages]]
      BY <1>b, <3>1 DEF Messages
    <3> QED BY <3>1, <3>2 DEF Goto, Messages
  <2> QED BY <2>1, <2>2
<1>8. ASSUME NEW c \in Conn, Unenrolled(c) PROVE Connections'
  BY <1>8, <1>d DEF Unenrolled, Messages
<1>9. ASSUME NEW c \in Conn, Rejected(c) PROVE Connections'
  BY <1>9, <1>d DEF Rejected, Messages
<1>10. ASSUME NEW c \in Conn, Pin(c) \/ Insert(c) PROVE Connections'
  <2>1. UNCHANGED <<conn, of, early, flight>>
    BY <1>10 DEF Pin, Insert
  <2>2. link' = [link EXCEPT ![of[c]] = c] \/ UNCHANGED link
    BY <1>10 DEF Pin, Insert
  <2>3. link' \in [Workload -> Conn \cup {None}]
    BY <2>2
  <2>4. serve' \in [Conn -> Steps]
    BY <1>10 DEF Pin, Insert, Goto, Steps
  <2> QED BY <2>1, <2>3, <2>4
<1>11. ASSUME NEW c \in Conn, Welcome(c) PROVE Connections'
  BY <1>11 DEF Welcome, Goto
<1>12. ASSUME NEW x \in Workload \X Way, Change(x) PROVE Connections'
  BY <1>12 DEF Change
<1>13. ASSUME NEW x \in Workload \X Way, Read(x) PROVE Connections'
  BY <1>13 DEF Read
<1>14. ASSUME NEW x \in Workload \X Way, NEW list \in sending[x], Send(x, list)
       PROVE  Connections'
  <2> DEFINE c == Sender(x)
  <2>1. list \in Messages
    BY DEF Values, Messages
  <2>2. CASE UNCHANGED flight
    BY <1>14, <2>2 DEF Send
  <2>3. CASE c # None /\ flight' = [flight EXCEPT ![c][x[2]] = @ \cup {list}]
    <3>1. c \in Conn /\ x[2] \in Way
      BY <2>3 DEF Sender
    <3>2. flight[c][x[2]] \cup {list} \in SUBSET Messages
      BY <2>1, <3>1 DEF Messages
    <3>3. flight' \in [Conn -> [Way -> SUBSET Messages]]
      BY <1>b, <2>3, <3>2
    <3> QED BY <1>14, <3>3 DEF Send, Messages
  <2> QED BY <1>14, <2>2, <2>3 DEF Send
<1>15. ASSUME NEW c \in Conn, NEW way \in Way, Apply(c, way) PROVE Connections'
  BY <1>15 DEF Apply
<1>16. ASSUME NEW w \in Workload, NEW c \in Conn, NoticeUp(w, c) \/ NoticeDown(w, c)
       PROVE  Connections'
  <2>1. flight' \in [Conn -> [Way -> SUBSET Messages]]
    BY <1>16, <1>c DEF NoticeUp, NoticeDown
  <2> QED BY <1>16, <2>1 DEF NoticeUp, NoticeDown, Messages
<1>17. CASE Restart
  BY <1>17 DEF Restart, Nobody
<1>18. CASE UNCHANGED vars
  BY <1>18 DEF vars
<1>19. ASSUME NEW w \in Workload, AddPinned(w) \/ SavePin(w) PROVE Connections'
  BY <1>19 DEF AddPinned, SavePin
<1> QED
  BY <1>1, <1>2, <1>3, <1>4, <1>5, <1>6, <1>7, <1>8, <1>9, <1>10, <1>11, <1>12, <1>13, <1>14,
     <1>15, <1>16, <1>17, <1>18, <1>19, NextCases

LEMMA OwnedStep == TypeOK /\ [Next]_vars => Owned'
<1> SUFFICES ASSUME Values, Connections, Owned, [Next]_vars PROVE Owned'
  BY TypeParts
<1> USE AnnouncementsAssumption DEF Owned, tokens, operator, dialler, wire, lists
<1>a. ASSUME UNCHANGED <<known, link, conn, pc, of, serve>> PROVE Owned'
  BY <1>a
<1>b. ASSUME NEW c \in Conn, NEW step, Goto(c, step), step = "done" \/ of[c] # None,
             UNCHANGED <<known, link, conn, pc, of>>
      PROVE  Owned'
  BY <1>b DEF Goto, Connections
<1>c. ASSUME NEW w \in Workload, NEW c \in Conn, Unused(c), pc'[w] \in Dialling,
             conn' = [conn EXCEPT ![w] = c], of' = [of EXCEPT ![c] = w],
             \A v \in Workload : v # w => pc'[v] = pc[v], UNCHANGED <<known, link>>,
             serve' = [serve EXCEPT ![c] = "new"]
      PROVE  Owned'
  <2>1. \A v \in Workload : conn[v] # c /\ link[v] # c
    BY <1>c DEF Unused, HeldUp, HeldDown
  <2>2. w # None /\ c # None
    OBVIOUS
  <2>3. \A v \in Workload : link[v] # None => of'[link[v]] = of[link[v]]
    BY <1>c, <2>1 DEF Connections
  <2>4. \A v \in Workload : v # w /\ conn[v] # None =>
          conn'[v] = conn[v] /\ of'[conn[v]] = of[conn[v]] /\ pc'[v] = pc[v]
    BY <1>c, <2>1 DEF Connections, Values
  <2>5. conn'[w] = c /\ of'[c] = w
    BY <1>c DEF Connections
  <2>6. \A d \in Conn : d # c => of'[d] = of[d] /\ serve'[d] = serve[d]
    BY <1>c DEF Connections
  <2> QED BY <1>c, <2>2, <2>3, <2>4, <2>5, <2>6 DEF Connections
<1>d. ASSUME NEW w \in Workload, NEW c \in Conn \cup {None}, link' = [link EXCEPT ![w] = c],
             c # None => of[c] = w, c # None => w \in known',
             known \subseteq known', UNCHANGED <<conn, pc, of>>,
             \A d \in Conn : serve'[d] # "done" => of[d] # None
      PROVE  Owned'
  BY <1>d DEF Connections
<1>1. ASSUME NEW t \in Token, Mint(t) \/ Expire(t) PROVE Owned'
  BY <1>1, <1>a DEF Mint, Expire
<1>2. ASSUME NEW w \in Workload, NEW c \in Conn, NEW request \in BOOLEAN,
             AddPeer(w, c, request)
      PROVE  Owned'
  <2>1. pc'[w] \in Dialling /\ \A v \in Workload : v # w => pc'[v] = pc[v]
    BY <1>2 DEF AddPeer, Values, Dialling
  <2> QED BY <1>2, <1>c, <2>1 DEF AddPeer, Dialed
<1>3. ASSUME NEW w \in Workload, Present(w) PROVE Owned'
  <2>1. pc' = [pc EXCEPT ![w] = "up"] /\ UNCHANGED <<known, link, conn, of, serve>>
    BY <1>3 DEF Present
  <2> QED BY <2>1 DEF Values, Dialling
<1>4. ASSUME NEW w \in Workload, NEW c \in Conn, Redial(w, c) PROVE Owned'
  <2>1. pc'[w] \in Dialling /\ \A v \in Workload : v # w => pc'[v] = pc[v]
    BY <1>4 DEF Redial, Values, Dialling
  <2> QED BY <1>4, <1>c, <2>1 DEF Redial, Dialed
<1>5. ASSUME NEW c \in Conn, Accept(c) PROVE Owned'
  <2>1. of[c] \in Workload
    BY <1>5, Enrolling DEF Accept
  <2>2. CASE of[c] \in known
    <3>1. /\ link' = [link EXCEPT ![of[c]] = c] /\ Goto(c, "done")
          /\ UNCHANGED <<known, conn, pc, of>>
      BY <1>5, <2>2 DEF Accept
    <3>2. \A d \in Conn : serve'[d] # "done" => of[d] # None
      BY <3>1 DEF Goto, Connections
    <3> QED BY <1>d, <2>1, <2>2, <3>1, <3>2
  <2>3. CASE of[c] \notin known
    BY <1>5, <1>b, <2>1, <2>3 DEF Accept
  <2> QED BY <2>2, <2>3
<1>6. ASSUME NEW c \in Conn, Early(c) PROVE Owned'
  BY <1>6, <1>a DEF Early
<1>7. ASSUME NEW c \in Conn, Claim(c) PROVE Owned'
  BY <1>7, <1>b, Enrolling DEF Claim, Refuse
<1>8. ASSUME NEW c \in Conn, Unenrolled(c) \/ Rejected(c) PROVE Owned'
  BY <1>8, <1>b DEF Unenrolled, Rejected, Refuse
<1>9. ASSUME NEW c \in Conn, Pin(c) PROVE Owned'
  BY <1>9, <1>b, Enrolling DEF Pin
<1>10. ASSUME NEW c \in Conn, Insert(c) PROVE Owned'
  <2>1. of[c] \in Workload
    BY <1>10, Enrolling DEF Insert
  <2>2. \A d \in Conn : serve'[d] # "done" => of[d] # None
    BY <1>10, <2>1 DEF Insert, Goto, Connections
  <2> QED BY <1>10, <1>d, <2>1, <2>2 DEF Insert
<1>11. ASSUME NEW c \in Conn, Welcome(c) PROVE Owned'
  BY <1>11, <1>b DEF Welcome
<1>12. ASSUME NEW x \in Workload \X Way, Change(x) \/ Read(x) PROVE Owned'
  BY <1>12, <1>a DEF Change, Read
<1>13. ASSUME NEW x \in Workload \X Way, NEW list \in sending[x], Send(x, list) PROVE Owned'
  BY <1>13, <1>a DEF Send
<1>14. ASSUME NEW c \in Conn, NEW way \in Way, Apply(c, way) PROVE Owned'
  BY <1>14, <1>a DEF Apply
<1>15. ASSUME NEW w \in Workload, NEW c \in Conn, NoticeUp(w, c) PROVE Owned'
  <2>1. conn' = [conn EXCEPT ![w] = None] /\ UNCHANGED <<known, link, pc, of, serve>>
    BY <1>15 DEF NoticeUp
  <2> QED BY <2>1 DEF Connections
<1>16. ASSUME NEW w \in Workload, NEW c \in Conn, NoticeDown(w, c) PROVE Owned'
  <2>1. link' = [link EXCEPT ![w] = None] /\ UNCHANGED <<known, conn, pc, of, serve>>
    BY <1>16 DEF NoticeDown
  <2> QED BY <2>1 DEF Connections
<1>17. CASE Restart
  <2>1. /\ link' = Nobody /\ serve' = [c \in Conn |-> "done"]
        /\ UNCHANGED <<conn, pc, of>>
    BY <1>17 DEF Restart
  <2> QED BY <2>1 DEF Nobody
<1>18. CASE UNCHANGED vars
  BY <1>18, <1>a DEF vars
<1>19. ASSUME NEW w \in Workload, AddPinned(w) \/ SavePin(w) PROVE Owned'
  BY <1>19 DEF AddPinned, SavePin
<1> HIDE DEF Owned
<1> QED
  BY <1>1, <1>2, <1>3, <1>4, <1>5, <1>6, <1>7, <1>8, <1>9, <1>10, <1>11, <1>12, <1>13, <1>14,
     <1>15, <1>16, <1>17, <1>18, <1>19, NextCases

LEMMA TypeStep == TypeOK /\ [Next]_vars => TypeOK'
BY ValuesStep, ConnectionsStep, OwnedStep DEF TypeOK, Values, Connections, Owned

(* For any number of workloads, tokens, connections and faults every variable  *)
(* keeps its type, and whoever has a connection has its own.                   *)
THEOREM AnnouncementsTyped == Spec => []TypeOK
BY TypeInit, TypeStep, PTL DEF Spec, Safety

-----------------------------------------------------------------------------
(* Who is pinned.                                                              *)

(* The pin is written before the peer is inserted, and a list is told only to  *)
(* a peer that has been inserted: so whoever has one coming is pinned, or was  *)
(* let in by a request to pin it.                                              *)
Covered == {w \in Workload : w \in pins \/ vouch[w] \in {"pending", "failed"}}

Admitted ==
  /\ known \subseteq Covered
  /\ \A c \in Conn :
       serve[c] \in {"pinned", "admitted"} \/ flight[c]["down"] # {} => of[c] \in Covered
  /\ \A w \in Workload : newest[<<w, "down">>] > 0 => w \in Covered

LEMMA AdmittedInit == Init => Admitted
<1> SUFFICES ASSUME Init PROVE Admitted
  OBVIOUS
<1>1. known \subseteq pins /\ pins \subseteq Workload
  BY TypeInit DEF Init, TypeOK
<1>2. \A w \in Workload : newest[<<w, "down">>] = 0
  BY DEF Init, Unheard, Way
<1>3. \A c \in Conn : serve[c] = "done" /\ flight[c]["down"] = {}
  BY DEF Init, Way
<1>4. known \subseteq Covered
  BY <1>1 DEF Covered
<1> QED BY <1>2, <1>3, <1>4 DEF Admitted

(* What an update of the messages of one way does to those that are told.      *)
LEMMA Told ==
  ASSUME Connections, NEW c, NEW way \in Way, NEW messages \in SUBSET Messages,
         flight' = [flight EXCEPT ![c][way] = messages]
  PROVE  \A d \in Conn : flight'[d]["down"] =
           IF d = c /\ way = "down" THEN messages ELSE flight[d]["down"]
BY FlightPut DEF Connections, Messages, Way

LEMMA ToldByLost ==
  ASSUME Connections, NEW c \in Conn, NEW way \in Way, Lost(c, way)
  PROVE  \A d \in Conn : flight'[d]["down"] \subseteq flight[d]["down"]
<1>1. PICK read \in SUBSET (flight[c][way] \ {Enroll}) : flight' = [flight EXCEPT ![c][way] = read]
  BY DEF Lost
<1>2. read \in SUBSET Messages
  BY DEF Connections, Messages
<1> QED BY <1>1, <1>2, Told

LEMMA UpIsNotTold ==
  ASSUME Connections, NEW c, NEW messages \in SUBSET Messages,
         flight' = [flight EXCEPT ![c]["up"] = messages]
  PROVE  \A d \in Conn : flight'[d]["down"] = flight[d]["down"]
BY Told DEF Way

LEMMA AdmittedStep == TypeOK /\ Admitted /\ [Next]_vars => Admitted'
<1> SUFFICES ASSUME Values, Connections, Owned, Admitted, [Next]_vars PROVE Admitted'
  BY TypeParts
<1> USE AnnouncementsAssumption DEF tokens, operator, dialler, wire, lists
<1> DEFINE Quiet == \A d \in Conn : flight'[d]["down"] \subseteq flight[d]["down"]
<1>a. ASSUME UNCHANGED <<known, pins, vouch, of, serve, newest>>, Quiet PROVE Admitted'
  BY <1>a DEF Admitted, Covered
<1>b. ASSUME NEW c \in Conn, NEW step, Goto(c, step), step \notin {"pinned", "admitted"},
             UNCHANGED <<known, pins, vouch, of>>, Quiet,
             \A w \in Workload : newest'[<<w, "down">>] = newest[<<w, "down">>]
      PROVE  Admitted'
  <2>1. \A d \in Conn : serve'[d] = IF d = c THEN step ELSE serve[d]
    BY <1>b DEF Goto, Connections
  <2> QED BY <1>b, <2>1 DEF Admitted, Covered
<1>c. ASSUME NEW w \in Workload, NEW c \in Conn, NEW messages \in SUBSET Messages,
             Dialed(w, c, messages), UNCHANGED <<known, pins, vouch, newest>>
      PROVE  Admitted'
  <2>1. \A d \in Conn : flight'[d]["down"] = flight[d]["down"]
    BY <1>c, UpIsNotTold DEF Dialed
  <2>2. flight[c]["down"] = {}
    BY <1>c DEF Dialed, Unused, Way
  <2>3. \A d \in Conn : /\ of'[d] = IF d = c THEN w ELSE of[d]
                        /\ serve'[d] = IF d = c THEN "new" ELSE serve[d]
    BY <1>c DEF Dialed, Connections
  <2> QED BY <1>c, <2>1, <2>2, <2>3 DEF Admitted, Covered
<1>d. ASSUME NEW c \in Conn, Refuse(c), UNCHANGED <<known, pins, vouch, newest>> PROVE Admitted'
  <2>1. {} \in SUBSET Messages
    OBVIOUS
  <2>2. Quiet
    BY <1>d, <2>1, UpIsNotTold DEF Refuse
  <2> QED BY <1>b, <1>d, <2>2 DEF Refuse
<1>1. ASSUME NEW t \in Token, Mint(t) \/ Expire(t) PROVE Admitted'
  BY <1>1, <1>a DEF Mint, Expire
<1>2. ASSUME NEW w \in Workload, NEW c \in Conn, NEW request \in BOOLEAN,
             AddPeer(w, c, request)
      PROVE  Admitted'
  <2>1. Greeting(w) \in SUBSET Messages
    BY DEF Greeting, Messages
  <2> QED BY <1>2, <1>c, <2>1 DEF AddPeer
<1>3. ASSUME NEW w \in Workload, Present(w) PROVE Admitted'
  <2>1. CASE conn[w] = None
    BY <1>3, <1>a, <2>1 DEF Present, Greet
  <2>2. CASE conn[w] # None
    <3>1. flight' = [flight EXCEPT ![conn[w]]["up"] = @ \cup Greeting(w)]
      BY <1>3, <2>2 DEF Present, Greet
    <3>2. flight[conn[w]]["up"] \cup Greeting(w) \in SUBSET Messages
      BY <2>2 DEF Greeting, Messages, Connections, Way
    <3>3. Quiet
      BY <3>1, <3>2, UpIsNotTold
    <3> QED BY <1>3, <1>a, <3>3 DEF Present
  <2> QED BY <2>1, <2>2
<1>4. ASSUME NEW w \in Workload, NEW c \in Conn, Redial(w, c) PROVE Admitted'
  <2>1. {} \in SUBSET Messages
    OBVIOUS
  <2> QED BY <1>4, <1>c, <2>1 DEF Redial
<1>5. ASSUME NEW c \in Conn, Accept(c) PROVE Admitted'
  <2>1. of[c] \in Workload
    BY <1>5, Enrolling DEF Accept
  <2>2. Quiet
    <3>1. CASE UNCHANGED flight
      BY <3>1
    <3>2. CASE link[of[c]] # None /\ Lost(link[of[c]], "up")
      BY <2>1, <3>2, ToldByLost DEF Connections, Way
    <3> QED BY <1>5, <3>1, <3>2 DEF Accept
  <2>3. /\ Goto(c, "done") \/ Goto(c, "enrolling")
        /\ UNCHANGED <<known, pins, vouch, of, newest>>
    BY <1>5 DEF Accept
  <2> QED BY <1>b, <2>2, <2>3
<1>6. ASSUME NEW c \in Conn, Early(c) PROVE Admitted'
  <2>1. PICK list : flight' = [flight EXCEPT ![c]["up"] = @ \ {list}]
    BY <1>6 DEF Early
  <2>2. flight[c]["up"] \ {list} \in SUBSET Messages
    BY DEF Connections, Messages, Way
  <2>3. Quiet
    BY <2>1, <2>2, UpIsNotTold
  <2> QED BY <1>6, <1>a, <2>3 DEF Early
<1>7. ASSUME NEW c \in Conn, Claim(c) PROVE Admitted'
  <2>1. CASE Refuse(c)
    BY <1>7, <1>d, <2>1 DEF Claim
  <2>2. CASE ~Refuse(c)
    <3>1. /\ flight' = [flight EXCEPT ![c]["up"] = @ \ {Enroll}] /\ Goto(c, "claimed")
          /\ UNCHANGED <<of, operator, newest>>
      BY <1>7, <2>2 DEF Claim
    <3>2. flight[c]["up"] \ {Enroll} \in SUBSET Messages
      BY DEF Connections, Messages, Way
    <3>3. Quiet
      BY <3>1, <3>2, UpIsNotTold
    <3> QED BY <1>b, <3>1, <3>3
  <2> QED BY <2>1, <2>2
<1>8. ASSUME NEW c \in Conn, Unenrolled(c) \/ Rejected(c) PROVE Admitted'
  BY <1>8, <1>d DEF Unenrolled, Rejected
<1>9. ASSUME NEW c \in Conn, Pin(c) PROVE Admitted'
  <2>1. \A d \in Conn : serve'[d] = IF d = c THEN "pinned" ELSE serve[d]
    BY <1>9 DEF Pin, Goto, Connections
  <2> QED BY <1>9, <2>1, Enrolling DEF Pin, Admitted, Covered
<1>10. ASSUME NEW c \in Conn, Insert(c) PROVE Admitted'
  <2>1. \A d \in Conn : serve'[d] = IF d = c THEN "admitted" ELSE serve[d]
    BY <1>10 DEF Insert, Goto, Connections
  <2> QED BY <1>10, <2>1 DEF Insert, Admitted, Covered
<1>11. ASSUME NEW c \in Conn, Welcome(c) PROVE Admitted'
  <2>1. early[c] # None => early[c].list \in List /\ early[c].newest \in List
    BY DEF Connections
  <2>2. \A w \in Workload : <<w, "down">> # <<of[c], "up">>
    OBVIOUS
  <2>3. \A w \in Workload : newest'[<<w, "down">>] = newest[<<w, "down">>]
    BY <1>11, <2>1, <2>2, HearTyped DEF Welcome, ApplyEarly, Way
  <2> QED BY <1>11, <1>b, <2>3 DEF Welcome
<1>12. ASSUME NEW x \in Workload \X Way, Change(x) \/ Read(x) PROVE Admitted'
  BY <1>12, <1>a DEF Change, Read
<1>13. ASSUME NEW x \in Workload \X Way, NEW list \in sending[x], Send(x, list)
       PROVE  Admitted'
  <2> DEFINE c == Sender(x)
  <2>1. CASE UNCHANGED flight
    BY <1>13, <1>a, <2>1 DEF Send
  <2>2. CASE c # None /\ flight' = [flight EXCEPT ![c][x[2]] = @ \cup {list}]
    <3>1. c \in Conn /\ x[2] \in Way
      BY <2>2 DEF Sender, Connections
    <3>2. flight[c][x[2]] \cup {list} \in SUBSET Messages
      BY <3>1 DEF Messages, Values, Connections
    <3>3. x[2] = "down" => of[c] \in Covered
      BY <2>2 DEF Sender, Owned, Admitted
    <3>4. \A d \in Conn : d # c \/ x[2] = "up" => flight'[d]["down"] = flight[d]["down"]
      BY <2>2, <3>1, <3>2, Told DEF Way
    <3> QED BY <1>13, <3>1, <3>3, <3>4 DEF Send, Admitted, Covered, Way
  <2> QED BY <1>13, <2>1, <2>2 DEF Send
<1>14. ASSUME NEW c \in Conn, NEW way \in Way, Apply(c, way) PROVE Admitted'
  <2>1. PICK message \in flight[c][way] :
          /\ flight' = [flight EXCEPT ![c][way] = @ \ {message}]
          /\ IF message = Enroll THEN UNCHANGED <<heard, newest>>
             ELSE Hear(<<of[c], way>>, message, message)
    BY <1>14 DEF Apply
  <2>2. message \in Messages /\ flight[c][way] \ {message} \in SUBSET Messages
    BY DEF Connections, Messages
  <2>3. Quiet
    BY <2>1, <2>2, Told
  <2>4. way = "down" => of[c] \in Covered
    BY <2>1 DEF Admitted
  <2>5. \A w \in Workload :
          newest'[<<w, "down">>] = newest[<<w, "down">>] \/ (w = of[c] /\ way = "down")
    BY <2>1, <2>2, HearTyped DEF Messages, Way
  <2> QED BY <1>14, <2>3, <2>4, <2>5 DEF Apply, Admitted, Covered
<1>15. ASSUME NEW w \in Workload, NEW c \in Conn, NoticeUp(w, c) \/ NoticeDown(w, c)
       PROVE  Admitted'
  <2>1. Quiet
    BY <1>15, ToldByLost DEF NoticeUp, NoticeDown, Way
  <2> QED BY <1>15, <1>a, <2>1 DEF NoticeUp, NoticeDown
<1>16. CASE Restart
  <2>1. /\ flight' = [c \in Conn |-> [flight[c] EXCEPT !["up"] = {}]]
        /\ serve' = [c \in Conn |-> "done"]
        /\ newest' = [x \in DOMAIN newest |-> IF x[2] = "up" THEN 0 ELSE newest[x]]
        /\ known' = pins /\ UNCHANGED <<pins, of>>
        /\ vouch' = [w \in Workload |-> IF vouch[w] = "pending" THEN "failed" ELSE vouch[w]]
    BY <1>16 DEF Restart
  <2>2. \A d \in Conn : flight'[d]["down"] = flight[d]["down"]
    BY <2>1 DEF Connections, Way
  <2>3. \A w \in Workload : newest'[<<w, "down">>] = newest[<<w, "down">>]
    BY <2>1 DEF Values, Way
  <2>4. Covered' = Covered /\ pins \subseteq Covered
    BY <2>1 DEF Values, Covered
  <2> HIDE DEF Covered
  <2> QED BY <2>1, <2>2, <2>3, <2>4 DEF Admitted
<1>17. CASE UNCHANGED vars
  BY <1>17, <1>a DEF vars
<1>18. ASSUME NEW w \in Workload, AddPinned(w) \/ SavePin(w) PROVE Admitted'
  <2>1. \A u \in Workload : u # w => vouch'[u] = vouch[u]
    BY <1>18 DEF AddPinned, SavePin, Values
  <2>2. w \in Covered' /\ Covered \subseteq Covered'
    BY <1>18, <2>1 DEF AddPinned, SavePin, Values, Covered
  <2>3. known' \subseteq known \cup {w} /\ UNCHANGED <<of, serve, flight, newest>>
    BY <1>18 DEF AddPinned, SavePin
  <2> QED BY <2>2, <2>3 DEF Admitted
<1> QED
  BY <1>1, <1>2, <1>3, <1>4, <1>5, <1>6, <1>7, <1>8, <1>9, <1>10, <1>11, <1>12, <1>13, <1>14,
     <1>15, <1>16, <1>17, <1>18, NextCases

(* Whatever is lost, refused or restarted: a peer that is known, or has been   *)
(* told its ports, is in the pin file, unless a request to pin it is under way *)
(* or was not carried out.                                                     *)
THEOREM AdmittedArePinned == Spec => []AdmittedIsPinned
<1>1. Admitted => AdmittedIsPinned
  BY DEF Admitted, AdmittedIsPinned, Covered
<1> QED BY <1>1, TypeInit, TypeStep, AdmittedInit, AdmittedStep, PTL DEF Spec, Safety

-----------------------------------------------------------------------------
(* Who has used a token.                                                       *)

(* A token that can be claimed has let nobody in.                              *)
Unspent == \A t \in Token : token[t] \in {"unminted", "pending"} => admits[t] = {}

TokenInv == Unspent /\ TokenAdmitsOne

LEMMA TokenInit == Init => TokenInv
BY AnnouncementsAssumption DEF Init, TokenInv, Unspent, TokenAdmitsOne

LEMMA TokenStep == TypeOK /\ TokenInv /\ [Next]_vars => TokenInv'
<1> SUFFICES ASSUME Values, Connections, Owned, TokenInv, [Next]_vars PROVE TokenInv'
  BY TypeParts
<1> USE DEF TokenInv, Unspent, TokenAdmitsOne
<1>a. ASSUME UNCHANGED tokens PROVE TokenInv'
  BY <1>a DEF tokens
<1>1. ASSUME NEW t \in Token, Mint(t) \/ Expire(t) PROVE TokenInv'
  BY <1>1 DEF Mint, Expire, Values
<1>2. ASSUME NEW c \in Conn, Claim(c) PROVE TokenInv'
  <2> DEFINE t == Presents[of[c]]
  <2>1. CASE UNCHANGED tokens
    BY <1>a, <2>1
  <2>2. CASE /\ token[t] = "pending" /\ token' = [token EXCEPT ![t] = "spent"]
             /\ admits' = [admits EXCEPT ![t] = @ \cup {of[c]}]
    <3>1. of[c] \in Workload
      BY <1>2, Enrolling DEF Claim
    <3>2. \A u \in Token : u # t => token'[u] = token[u] /\ admits'[u] = admits[u]
      BY <2>2 DEF Values
    <3>3. t \in Token => token'[t] = "spent" /\ admits'[t] = {of[c]}
      BY <2>2 DEF Values
    <3> QED BY <3>2, <3>3
  <2> QED BY <1>2, <2>1, <2>2 DEF Claim, Spend
<1>3. ASSUME NEW c \in Conn, Rejected(c) PROVE TokenInv'
  <2>1. token' = [token EXCEPT ![Presents[of[c]]] = "wasted"] /\ UNCHANGED admits
    BY <1>3 DEF Rejected
  <2>2. \A u \in Token : token'[u] = token[u] \/ token'[u] = "wasted"
    BY <2>1 DEF Values
  <2> QED BY <2>1, <2>2
<1>4. CASE Restart
  <2>1. /\ UNCHANGED admits
        /\ \A t \in Token :
             token'[t] \in {"unminted", "pending"} => token'[t] = token[t]
    BY <1>4 DEF Restart
  <2> QED BY <2>1
<1>5. ASSUME NEW w \in Workload, NEW c \in Conn, NEW request \in BOOLEAN,
             AddPeer(w, c, request)
      PROVE  TokenInv'
  BY <1>5, <1>a DEF AddPeer
<1>6. ASSUME NEW w \in Workload, Present(w) PROVE TokenInv'
  BY <1>6, <1>a DEF Present, tokens
<1>7. ASSUME NEW w \in Workload, NEW c \in Conn, Redial(w, c) PROVE TokenInv'
  BY <1>7, <1>a DEF Redial
<1>8. ASSUME NEW c \in Conn, Accept(c) \/ Early(c) \/ Unenrolled(c) PROVE TokenInv'
  BY <1>8, <1>a DEF Accept, Early, Unenrolled
<1>9. ASSUME NEW c \in Conn, Pin(c) \/ Insert(c) \/ Welcome(c) PROVE TokenInv'
  BY <1>9, <1>a DEF Pin, Insert, Welcome
<1>10. ASSUME NEW x \in Workload \X Way, Change(x) \/ Read(x) PROVE TokenInv'
  BY <1>10, <1>a DEF Change, Read
<1>11. ASSUME NEW x \in Workload \X Way, NEW list \in sending[x], Send(x, list)
       PROVE  TokenInv'
  BY <1>11, <1>a DEF Send
<1>12. ASSUME NEW c \in Conn, NEW way \in Way, Apply(c, way) PROVE TokenInv'
  BY <1>12, <1>a DEF Apply
<1>13. ASSUME NEW w \in Workload, NEW c \in Conn, NoticeUp(w, c) \/ NoticeDown(w, c)
       PROVE  TokenInv'
  BY <1>13, <1>a DEF NoticeUp, NoticeDown
<1>14. CASE UNCHANGED vars
  BY <1>14, <1>a DEF vars
<1>15. ASSUME NEW w \in Workload, AddPinned(w) \/ SavePin(w) PROVE TokenInv'
  BY <1>15, <1>a DEF AddPinned, SavePin
<1> HIDE DEF TokenInv
<1> QED
  BY <1>1, <1>2, <1>3, <1>4, <1>5, <1>6, <1>7, <1>8, <1>9, <1>10, <1>11, <1>12, <1>13, <1>14, <1>15,
     NextCases

(* However often a token is presented, by whomever, it lets one key in.        *)
THEOREM OneKeyPerToken == Spec => []TokenAdmitsOne
<1>1. TokenInv => TokenAdmitsOne
  BY DEF TokenInv
<1> QED BY <1>1, TypeInit, TypeStep, TokenInit, TokenStep, PTL DEF Spec, Safety
-----------------------------------------------------------------------------
(* Who is told of the last change.                                             *)

Reaching == {"new", "enrolling", "claimed", "pinned"}

(* The operator's loop has not yet got a connection that is being let in, and  *)
(* a list is kept for it only meanwhile.                                       *)
Waiting ==
  /\ \A c \in Conn : serve[c] \in {"new", "done"} => early[c] = None
  /\ \A c \in Conn : serve[c] \in Reaching => \A w \in Workload : link[w] # c

(* No list is newer than what is granted.                                      *)
Bounded ==
  /\ \A x \in Workload \X Way : /\ newest[x] <= granted[x]
                                /\ \A list \in sending[x] : list <= granted[x]
  /\ \A c \in Conn, w \in Workload : of[c] = w =>
       /\ \A way \in Way : \A list \in flight[c][way] \ {Enroll} : list <= granted[<<w, way>>]
       /\ early[c] # None => early[c].newest <= granted[<<w, "up">>]

(* What was granted last has been heard, or is to be read, sent or applied.    *)
Coming(x, c) ==
  \/ newest[x] = granted[x] \/ x \in due \/ granted[x] \in sending[x]
  \/ granted[x] \in flight[c][x[2]]
  \/ x[2] = "up" /\ early[c] # None /\ early[c].newest = granted[x]

(* A connection that the sender has, and that the listener has or is about to, *)
(* loses no list.                                                              *)
UpLink(w, c) ==
  /\ pc[w] = "up" /\ conn[w] = c /\ w \notin silent
  /\ serve[c] \in Reaching \/ link[w] = c
DownLink(w, c) == conn[w] = c /\ link[w] = c /\ serve[c] = "done"

Kept ==
  \A w \in Workload, c \in Conn :
    /\ UpLink(w, c) => Coming(<<w, "up">>, c)
    /\ DownLink(w, c) => Coming(<<w, "down">>, c)

LEMMA ToldInit == Init => Waiting /\ Bounded /\ Kept
<1> SUFFICES ASSUME Init PROVE Waiting /\ Bounded /\ Kept
  OBVIOUS
<1>1. TypeOK
  BY TypeInit
<1>2. \A x \in Workload \X Way : newest[x] = 0 /\ sending[x] = {} /\ granted[x] \in List
  BY <1>1 DEF Init, Unheard, Nothing, TypeOK
<1>3. \A c \in Conn : early[c] = None /\ serve[c] = "done" /\ \A way \in Way : flight[c][way] = {}
  BY DEF Init
<1>4. \A w \in Workload : link[w] = None /\ conn[w] = None
  BY DEF Init, Nobody
<1> QED
  BY <1>2, <1>3, <1>4, AnnouncementsAssumption
     DEF Waiting, Bounded, Kept, UpLink, DownLink, Reaching, List

(* The newer of two lists that are not newer than a third.                     *)
LEMMA NewerBounded ==
  ASSUME NEW a \in List, NEW b \in List, NEW g \in List, a <= g, b <= g
  PROVE  /\ Newer(a, b) <= g
         /\ a = g \/ b = g => Newer(a, b) = g
BY AnnouncementsAssumption DEF Newer, List

LEMMA EarlyTyped ==
  ASSUME Connections, NEW c \in Conn, early[c] # None
  PROVE  early[c].list \in List /\ early[c].newest \in List
BY DEF Connections

(* What Lost leaves.                                                           *)
LEMMA LostPart ==
  ASSUME Connections, NEW c \in Conn, NEW way \in Way, Lost(c, way)
  PROVE  \A d \in Conn, v \in Way :
           /\ flight'[d][v] \subseteq flight[d][v]
           /\ d # c \/ v # way => flight'[d][v] = flight[d][v]
<1>1. PICK read \in SUBSET (flight[c][way] \ {Enroll}) : flight' = [flight EXCEPT ![c][way] = read]
  BY DEF Lost
<1>2. read \in SUBSET Messages
  BY DEF Connections, Messages
<1> QED BY <1>1, <1>2, FlightPut DEF Connections, Messages

(* A refusal ends the task, and nothing else.                                  *)
LEMMA RefusePart ==
  ASSUME Connections, NEW c \in Conn, Refuse(c)
  PROVE  /\ of' = of
         /\ \A d \in Conn : /\ serve'[d] = IF d = c THEN "done" ELSE serve[d]
                            /\ early'[d] = IF d = c THEN None ELSE early[d]
                            /\ \A v \in Way :
                                 flight'[d][v] = IF d = c /\ v = "up" THEN {} ELSE flight[d][v]
<1>1. {} \in SUBSET Messages
  OBVIOUS
<1>2. flight' = [flight EXCEPT ![c]["up"] = {}]
  BY DEF Refuse
<1>3. \A d \in Conn, v \in Way : flight'[d][v] = IF d = c /\ v = "up" THEN {} ELSE flight[d][v]
  BY <1>1, <1>2, FlightPut DEF Connections, Messages
<1> QED BY <1>3 DEF Refuse, Goto, Connections

(* A claim that succeeds takes the token from the connection.                  *)
LEMMA ClaimPart ==
  ASSUME Connections, NEW c \in Conn, Claim(c), ~Refuse(c)
  PROVE  /\ UNCHANGED <<of, early>>
         /\ \A d \in Conn : /\ serve'[d] = IF d = c THEN "claimed" ELSE serve[d]
                            /\ \A v \in Way : flight'[d][v] \subseteq flight[d][v]
                            /\ \A v \in Way, list \in List :
                                 list \in flight[d][v] => list \in flight'[d][v]
<1>1. /\ flight' = [flight EXCEPT ![c]["up"] = @ \ {Enroll}] /\ Goto(c, "claimed")
      /\ UNCHANGED <<of, early>>
  BY DEF Claim
<1>2. flight[c]["up"] \ {Enroll} \in SUBSET Messages
  BY DEF Connections, Messages, Way
<1>3. \A d \in Conn, v \in Way :
        flight'[d][v] = IF d = c /\ v = "up" THEN flight[c]["up"] \ {Enroll} ELSE flight[d][v]
  BY <1>1, <1>2, FlightPut DEF Connections, Messages
<1> QED BY <1>1, <1>3, AnnouncementsAssumption DEF Goto, Connections

(* A connection that is dialled is new, and carries no more than a token.      *)
LEMMA DialedPart ==
  ASSUME Connections, NEW w \in Workload, NEW c \in Conn, NEW messages \in SUBSET {Enroll},
         Dialed(w, c, messages)
  PROVE  /\ early' = early /\ serve[c] = "done" /\ flight[c]["down"] = {}
         /\ \A v \in Workload : /\ conn[v] # c /\ link[v] # c
                                /\ conn'[v] = IF v = w THEN c ELSE conn[v]
         /\ \A d \in Conn : /\ of'[d] = IF d = c THEN w ELSE of[d]
                            /\ serve'[d] = IF d = c THEN "new" ELSE serve[d]
                            /\ \A v \in Way : flight'[d][v] =
                                 IF d = c /\ v = "up" THEN messages ELSE flight[d][v]
<1>1. messages \in SUBSET Messages /\ flight' = [flight EXCEPT ![c]["up"] = messages]
  BY DEF Messages, Dialed
<1>2. \A d \in Conn, v \in Way :
        flight'[d][v] = IF d = c /\ v = "up" THEN messages ELSE flight[d][v]
  BY <1>1, FlightPut DEF Connections, Messages
<1>3. \A v \in Workload : conn[v] # c /\ link[v] # c
  BY DEF Dialed, Unused, HeldUp, HeldDown
<1> QED BY <1>2, <1>3 DEF Dialed, Unused, HeldUp, HeldDown, Connections, Way

LEMMA GreetPart ==
  ASSUME Connections, NEW w \in Workload, Greet(w)
  PROVE  \A d \in Conn, v \in Way :
           /\ flight[d][v] \subseteq flight'[d][v]
           /\ flight'[d][v] \subseteq flight[d][v] \cup {Enroll}
<1>1. CASE conn[w] = None
  BY <1>1 DEF Greet
<1>2. CASE conn[w] # None
  <2>1. flight' = [flight EXCEPT ![conn[w]]["up"] = @ \cup Greeting(w)]
    BY <1>2 DEF Greet
  <2>2. /\ conn[w] \in Conn /\ Greeting(w) \subseteq {Enroll}
        /\ flight[conn[w]]["up"] \cup Greeting(w) \in SUBSET Messages
    BY <1>2 DEF Greeting, Messages, Connections, Way
  <2> QED BY <2>1, <2>2, FlightPut DEF Connections, Messages
<1> QED BY <1>1, <1>2

(* What is sent goes to whom it is for.                                        *)
Posts(x, list) ==
  /\ Sender(x) \in Conn /\ of[Sender(x)] = x[1]
  /\ \A d \in Conn, v \in Way :
       flight'[d][v] = IF d = Sender(x) /\ v = x[2] THEN flight[Sender(x)][x[2]] \cup {list}
                                                   ELSE flight[d][v]

LEMMA SendPart ==
  ASSUME Values, Connections, Owned, NEW x \in Workload \X Way, NEW list \in sending[x],
         Send(x, list)
  PROVE  /\ sending' = [sending EXCEPT ![x] = @ \ {list}]
         /\ UNCHANGED flight \/ Posts(x, list)
         /\ (/\ Sender(x) # None
             /\ IF x[2] = "up" THEN HeldDown(Sender(x)) ELSE HeldUp(Sender(x)))
              => list \in flight'[Sender(x)][x[2]]
<1> DEFINE c == Sender(x)
<1>1. x[1] \in Workload /\ x[2] \in Way /\ list \in List
  BY DEF Values
<1>2. c # None => c \in Conn /\ of[c] = x[1]
  BY <1>1 DEF Sender, Connections, Owned
<1>3. ASSUME c # None, flight' = [flight EXCEPT ![c][x[2]] = @ \cup {list}]
      PROVE  \A d \in Conn, v \in Way :
               flight'[d][v] = IF d = c /\ v = x[2] THEN flight[c][x[2]] \cup {list}
                                                    ELSE flight[d][v]
  <2>1. flight[c][x[2]] \cup {list} \in SUBSET Messages
    BY <1>1, <1>2, <1>3 DEF Messages, Connections
  <2> HIDE DEF c
  <2>2. flight' = [flight EXCEPT ![c][x[2]] = flight[c][x[2]] \cup {list}]
    BY <1>3
  <2> DEFINE messages == flight[c][x[2]] \cup {list}
  <2>3. messages \in SUBSET Messages /\ flight' = [flight EXCEPT ![c][x[2]] = messages]
    BY <2>1, <2>2
  <2> HIDE DEF messages
  <2>4. \A d \in Conn, v \in Way :
          flight'[d][v] = IF d = c /\ v = x[2] THEN messages ELSE flight[d][v]
    BY <2>3, FlightPut DEF Connections, Messages
  <2> QED BY <2>4 DEF messages
<1> HIDE DEF c
<1>4. /\ sending' = [sending EXCEPT ![x] = @ \ {list}]
      /\ IF c # None /\ (IF x[2] = "up" THEN HeldDown(c) ELSE HeldUp(c))
         THEN flight' = [flight EXCEPT ![c][x[2]] = @ \cup {list}]
         ELSE UNCHANGED flight
  BY DEF Send, c
<1> QED BY <1>1, <1>2, <1>3, <1>4 DEF c, Posts

(* A message that is applied is taken from its connection, and nothing else is.*)
Takes(c, way, message) ==
  /\ \A d \in Conn, v \in Way :
       flight'[d][v] = IF d = c /\ v = way THEN flight[c][way] \ {message} ELSE flight[d][v]
  /\ \A x \in Workload \X Way :
       newest'[x] = IF message # Enroll /\ x = <<of[c], way>> THEN Newer(message, newest[x])
                                                             ELSE newest[x]

LEMMA ApplyPart ==
  ASSUME Values, Connections, NEW c \in Conn, NEW way \in Way, Apply(c, way)
  PROVE  \E message \in flight[c][way] \cap Messages : Takes(c, way, message)
<1>1. PICK message \in flight[c][way] :
        /\ flight' = [flight EXCEPT ![c][way] = @ \ {message}]
        /\ IF message = Enroll THEN UNCHANGED <<heard, newest>>
           ELSE Hear(<<of[c], way>>, message, message)
  BY DEF Apply
<1>2. message \in Messages /\ flight[c][way] \ {message} \in SUBSET Messages
  BY DEF Connections, Messages
<1>3. \A d \in Conn, v \in Way :
        flight'[d][v] = IF d = c /\ v = way THEN flight[c][way] \ {message} ELSE flight[d][v]
  <2> DEFINE messages == flight[c][way] \ {message}
  <2>1. messages \in SUBSET Messages /\ flight' = [flight EXCEPT ![c][way] = messages]
    BY <1>1, <1>2
  <2> HIDE DEF messages
  <2>2. \A d \in Conn, v \in Way :
          flight'[d][v] = IF d = c /\ v = way THEN messages ELSE flight[d][v]
    BY <2>1, FlightPut DEF Connections, Messages
  <2> QED BY <2>2 DEF messages
<1>4. message # Enroll =>
        \A x \in Workload \X Way :
          newest'[x] = IF x = <<of[c], way>> THEN Newer(message, newest[x]) ELSE newest[x]
  BY <1>1 DEF Hear, Values
<1> QED BY <1>1, <1>2, <1>3, <1>4 DEF Takes

(* The early list is applied, if there is one.                                 *)
LEMMA WelcomePart ==
  ASSUME Values, Connections, NEW c \in Conn, Welcome(c)
  PROVE  /\ UNCHANGED <<of, flight, granted, sending>>
         /\ due' = due \cup {<<of[c], "down">>}
         /\ \A d \in Conn : /\ serve'[d] = IF d = c THEN "done" ELSE serve[d]
                            /\ early'[d] = IF d = c THEN None ELSE early[d]
         /\ \A x \in Workload \X Way :
              newest'[x] = IF early[c] # None /\ x = <<of[c], "up">>
                           THEN Newer(early[c].newest, newest[x]) ELSE newest[x]
<1>1. CASE early[c] = None
  BY <1>1 DEF Welcome, ApplyEarly, Goto, Connections
<1>2. CASE early[c] # None
  <2>1. newest' = [newest EXCEPT ![<<of[c], "up">>] = Newer(early[c].newest, @)]
    BY <1>2 DEF Welcome, ApplyEarly, Hear
  <2>2. \A x \in Workload \X Way :
          newest'[x] = IF x = <<of[c], "up">> THEN Newer(early[c].newest, newest[x])
                                              ELSE newest[x]
    BY <2>1 DEF Values
  <2> QED BY <1>2, <2>2 DEF Welcome, Goto, Connections
<1> QED BY <1>1, <1>2

(* An early list is kept in place of the one before it.                        *)
EarlyTakes(c, list) ==
  /\ \A d \in Conn : /\ d # c => early'[d] = early[d]
                     /\ \A v \in Way : flight'[d][v] =
                          IF d = c /\ v = "up" THEN flight[c]["up"] \ {list}
                                               ELSE flight[d][v]
  /\ early'[c] # None
  /\ early'[c].newest = IF early[c] = None THEN list ELSE Newer(list, early[c].newest)

LEMMA EarlyPart ==
  ASSUME Connections, NEW c \in Conn, Early(c)
  PROVE  \E list \in (flight[c]["up"] \ {Enroll}) \cap List : EarlyTakes(c, list)
<1>1. PICK list \in flight[c]["up"] \ {Enroll} :
        /\ early' = [early EXCEPT ![c] =
                       [list |-> list,
                        newest |-> IF @ = None THEN list ELSE Newer(list, @.newest)]]
        /\ flight' = [flight EXCEPT ![c]["up"] = @ \ {list}]
  BY DEF Early
<1>2. list \in List /\ flight[c]["up"] \ {list} \in SUBSET Messages
  BY DEF Connections, Messages, Way
<1>3. \A d \in Conn, v \in Way :
        flight'[d][v] = IF d = c /\ v = "up" THEN flight[c]["up"] \ {list} ELSE flight[d][v]
  <2> DEFINE messages == flight[c]["up"] \ {list}
  <2>1. messages \in SUBSET Messages /\ flight' = [flight EXCEPT ![c]["up"] = messages]
    BY <1>1, <1>2
  <2> HIDE DEF messages
  <2>2. \A d \in Conn, v \in Way :
          flight'[d][v] = IF d = c /\ v = "up" THEN messages ELSE flight[d][v]
    BY <2>1, FlightPut DEF Connections, Messages
  <2> QED BY <2>2 DEF messages
<1>4. early'[c] = [list |-> list, newest |-> IF early[c] = None THEN list
                                             ELSE Newer(list, early[c].newest)]
  BY <1>1 DEF Connections
<1>5. early'[c] # None
  <2>1. early'[c] \in [list: List, newest: List]
    <3> DEFINE new == IF early[c] = None THEN list ELSE Newer(list, early[c].newest)
    <3>1. new \in List
      BY <1>2, EarlyTyped, NewerIsList
    <3> HIDE DEF new
    <3> QED BY <1>2, <1>4, <3>1 DEF new
  <2> QED BY <2>1, AnnouncementsAssumption
<1> QED BY <1>1, <1>2, <1>3, <1>4, <1>5 DEF Connections, EarlyTakes

LEMMA WaitingStep == TypeOK /\ Waiting /\ [Next]_vars => Waiting'
<1> SUFFICES ASSUME Values, Connections, Owned, Waiting, [Next]_vars PROVE Waiting'
  BY TypeParts
<1> USE AnnouncementsAssumption DEF Waiting, Reaching, tokens, operator, dialler, wire, lists
<1>a. ASSUME UNCHANGED <<serve, early, link>> PROVE Waiting'
  BY <1>a
<1>b. ASSUME NEW w \in Workload, NEW c \in Conn, NEW messages \in SUBSET {Enroll},
             Dialed(w, c, messages), UNCHANGED link
      PROVE  Waiting'
  BY <1>b, DialedPart
<1>c. ASSUME NEW c \in Conn, Refuse(c), UNCHANGED link PROVE Waiting'
  BY <1>c, RefusePart
<1>d. ASSUME NEW c \in Conn, NEW step, Goto(c, step)
      PROVE  \A d \in Conn : serve'[d] = IF d = c THEN step ELSE serve[d]
  BY <1>d DEF Goto, Connections
<1>1. ASSUME NEW t \in Token, Mint(t) \/ Expire(t) PROVE Waiting'
  BY <1>1, <1>a DEF Mint, Expire
<1>2. ASSUME NEW w \in Workload, NEW c \in Conn, NEW request \in BOOLEAN,
             AddPeer(w, c, request)
      PROVE  Waiting'
  <2>1. Greeting(w) \in SUBSET {Enroll}
    BY DEF Greeting
  <2> QED BY <1>2, <1>b, <2>1 DEF AddPeer
<1>3. ASSUME NEW w \in Workload, Present(w) PROVE Waiting'
  BY <1>3, <1>a DEF Present
<1>4. ASSUME NEW w \in Workload, NEW c \in Conn, Redial(w, c) PROVE Waiting'
  <2>1. {} \in SUBSET {Enroll}
    OBVIOUS
  <2> QED BY <1>4, <1>b, <2>1 DEF Redial
<1>5. ASSUME NEW c \in Conn, Accept(c) PROVE Waiting'
  <2>1. serve[c] = "new" /\ early[c] = None /\ UNCHANGED early
    BY <1>5 DEF Accept
  <2>2. CASE link' = [link EXCEPT ![of[c]] = c] /\ Goto(c, "done")
    <3>1. \A w \in Workload : link'[w] \in {link[w], c}
      BY <2>2 DEF Connections
    <3>2. \A d \in Conn : serve'[d] = IF d = c THEN "done" ELSE serve[d]
      BY <1>d, <2>2
    <3> QED BY <2>1, <3>1, <3>2
  <2>3. CASE UNCHANGED link /\ Goto(c, "enrolling")
    <3>1. \A d \in Conn : serve'[d] = IF d = c THEN "enrolling" ELSE serve[d]
      BY <1>d, <2>3
    <3> QED BY <2>1, <2>3, <3>1
  <2> QED BY <1>5, <2>2, <2>3 DEF Accept
<1>6. ASSUME NEW c \in Conn, Early(c) PROVE Waiting'
  <2>1. serve[c] = "enrolling" /\ UNCHANGED <<serve, link>>
    BY <1>6 DEF Early
  <2>2. PICK list \in (flight[c]["up"] \ {Enroll}) \cap List : EarlyTakes(c, list)
    BY <1>6, EarlyPart
  <2>3. \A d \in Conn : d # c => early'[d] = early[d]
    BY <2>2 DEF EarlyTakes
  <2> QED BY <2>1, <2>3
<1>7. ASSUME NEW c \in Conn, Claim(c) PROVE Waiting'
  <2>1. CASE Refuse(c)
    BY <1>7, <1>c, <2>1 DEF Claim
  <2>2. CASE ~Refuse(c)
    <3>1. serve[c] = "enrolling" /\ UNCHANGED link
      BY <1>7 DEF Claim
    <3>2. early' = early /\ \A d \in Conn : serve'[d] = IF d = c THEN "claimed" ELSE serve[d]
      BY <1>7, <2>2, ClaimPart
    <3> QED BY <3>1, <3>2
  <2> QED BY <2>1, <2>2
<1>8. ASSUME NEW c \in Conn, Unenrolled(c) \/ Rejected(c) PROVE Waiting'
  BY <1>8, <1>c DEF Unenrolled, Rejected
<1>9. ASSUME NEW c \in Conn, Pin(c) PROVE Waiting'
  <2>1. \A d \in Conn : serve'[d] = IF d = c THEN "pinned" ELSE serve[d]
    BY <1>9, <1>d DEF Pin
  <2> QED BY <1>9, <2>1 DEF Pin
<1>10. ASSUME NEW c \in Conn, Insert(c) PROVE Waiting'
  <2>1. \A d \in Conn : serve'[d] = IF d = c THEN "admitted" ELSE serve[d]
    BY <1>10, <1>d DEF Insert
  <2>2. \A w \in Workload : link'[w] \in {link[w], c}
    BY <1>10 DEF Insert, Connections
  <2>3. UNCHANGED early
    BY <1>10 DEF Insert
  <2> QED BY <2>1, <2>2, <2>3
<1>11. ASSUME NEW c \in Conn, Welcome(c) PROVE Waiting'
  <2>1. UNCHANGED link
    BY <1>11 DEF Welcome
  <2> QED BY <1>11, <2>1, WelcomePart
<1>12. ASSUME NEW x \in Workload \X Way, Change(x) \/ Read(x) PROVE Waiting'
  BY <1>12, <1>a DEF Change, Read
<1>13. ASSUME NEW x \in Workload \X Way, NEW list \in sending[x], Send(x, list)
       PROVE  Waiting'
  BY <1>13, <1>a DEF Send
<1>14. ASSUME NEW c \in Conn, NEW way \in Way, Apply(c, way) PROVE Waiting'
  BY <1>14, <1>a DEF Apply
<1>15. ASSUME NEW w \in Workload, NEW c \in Conn, NoticeUp(w, c) PROVE Waiting'
  BY <1>15, <1>a DEF NoticeUp
<1>16. ASSUME NEW w \in Workload, NEW c \in Conn, NoticeDown(w, c) PROVE Waiting'
  <2>1. \A v \in Workload : link'[v] \in {link[v], None}
    BY <1>16 DEF NoticeDown, Connections
  <2> QED BY <1>16, <2>1 DEF NoticeDown
<1>17. CASE Restart
  BY <1>17 DEF Restart
<1>18. CASE UNCHANGED vars
  BY <1>18, <1>a DEF vars
<1>19. ASSUME NEW w \in Workload, AddPinned(w) \/ SavePin(w) PROVE Waiting'
  BY <1>19, <1>a DEF AddPinned, SavePin
<1> HIDE DEF Waiting
<1> QED
  BY <1>1, <1>2, <1>3, <1>4, <1>5, <1>6, <1>7, <1>8, <1>9, <1>10, <1>11, <1>12, <1>13, <1>14,
     <1>15, <1>16, <1>17, <1>18, <1>19, NextCases

LEMMA BoundedStep == TypeOK /\ Waiting /\ Bounded /\ [Next]_vars => Bounded'
<1> SUFFICES ASSUME Values, Connections, Owned, Waiting, Bounded, [Next]_vars PROVE Bounded'
  BY TypeParts
<1> USE AnnouncementsAssumption DEF tokens, operator, dialler, wire, lists
<1> DEFINE Fewer == \A d \in Conn, v \in Way : flight'[d][v] \subseteq flight[d][v] \cup {Enroll}
           Older == \A d \in Conn : early'[d] \in {early[d], None}
<1>a. ASSUME UNCHANGED <<of, granted>>, Fewer, Older,
             \A x \in Workload \X Way : /\ newest'[x] <= granted[x]
                                        /\ sending'[x] \subseteq sending[x]
      PROVE  Bounded'
  BY <1>a DEF Bounded
<1>b. ASSUME UNCHANGED <<of, granted, newest, sending>>, Fewer, Older PROVE Bounded'
  BY <1>a, <1>b DEF Bounded
<1>c. ASSUME NEW w \in Workload, NEW c \in Conn, NEW messages \in SUBSET {Enroll},
             Dialed(w, c, messages), UNCHANGED <<granted, newest, sending>>
      PROVE  Bounded'
  <2>1. /\ early' = early /\ early[c] = None /\ flight[c]["down"] = {}
        /\ \A d \in Conn : /\ of'[d] = IF d = c THEN w ELSE of[d]
                           /\ \A v \in Way : flight'[d][v] =
                                IF d = c /\ v = "up" THEN messages ELSE flight[d][v]
    BY <1>c, DialedPart DEF Waiting
  <2>2. \A v \in Way : flight'[c][v] \subseteq {Enroll}
    BY <2>1 DEF Way
  <2>3. \A d \in Conn : d # c => of'[d] = of[d] /\ \A v \in Way : flight'[d][v] = flight[d][v]
    BY <2>1
  <2> QED BY <1>c, <2>1, <2>2, <2>3 DEF Bounded
<1>d. ASSUME NEW c \in Conn, Refuse(c), UNCHANGED <<granted, newest, sending>> PROVE Bounded'
  <2>1. UNCHANGED of /\ Fewer /\ Older
    BY <1>d, RefusePart
  <2> QED BY <1>b, <1>d, <2>1
<1>1. ASSUME NEW t \in Token, Mint(t) \/ Expire(t) PROVE Bounded'
  BY <1>1, <1>b DEF Mint, Expire
<1>2. ASSUME NEW w \in Workload, NEW c \in Conn, NEW request \in BOOLEAN,
             AddPeer(w, c, request)
      PROVE  Bounded'
  <2>1. Greeting(w) \in SUBSET {Enroll}
    BY DEF Greeting
  <2> QED BY <1>2, <1>c, <2>1 DEF AddPeer
<1>3. ASSUME NEW w \in Workload, Present(w) PROVE Bounded'
  <2>1. Fewer
    BY <1>3, GreetPart DEF Present
  <2> QED BY <1>3, <1>b, <2>1 DEF Present
<1>4. ASSUME NEW w \in Workload, NEW c \in Conn, Redial(w, c) PROVE Bounded'
  <2>1. {} \in SUBSET {Enroll}
    OBVIOUS
  <2> QED BY <1>4, <1>c, <2>1 DEF Redial
<1>5. ASSUME NEW c \in Conn, Accept(c) PROVE Bounded'
  <2>1. of[c] \in Workload
    BY <1>5, Enrolling DEF Accept
  <2>2. CASE link[of[c]] # None /\ Lost(link[of[c]], "up")
    <3>1. link[of[c]] \in Conn /\ "up" \in Way
      BY <2>1, <2>2 DEF Connections, Way
    <3>2. Fewer
      BY <2>2, <3>1, LostPart
    <3> QED BY <1>5, <1>b, <3>2 DEF Accept
  <2>3. CASE UNCHANGED flight
    BY <1>5, <1>b, <2>3 DEF Accept
  <2> QED BY <1>5, <2>2, <2>3 DEF Accept
<1>6. ASSUME NEW c \in Conn, Early(c) PROVE Bounded'
  <2>1. PICK list \in (flight[c]["up"] \ {Enroll}) \cap List : EarlyTakes(c, list)
    BY <1>6, EarlyPart
  <2>2. Fewer
    BY <2>1 DEF EarlyTakes
  <2>3. UNCHANGED <<of, granted, newest, sending>>
    BY <1>6 DEF Early
  <2>4. ASSUME NEW w \in Workload, of[c] = w PROVE early'[c].newest <= granted[<<w, "up">>]
    <3>1. list <= granted[<<w, "up">>] /\ granted[<<w, "up">>] \in List
      BY <2>1, <2>4 DEF Bounded, Values, Way
    <3>2. early[c] # None => early[c].newest \in List /\ early[c].newest <= granted[<<w, "up">>]
      BY <2>4, EarlyTyped DEF Bounded
    <3> QED BY <2>1, <3>1, <3>2, NewerBounded DEF EarlyTakes
  <2> QED BY <2>1, <2>2, <2>3, <2>4 DEF Bounded, EarlyTakes
<1>7. ASSUME NEW c \in Conn, Claim(c) PROVE Bounded'
  <2>1. CASE Refuse(c)
    BY <1>7, <1>d, <2>1 DEF Claim
  <2>2. CASE ~Refuse(c)
    <3>1. UNCHANGED <<of, early>> /\ Fewer
      BY <1>7, <2>2, ClaimPart
    <3> QED BY <1>7, <1>b, <3>1 DEF Claim
  <2> QED BY <2>1, <2>2
<1>8. ASSUME NEW c \in Conn, Unenrolled(c) \/ Rejected(c) PROVE Bounded'
  BY <1>8, <1>d DEF Unenrolled, Rejected
<1>9. ASSUME NEW c \in Conn, Pin(c) \/ Insert(c) PROVE Bounded'
  BY <1>9, <1>b DEF Pin, Insert
<1>10. ASSUME NEW c \in Conn, Welcome(c) PROVE Bounded'
  <2>1. of[c] \in Workload
    BY <1>10, Enrolling DEF Welcome
  <2>2. /\ UNCHANGED <<of, flight, granted, sending>> /\ Older
        /\ \A x \in Workload \X Way :
             newest'[x] = IF early[c] # None /\ x = <<of[c], "up">>
                          THEN Newer(early[c].newest, newest[x]) ELSE newest[x]
    BY <1>10, WelcomePart
  <2>3. early[c] # None => early[c].newest \in List /\ early[c].newest <= granted[<<of[c], "up">>]
    BY <2>1, EarlyTyped DEF Bounded
  <2>4. ASSUME NEW x \in Workload \X Way PROVE newest'[x] <= granted[x]
    BY <2>2, <2>3, NewerBounded DEF Bounded, Values
  <2> QED BY <1>a, <2>2, <2>4
<1>11. ASSUME NEW x \in Workload \X Way, Change(x) PROVE Bounded'
  <2>1. \A y \in Workload \X Way : granted[y] <= granted'[y] /\ granted'[y] \in Nat
    BY <1>11 DEF Change, Values, List
  <2>2. UNCHANGED <<of, newest, sending, flight, early>>
    BY <1>11 DEF Change
  <2>3. \A y \in Workload \X Way, list \in List : list <= granted[y] => list <= granted'[y]
    BY <2>1 DEF Values, List
  <2>4. /\ \A y \in Workload \X Way : newest[y] \in List /\ sending[y] \subseteq List
        /\ \A c \in Conn, way \in Way : flight[c][way] \ {Enroll} \subseteq List
        /\ \A c \in Conn : early[c] # None => early[c].newest \in List
    BY EarlyTyped DEF Values, Connections
  <2> QED BY <2>2, <2>3, <2>4 DEF Bounded, Way
<1>12. ASSUME NEW x \in Workload \X Way, Read(x) PROVE Bounded'
  <2>1. \A y \in Workload \X Way : sending'[y] \subseteq sending[y] \cup {granted[y]}
    BY <1>12 DEF Read, Values
  <2>2. UNCHANGED <<of, granted, newest, flight, early>>
    BY <1>12 DEF Read
  <2>3. \A y \in Workload \X Way : granted[y] <= granted[y]
    BY DEF Values, List
  <2> QED BY <2>1, <2>2, <2>3 DEF Bounded
<1>13. ASSUME NEW x \in Workload \X Way, NEW list \in sending[x], Send(x, list)
       PROVE  Bounded'
  <2>1. \A y \in Workload \X Way : sending'[y] \subseteq sending[y]
    BY <1>13 DEF Send, Values
  <2>2. UNCHANGED <<of, granted, newest, early>>
    BY <1>13 DEF Send
  <2>3. CASE UNCHANGED flight
    BY <2>1, <2>2, <2>3 DEF Bounded
  <2>4. CASE Posts(x, list)
    <3>1. ASSUME NEW d \in Conn, NEW w \in Workload, of[d] = w, NEW v \in Way,
                 NEW sent \in flight'[d][v] \ {Enroll}
          PROVE  sent <= granted[<<w, v>>]
      <4>1. CASE sent \in flight[d][v]
        BY <3>1, <4>1 DEF Bounded
      <4>2. CASE sent \notin flight[d][v]
        <5>1. sent = list /\ x = <<w, v>>
          BY <2>4, <3>1, <4>2 DEF Posts
        <5> QED BY <5>1 DEF Bounded
      <4> QED BY <4>1, <4>2
    <3> QED BY <2>1, <2>2, <3>1 DEF Bounded
  <2> QED BY <1>13, <2>3, <2>4, SendPart
<1>14. ASSUME NEW c \in Conn, NEW way \in Way, Apply(c, way) PROVE Bounded'
  <2>1. PICK message \in flight[c][way] \cap Messages : Takes(c, way, message)
    BY <1>14, ApplyPart
  <2>2. UNCHANGED <<of, granted, sending, early>>
    BY <1>14 DEF Apply
  <2>3. Fewer
    BY <2>1 DEF Takes
  <2>4. ASSUME NEW x \in Workload \X Way PROVE newest'[x] <= granted[x]
    <3>1. newest[x] <= granted[x] /\ newest[x] \in List /\ granted[x] \in List
      BY DEF Bounded, Values
    <3>2. ASSUME message # Enroll, x = <<of[c], way>>
          PROVE  message \in List /\ message <= granted[x]
      <4>1. of[c] \in Workload /\ message \in flight[c][way] \ {Enroll}
        BY <2>1, <3>2
      <4> QED BY <2>1, <3>2, <4>1 DEF Bounded, Messages
    <3> QED BY <2>1, <3>1, <3>2, NewerBounded DEF Takes
  <2> QED BY <1>a, <2>2, <2>3, <2>4
<1>15. ASSUME NEW w \in Workload, NEW c \in Conn, NoticeUp(w, c) \/ NoticeDown(w, c)
       PROVE  Bounded'
  <2>1. Fewer
    BY <1>15, LostPart DEF NoticeUp, NoticeDown, Way
  <2> QED BY <1>15, <1>b, <2>1 DEF NoticeUp, NoticeDown
<1>16. CASE Restart
  <2>1. /\ early' = [c \in Conn |-> None] /\ UNCHANGED <<of, granted>>
        /\ flight' = [c \in Conn |-> [flight[c] EXCEPT !["up"] = {}]]
        /\ newest' = [x \in DOMAIN newest |-> IF x[2] = "up" THEN 0 ELSE newest[x]]
        /\ sending' = [x \in DOMAIN sending |-> IF x[2] = "up" THEN sending[x] ELSE {}]
    BY <1>16 DEF Restart
  <2>2. Fewer
    BY <2>1 DEF Connections, Way
  <2>3. \A x \in Workload \X Way : newest'[x] \in {newest[x], 0} /\ sending'[x] \subseteq sending[x]
    BY <2>1 DEF Values
  <2>4. \A x \in Workload \X Way : newest'[x] <= granted[x]
    BY <2>3 DEF Values, List, Bounded
  <2> QED BY <1>a, <2>1, <2>2, <2>3, <2>4
<1>17. CASE UNCHANGED vars
  BY <1>17, <1>b DEF vars
<1>18. ASSUME NEW w \in Workload, AddPinned(w) \/ SavePin(w) PROVE Bounded'
  BY <1>18, <1>b DEF AddPinned, SavePin
<1> QED
  BY <1>1, <1>2, <1>3, <1>4, <1>5, <1>6, <1>7, <1>8, <1>9, <1>10, <1>11, <1>12, <1>13, <1>14,
     <1>15, <1>16, <1>17, <1>18, NextCases

(* What is coming stays so, unless the step takes it from where it is.         *)
LEMMA ComingStays ==
  ASSUME Values, NEW x \in Workload \X Way, NEW c \in Conn, Coming(x, c),
         granted'[x] = granted[x], newest[x] = granted[x] => newest'[x] = granted[x],
         x \in due => x \in due', sending[x] \subseteq sending'[x],
         flight[c][x[2]] \ {Enroll} \subseteq flight'[c][x[2]],
         early[c] # None => early'[c] = early[c]
  PROVE  Coming(x, c)'
<1>1. granted[x] # Enroll
  BY AnnouncementsAssumption DEF Values
<1> QED BY <1>1 DEF Coming

LEMMA KeptStep == TypeOK /\ Waiting /\ Bounded /\ Kept /\ [Next]_vars => Kept'
<1> SUFFICES ASSUME Values, Connections, Owned, Waiting, Bounded, Kept, [Next]_vars,
                    NEW v \in Workload, NEW d \in Conn
             PROVE  /\ UpLink(v, d)' => Coming(<<v, "up">>, d)'
                    /\ DownLink(v, d)' => Coming(<<v, "down">>, d)'
  BY TypeParts DEF Kept
<1> USE AnnouncementsAssumption DEF tokens, operator, dialler, wire, lists
<1> DEFINE up == <<v, "up">>
           down == <<v, "down">>
           Goal == /\ UpLink(v, d)' => Coming(up, d)'
                   /\ DownLink(v, d)' => Coming(down, d)'
           Same == /\ UNCHANGED <<granted, newest>> /\ due \subseteq due'
                   /\ \A x \in Workload \X Way : sending[x] \subseteq sending'[x]
           Upward == flight[d]["up"] \ {Enroll} \subseteq flight'[d]["up"]
           Downward == flight[d]["down"] \ {Enroll} \subseteq flight'[d]["down"]
           EarlySame == early[d] # None => early'[d] = early[d]
<1>p. /\ up \in Workload \X Way /\ up[1] = v /\ up[2] = "up"
      /\ down \in Workload \X Way /\ down[1] = v /\ down[2] = "down" /\ up # down
  BY DEF Way
<1>q. UpLink(v, d) => Coming(up, d) /\ of[d] = v
  BY DEF Kept, UpLink, Owned
<1>r. DownLink(v, d) => Coming(down, d) /\ of[d] = v
  BY DEF Kept, DownLink, Owned
<1> HIDE DEF up, down
<1>a. ASSUME Same, UpLink(v, d), Upward, EarlySame PROVE Coming(up, d)'
  BY <1>a, <1>p, <1>q, ComingStays
<1>b. ASSUME Same, DownLink(v, d), Downward PROVE Coming(down, d)'
  <2>1. granted[down] # Enroll
    BY <1>p DEF Values
  <2> QED BY <1>b, <1>p, <1>r, <2>1 DEF Coming
<1>c. ASSUME Same, UNCHANGED <<link, conn, pc, silent, serve>>, Upward, Downward, EarlySame
      PROVE  Goal
  BY <1>a, <1>b, <1>c DEF UpLink, DownLink
<1>d. ASSUME NEW w \in Workload, NEW c \in Conn, NEW messages \in SUBSET {Enroll},
             Dialed(w, c, messages), UNCHANGED link, Same,
             pc'[w] # "up" \/ w \in silent' \/ <<w, "up">> \in due',
             v # w => pc'[v] = pc[v] /\ (v \in silent => v \in silent')
      PROVE  Goal
  <2>1. /\ EarlySame /\ serve[c] = "done" /\ conn[v] # c /\ link[v] # c
        /\ conn'[v] = IF v = w THEN c ELSE conn[v]
        /\ serve'[d] = IF d = c THEN "new" ELSE serve[d]
        /\ d # c => Upward /\ Downward
    BY <1>d, DialedPart DEF Way
  <2>2. CASE v = w
    <3>1. UpLink(v, d)' => up \in due'
      BY <1>d, <2>2 DEF UpLink, up
    <3>2. ~DownLink(v, d)'
      BY <1>d, <2>1, <2>2 DEF DownLink
    <3> QED BY <3>1, <3>2 DEF Coming
  <2>3. CASE v # w
    <3>1. (UpLink(v, d)' => UpLink(v, d) /\ d # c) /\ (DownLink(v, d)' => DownLink(v, d) /\ d # c)
      BY <1>d, <2>1, <2>3 DEF UpLink, DownLink
    <3> QED BY <1>a, <1>b, <1>d, <2>1, <3>1
  <2> QED BY <2>2, <2>3
<1>e. ASSUME NEW c \in Conn, serve[c] \in Reaching, Refuse(c), Same,
             UNCHANGED <<link, conn, pc, silent>>
      PROVE  Goal
  <2>1. /\ serve'[d] = IF d = c THEN "done" ELSE serve[d]
        /\ Downward /\ (d # c => Upward /\ EarlySame)
    BY <1>e, RefusePart DEF Way
  <2>2. link[v] # c /\ "done" \notin Reaching
    BY <1>e DEF Waiting, Reaching
  <2>3. (UpLink(v, d)' => UpLink(v, d) /\ d # c) /\ (DownLink(v, d)' => DownLink(v, d))
    BY <1>e, <2>1, <2>2 DEF UpLink, DownLink
  <2> QED BY <1>a, <1>b, <1>e, <2>1, <2>3
<1>f. ASSUME NEW c \in Conn, NEW step, Goto(c, step)
      PROVE  serve'[d] = IF d = c THEN step ELSE serve[d]
  BY <1>f DEF Goto, Connections
<1>1. ASSUME NEW t \in Token, Mint(t) \/ Expire(t) PROVE Goal
  BY <1>1, <1>c DEF Mint, Expire
<1>2. ASSUME NEW w \in Workload, NEW c \in Conn, NEW request \in BOOLEAN,
             AddPeer(w, c, request)
      PROVE  Goal
  <2>1. Greeting(w) \in SUBSET {Enroll}
    BY DEF Greeting
  <2>2. /\ Dialed(w, c, Greeting(w)) /\ UNCHANGED link /\ Same
        /\ pc' = [pc EXCEPT ![w] = "up"]
        /\ w \in silent' \/ <<w, "up">> \in due'
        /\ silent \subseteq silent'
    BY <1>2 DEF AddPeer
  <2>3. v # w => pc'[v] = pc[v]
    BY <2>2 DEF Values
  <2> QED BY <1>d, <2>1, <2>2, <2>3
<1>3. ASSUME NEW w \in Workload, Present(w) PROVE Goal
  <2>1. /\ Upward /\ Downward /\ EarlySame /\ Same /\ UNCHANGED <<link, conn, serve>>
        /\ pc' = [pc EXCEPT ![w] = "up"] /\ silent' = silent \ {w}
        /\ <<w, "up">> \in due'
    BY <1>3, GreetPart DEF Present, Way
  <2>2. UpLink(v, d)' => UpLink(v, d) \/ up \in due'
    BY <2>1 DEF UpLink, Values, up
  <2>3. DownLink(v, d)' => DownLink(v, d)
    BY <2>1 DEF DownLink
  <2> QED BY <1>a, <1>b, <2>1, <2>2, <2>3 DEF Coming
<1>4. ASSUME NEW w \in Workload, NEW c \in Conn, Redial(w, c) PROVE Goal
  <2>1. {} \in SUBSET {Enroll}
    OBVIOUS
  <2>2. /\ Dialed(w, c, {}) /\ UNCHANGED <<link, silent>> /\ Same
        /\ pc' = [pc EXCEPT ![w] = "present"]
    BY <1>4 DEF Redial
  <2>3. pc'[w] # "up" /\ (v # w => pc'[v] = pc[v])
    BY <2>2 DEF Values
  <2> QED BY <1>d, <2>1, <2>2, <2>3
<1>5. ASSUME NEW c \in Conn, Accept(c) PROVE Goal
  <2> DEFINE w == of[c]
  <2>1. w \in Workload /\ serve[c] = "new"
    BY <1>5, Enrolling DEF Accept
  <2>2. UNCHANGED <<conn, pc, silent, early>> /\ Same
    BY <1>5 DEF Accept
  <2>3. link[v] # c
    BY <2>1 DEF Waiting, Reaching
  <2>4. CASE /\ link' = [link EXCEPT ![w] = c] /\ Goto(c, "done")
             /\ due' = due \cup {<<w, "down">>}
             /\ IF link[w] # None THEN Lost(link[w], "up") ELSE UNCHANGED flight
    <3>1. /\ link'[v] = IF v = w THEN c ELSE link[v]
          /\ serve'[d] = IF d = c THEN "done" ELSE serve[d]
      BY <1>f, <2>1, <2>4 DEF Connections
    <3>2. Downward /\ (d # link[w] => Upward)
      <4>1. CASE link[w] # None
        <5>1. link[w] \in Conn /\ "up" \in Way /\ Lost(link[w], "up")
          BY <2>1, <2>4, <4>1 DEF Connections, Way
        <5> QED BY <5>1, LostPart DEF Way
      <4>2. CASE link[w] = None
        BY <2>4, <4>2
      <4> QED BY <4>1, <4>2
    <3>3. UpLink(v, d)' => UpLink(v, d) /\ d # link[w]
      <4>1. ASSUME UpLink(v, d)' PROVE UpLink(v, d)
        BY <2>1, <2>2, <3>1, <4>1 DEF UpLink, Reaching
      <4>2. ASSUME UpLink(v, d)', d = link[w] PROVE FALSE
        <5>1. serve[d] \notin Reaching /\ of[d] = w
          BY <2>1, <4>2 DEF Waiting, Owned
        <5>2. d # c /\ link'[v] = d
          BY <2>1, <3>1, <4>2, <5>1 DEF UpLink, Reaching
        <5>3. v # w /\ link[v] = d
          BY <3>1, <5>2
        <5> QED BY <5>1, <5>3 DEF Owned
      <4> QED BY <4>1, <4>2
    <3>4. DownLink(v, d)' => DownLink(v, d) \/ down \in due'
      BY <2>2, <2>3, <2>4, <3>1 DEF DownLink, down
    <3> QED BY <1>a, <1>b, <2>2, <3>2, <3>3, <3>4 DEF Coming
  <2>5. CASE Goto(c, "enrolling") /\ UNCHANGED <<link, flight, due>>
    <3>1. serve'[d] = IF d = c THEN "enrolling" ELSE serve[d]
      BY <1>f, <2>5
    <3>2. (UpLink(v, d)' => UpLink(v, d)) /\ (DownLink(v, d)' => DownLink(v, d))
      BY <2>1, <2>2, <2>5, <3>1 DEF UpLink, DownLink, Reaching
    <3> QED BY <1>a, <1>b, <2>2, <2>5, <3>2
  <2> QED BY <1>5, <2>4, <2>5 DEF Accept
<1>6. ASSUME NEW c \in Conn, Early(c) PROVE Goal
  <2>1. PICK list \in (flight[c]["up"] \ {Enroll}) \cap List : EarlyTakes(c, list)
    BY <1>6, EarlyPart
  <2>2. UNCHANGED <<link, conn, pc, silent, serve, granted, newest, due, sending>>
    BY <1>6 DEF Early
  <2>3. (UpLink(v, d)' => UpLink(v, d)) /\ (DownLink(v, d)' => DownLink(v, d))
    BY <2>2 DEF UpLink, DownLink
  <2>4. Downward /\ (d # c => Upward /\ EarlySame)
    BY <2>1 DEF EarlyTakes, Way
  <2>5. ASSUME UpLink(v, d), d = c PROVE Coming(up, d)'
    <3>1. of[c] = v /\ Coming(up, c)
      BY <1>q, <2>5
    <3>2. granted[up] \in List /\ list <= granted[up]
      BY <1>p, <2>1, <3>1 DEF Bounded, Values, Way, up
    <3>3. early[c] # None => early[c].newest \in List /\ early[c].newest <= granted[up]
      BY <3>1, EarlyTyped DEF Bounded, up
    <3>4. flight'[c]["up"] = flight[c]["up"] \ {list}
      BY <2>1 DEF EarlyTakes, Way
    <3>5. /\ early'[c] # None
          /\ granted[up] = list => early'[c].newest = granted[up]
          /\ early[c] # None /\ early[c].newest = granted[up] => early'[c].newest = granted[up]
      BY <2>1, <3>2, <3>3, NewerBounded DEF EarlyTakes
    <3> QED BY <1>p, <2>2, <2>5, <3>1, <3>4, <3>5 DEF Coming
  <2> QED BY <1>a, <1>b, <2>2, <2>3, <2>4, <2>5
<1>7. ASSUME NEW c \in Conn, Claim(c) PROVE Goal
  <2>1. serve[c] = "enrolling" /\ UNCHANGED <<link, conn, pc, silent>> /\ Same
    BY <1>7 DEF Claim
  <2>2. CASE Refuse(c)
    BY <1>e, <2>1, <2>2 DEF Reaching
  <2>3. CASE ~Refuse(c)
    <3>1. /\ UNCHANGED early /\ serve'[d] = IF d = c THEN "claimed" ELSE serve[d]
          /\ \A way \in Way, list \in List :
               list \in flight[d][way] => list \in flight'[d][way]
      BY <1>7, <2>3, ClaimPart
    <3>2. Upward /\ Downward
      BY <3>1 DEF Connections, Way
    <3>3. (UpLink(v, d)' => UpLink(v, d)) /\ (DownLink(v, d)' => DownLink(v, d))
      BY <2>1, <3>1 DEF UpLink, DownLink, Reaching
    <3> QED BY <1>a, <1>b, <2>1, <3>1, <3>2, <3>3
  <2> QED BY <2>2, <2>3
<1>8. ASSUME NEW c \in Conn, Unenrolled(c) \/ Rejected(c) PROVE Goal
  <2>1. /\ serve[c] \in Reaching /\ Refuse(c)
        /\ UNCHANGED <<link, conn, pc, silent>> /\ Same
    BY <1>8 DEF Unenrolled, Rejected, Reaching
  <2> QED BY <1>e, <2>1
<1>9. ASSUME NEW c \in Conn, Pin(c) PROVE Goal
  <2>1. /\ serve[c] = "claimed" /\ serve'[d] = IF d = c THEN "pinned" ELSE serve[d]
        /\ UNCHANGED <<link, conn, pc, silent, flight, early>> /\ Same
    BY <1>9, <1>f DEF Pin
  <2>2. (UpLink(v, d)' => UpLink(v, d)) /\ (DownLink(v, d)' => DownLink(v, d))
    BY <2>1 DEF UpLink, DownLink, Reaching
  <2> QED BY <1>a, <1>b, <2>1, <2>2
<1>10. ASSUME NEW c \in Conn, Insert(c) PROVE Goal
  <2>1. of[c] \in Workload
    BY <1>10, Enrolling DEF Insert
  <2>2. /\ serve[c] = "pinned" /\ serve'[d] = IF d = c THEN "admitted" ELSE serve[d]
        /\ link'[v] = IF v = of[c] THEN c ELSE link[v]
        /\ UNCHANGED <<conn, pc, silent, flight, early>> /\ Same
    BY <1>10, <1>f, <2>1 DEF Insert, Connections
  <2>3. (UpLink(v, d)' => UpLink(v, d)) /\ (DownLink(v, d)' => DownLink(v, d))
    BY <2>2 DEF UpLink, DownLink, Reaching
  <2> QED BY <1>a, <1>b, <2>2, <2>3
<1>11. ASSUME NEW c \in Conn, Welcome(c) PROVE Goal
  <2>1. /\ UNCHANGED <<flight, granted, sending>>
        /\ due' = due \cup {<<of[c], "down">>}
        /\ serve'[d] = IF d = c THEN "done" ELSE serve[d]
        /\ early'[d] = IF d = c THEN None ELSE early[d]
        /\ \A x \in Workload \X Way :
             newest'[x] = IF early[c] # None /\ x = <<of[c], "up">>
                          THEN Newer(early[c].newest, newest[x]) ELSE newest[x]
    BY <1>11, WelcomePart
  <2>2. UNCHANGED <<link, conn, pc, silent>> /\ serve[c] = "admitted"
    BY <1>11 DEF Welcome
  <2>3. ASSUME UpLink(v, d)' PROVE Coming(up, d)'
    <3>1. UpLink(v, d)
      BY <2>1, <2>2, <2>3 DEF UpLink, Reaching
    <3>2. /\ newest[up] <= granted[up] /\ newest[up] \in List /\ granted[up] \in List
      BY <1>p DEF Bounded, Values
    <3>3. early[c] # None /\ up = <<of[c], "up">> =>
            early[c].newest \in List /\ early[c].newest <= granted[up]
      BY EarlyTyped DEF Bounded, up
    <3>4. newest[up] = granted[up] => newest'[up] = granted[up]
      BY <1>p, <2>1, <3>2, <3>3, NewerBounded
    <3>5. CASE d = c /\ early[c] # None /\ early[c].newest = granted[up]
      <4>1. up = <<of[c], "up">>
        BY <1>q, <3>1, <3>5 DEF up
      <4>2. newest'[up] = granted[up]
        BY <1>p, <2>1, <3>2, <3>3, <3>5, <4>1, NewerBounded
      <4> QED BY <2>1, <4>2 DEF Coming
    <3>6. CASE ~(d = c /\ early[c] # None /\ early[c].newest = granted[up])
      BY <1>q, <2>1, <3>1, <3>4, <3>6 DEF Coming
    <3> QED BY <3>5, <3>6
  <2>4. ASSUME DownLink(v, d)' PROVE Coming(down, d)'
    <3>1. CASE d = c
      <4>1. of[c] = v
        BY <2>2, <2>4, <3>1 DEF DownLink, Owned
      <4> QED BY <2>1, <4>1 DEF Coming, down
    <3>2. CASE d # c
      <4>1. DownLink(v, d)
        BY <2>1, <2>2, <2>4, <3>2 DEF DownLink
      <4>2. newest'[down] = newest[down]
        BY <1>p, <2>1 DEF down
      <4> QED BY <1>p, <1>r, <2>1, <4>1, <4>2 DEF Coming
    <3> QED BY <3>1, <3>2
  <2> QED BY <2>3, <2>4
<1>12. ASSUME NEW x \in Workload \X Way, Change(x) PROVE Goal
  <2>1. /\ UNCHANGED <<link, conn, pc, silent, serve, flight, early, sending, newest>>
        /\ due' = due \cup {x} /\ granted' = [granted EXCEPT ![x] = @ + 1]
    BY <1>12 DEF Change
  <2>2. \A y \in Workload \X Way : y \in due' \/ granted'[y] = granted[y]
    BY <2>1 DEF Values
  <2>3. (UpLink(v, d)' => UpLink(v, d)) /\ (DownLink(v, d)' => DownLink(v, d))
    BY <2>1 DEF UpLink, DownLink
  <2> QED BY <1>p, <1>q, <1>r, <2>1, <2>2, <2>3 DEF Coming
<1>13. ASSUME NEW x \in Workload \X Way, Read(x) PROVE Goal
  <2>1. /\ UNCHANGED <<link, conn, pc, serve, flight, early, granted, newest, known>>
        /\ due' = due \ {x} /\ x \in due
        /\ sending' = IF IsPeer(x) THEN [sending EXCEPT ![x] = @ \cup {granted[x]}] ELSE sending
        /\ silent' = IF x[2] = "up" THEN silent \ {x[1]} ELSE silent
    BY <1>13 DEF Read
  <2>2. \A y \in Workload \X Way : /\ sending[y] \subseteq sending'[y]
                                   /\ y # x => (y \in due => y \in due')
    BY <2>1 DEF Values
  <2>3. ASSUME UpLink(v, d)' PROVE Coming(up, d)'
    <3>1. CASE x = up
      <4>1. IsPeer(x)
        BY <1>p, <2>1, <2>3, <3>1 DEF UpLink, IsPeer, Dialling
      <4>2. granted'[up] \in sending'[up]
        BY <1>p, <2>1, <3>1, <4>1 DEF Values
      <4> QED BY <4>2 DEF Coming
    <3>2. CASE x # up
      <4>1. x[2] = "up" => x[1] # v
        BY <3>2 DEF up
      <4>2. UpLink(v, d)
        BY <2>1, <2>3, <4>1 DEF UpLink
      <4> QED BY <1>p, <1>q, <2>1, <2>2, <3>2, <4>2 DEF Coming
    <3> QED BY <3>1, <3>2
  <2>4. ASSUME DownLink(v, d)' PROVE Coming(down, d)'
    <3>1. DownLink(v, d)
      BY <2>1, <2>4 DEF DownLink
    <3>2. CASE x = down
      <4>1. IsPeer(x)
        BY <1>p, <3>1, <3>2 DEF DownLink, IsPeer, Owned
      <4>2. granted'[down] \in sending'[down]
        BY <1>p, <2>1, <3>2, <4>1 DEF Values
      <4> QED BY <4>2 DEF Coming
    <3>3. CASE x # down
      BY <1>p, <1>r, <2>1, <2>2, <3>1, <3>3 DEF Coming
    <3> QED BY <3>2, <3>3
  <2> QED BY <2>3, <2>4
<1>14. ASSUME NEW x \in Workload \X Way, NEW list \in sending[x], Send(x, list)
       PROVE  Goal
  <2>1. /\ sending' = [sending EXCEPT ![x] = @ \ {list}]
        /\ UNCHANGED flight \/ Posts(x, list)
        /\ (/\ Sender(x) # None
            /\ IF x[2] = "up" THEN HeldDown(Sender(x)) ELSE HeldUp(Sender(x)))
             => list \in flight'[Sender(x)][x[2]]
    BY <1>14, SendPart
  <2>2. UNCHANGED <<link, conn, pc, silent, serve, early, granted, due, newest>>
    BY <1>14 DEF Send
  <2>3. (UpLink(v, d)' => UpLink(v, d)) /\ (DownLink(v, d)' => DownLink(v, d))
    BY <2>2 DEF UpLink, DownLink
  <2>4. \A way \in Way : flight[d][way] \subseteq flight'[d][way]
    BY <2>1 DEF Posts
  <2>5. \A y \in Workload \X Way : \A other \in sending[y] :
          other \in sending'[y] \/ (y = x /\ other = list)
    BY <2>1 DEF Values
  <2>6. ASSUME NEW y \in {up, down}, Coming(y, d), y = x => list \in flight'[d][y[2]]
        PROVE  Coming(y, d)'
    BY <1>p, <2>2, <2>4, <2>5, <2>6 DEF Coming
  <2>7. ASSUME UpLink(v, d), x = up PROVE list \in flight'[d]["up"]
    <3>1. Sender(x) = d /\ HeldDown(d)
      BY <1>p, <2>7 DEF UpLink, Sender, HeldDown, Reaching
    <3> QED BY <1>p, <2>1, <2>7, <3>1
  <2>8. ASSUME DownLink(v, d), x = down PROVE list \in flight'[d]["down"]
    <3>1. Sender(x) = d /\ HeldUp(d)
      BY <1>p, <2>8 DEF DownLink, Sender, HeldUp
    <3> QED BY <1>p, <2>1, <2>8, <3>1
  <2> QED BY <1>p, <1>q, <1>r, <2>3, <2>6, <2>7, <2>8
<1>15. ASSUME NEW c \in Conn, NEW way \in Way, Apply(c, way) PROVE Goal
  <2>1. PICK message \in flight[c][way] \cap Messages : Takes(c, way, message)
    BY <1>15, ApplyPart
  <2>2. UNCHANGED <<link, conn, pc, silent, serve, early, granted, due, sending>>
    BY <1>15 DEF Apply
  <2>3. (UpLink(v, d)' => UpLink(v, d)) /\ (DownLink(v, d)' => DownLink(v, d))
    BY <2>2 DEF UpLink, DownLink
  <2>4. ASSUME NEW y \in {up, down}, Coming(y, d), of[d] = v PROVE Coming(y, d)'
    <3>1. /\ y \in Workload \X Way /\ y = <<v, y[2]>> /\ y[2] \in Way
          /\ newest[y] <= granted[y] /\ newest[y] \in List /\ granted[y] \in List
      BY <1>p DEF Bounded, Values, up, down, Way
    <3>2. ASSUME message # Enroll, y = <<of[c], way>>
          PROVE  message \in List /\ message <= granted[y]
      <4>1. of[c] \in Workload /\ message \in flight[c][way] \ {Enroll}
        BY <2>1, <3>1, <3>2
      <4> QED BY <2>1, <3>2, <4>1 DEF Bounded, Messages
    <3>3. newest[y] = granted[y] => newest'[y] = granted[y]
      BY <2>1, <3>1, <3>2, NewerBounded DEF Takes
    <3>4. CASE d = c /\ y[2] = way /\ message = granted[y]
      <4>1. y = <<of[c], way>> /\ message # Enroll
        BY <2>4, <3>1, <3>4
      <4>2. newest'[y] = granted[y]
        BY <2>1, <3>1, <3>2, <3>4, <4>1, NewerBounded DEF Takes
      <4> QED BY <2>2, <4>2 DEF Coming
    <3>5. CASE ~(d = c /\ y[2] = way /\ message = granted[y])
      <4>1. granted[y] \in flight[d][y[2]] => granted[y] \in flight'[d][y[2]]
        BY <2>1, <3>1, <3>5 DEF Takes
      <4> QED BY <2>2, <2>4, <3>3, <4>1 DEF Coming
    <3> QED BY <3>4, <3>5
  <2> QED BY <1>q, <1>r, <2>3, <2>4
<1>16. ASSUME NEW w \in Workload, NEW c \in Conn, NoticeUp(w, c) PROVE Goal
  <2>1. conn[w] = c /\ UNCHANGED <<link, pc, silent, serve, early>> /\ Same
    BY <1>16 DEF NoticeUp
  <2>2. conn'[v] = IF v = w THEN None ELSE conn[v]
    BY <1>16 DEF NoticeUp, Connections
  <2>3. Upward /\ (d # c => Downward)
    BY <1>16, LostPart DEF NoticeUp, Way
  <2>4. (UpLink(v, d)' => UpLink(v, d)) /\ (DownLink(v, d)' => DownLink(v, d) /\ v # w)
    BY <2>1, <2>2 DEF UpLink, DownLink
  <2>5. DownLink(v, d) /\ v # w => d # c
    BY <2>1 DEF DownLink, Owned
  <2> QED BY <1>a, <1>b, <2>1, <2>3, <2>4, <2>5
<1>17. ASSUME NEW w \in Workload, NEW c \in Conn, NoticeDown(w, c) PROVE Goal
  <2>1. /\ link[w] = c /\ serve[c] = "done"
        /\ UNCHANGED <<conn, pc, silent, serve, early>> /\ Same
    BY <1>17 DEF NoticeDown
  <2>2. link'[v] = IF v = w THEN None ELSE link[v]
    BY <1>17 DEF NoticeDown, Connections
  <2>3. Downward /\ (d # c => Upward)
    BY <1>17, LostPart DEF NoticeDown, Way
  <2>4. UpLink(v, d)' => UpLink(v, d) /\ d # c
    BY <2>1, <2>2 DEF UpLink, Owned, Reaching
  <2>5. DownLink(v, d)' => DownLink(v, d)
    BY <2>1, <2>2 DEF DownLink
  <2> QED BY <1>a, <1>b, <2>1, <2>3, <2>4, <2>5
<1>18. CASE Restart
  <2>1. link'[v] = None /\ serve'[d] = "done"
    BY <1>18 DEF Restart, Nobody
  <2> QED BY <2>1 DEF UpLink, DownLink, Reaching
<1>19. CASE UNCHANGED vars
  BY <1>19, <1>c DEF vars, up, down
<1>20. ASSUME NEW w \in Workload, AddPinned(w) \/ SavePin(w) PROVE Goal
  BY <1>20, <1>c DEF AddPinned, SavePin, up, down
<1> QED
  BY <1>1, <1>2, <1>3, <1>4, <1>5, <1>6, <1>7, <1>8, <1>9, <1>10, <1>11, <1>12, <1>13, <1>14,
     <1>15, <1>16, <1>17, <1>18, <1>19, <1>20, NextCases DEF up, down

(* Whatever is lost, replaced, refused or restarted: when all is quiet on a    *)
(* connection, its listener has been told of the last change.                  *)
THEOREM ToldOfLastChange == Spec => []Informed
<1>1. TypeOK /\ Waiting /\ Kept => Informed
  <2> SUFFICES ASSUME Values, Connections, Owned, Waiting, Kept, NEW x \in Workload \X Way,
                      Settled(x), ~(x[2] = "up" /\ x[1] \in silent)
               PROVE  newest[x] = granted[x]
    BY TypeParts DEF Informed
  <2> DEFINE c == conn[x[1]]
  <2>1. /\ x[1] \in Workload /\ x[2] \in Way /\ x = <<x[1], x[2]>>
        /\ c \in Conn /\ of[c] = x[1] /\ pc[x[1]] = "up" /\ link[x[1]] = c
    BY DEF Settled, Linked, Connections, Owned
  <2>2. serve[c] = "done" /\ flight[c][x[2]] = {} /\ x \notin due /\ sending[x] = {}
    BY <2>1 DEF Settled
  <2>3. early[c] = None
    BY <2>1, <2>2 DEF Waiting
  <2>4. Coming(x, c)
    <3>1. CASE x[2] = "up"
      BY <2>1, <3>1 DEF Kept, UpLink
    <3>2. CASE x[2] = "down"
      BY <2>1, <2>2, <3>2 DEF Kept, DownLink
    <3> QED BY <2>1, <3>1, <3>2 DEF Way
  <2> QED BY <2>2, <2>3, <2>4 DEF Coming
<1> QED
  BY <1>1, TypeInit, TypeStep, ToldInit, WaitingStep, BoundedStep, KeptStep, PTL
     DEF Spec, Safety
-----------------------------------------------------------------------------
(* What a key is pinned for.                                                   *)

(* Only who has a token sends it, and it is the token that the key presents    *)
(* which lets it in.  From the claim until the pin the token is spent, and no  *)
(* other connection has it.                                                    *)
Carried ==
  \A c \in Conn : Enroll \in flight[c]["up"] => of[c] \in Workload /\ Presents[of[c]] # None
Claimed ==
  \A c \in Conn : serve[c] = "claimed" =>
    /\ Presents[of[c]] \in Token
    /\ of[c] \in admits[Presents[of[c]]] /\ token[Presents[of[c]]] = "spent"
    /\ \A d \in Conn : serve[d] = "claimed" /\ Presents[of[d]] = Presents[of[c]] => d = c

PinInv == Carried /\ Claimed

LEMMA PinInit == Init => PinInv
BY DEF Init, PinInv, Carried, Claimed, Way

LEMMA PinStep == TypeOK /\ PinInv /\ [Next]_vars => PinInv'
<1> SUFFICES ASSUME Values, Connections, Owned, PinInv, [Next]_vars PROVE PinInv'
  BY TypeParts
<1> USE AnnouncementsAssumption DEF tokens, operator, dialler, wire, lists
<1> DEFINE NoNewToken == \A c \in Conn : Enroll \in flight'[c]["up"] => Enroll \in flight[c]["up"]
           NoNewClaim == \A c \in Conn : serve'[c] = "claimed" => serve[c] = "claimed"
<1>a. ASSUME NoNewToken, NoNewClaim, UNCHANGED <<of, tokens>> PROVE PinInv'
  BY <1>a DEF PinInv, Carried, Claimed
<1>b. ASSUME NEW c \in Conn, NEW step \in Steps \ {"claimed"}, Goto(c, step) PROVE NoNewClaim
  BY <1>b DEF Goto, Connections
<1>c. ASSUME NEW w \in Workload, NEW c \in Conn, NEW messages \in SUBSET Greeting(w),
             Dialed(w, c, messages), UNCHANGED tokens
      PROVE  PinInv'
  <2>1. /\ messages \in SUBSET {Enroll}
        /\ Enroll \in messages => Presents[w] # None
    BY DEF Greeting
  <2>2. \A d \in Conn : /\ of'[d] = IF d = c THEN w ELSE of[d]
                        /\ serve'[d] = IF d = c THEN "new" ELSE serve[d]
                        /\ flight'[d]["up"] = IF d = c THEN messages ELSE flight[d]["up"]
    BY <1>c, <2>1, DialedPart DEF Way
  <2>3. Carried'
    BY <2>1, <2>2 DEF PinInv, Carried
  <2>4. Claimed'
    BY <1>c, <2>2 DEF PinInv, Claimed
  <2> QED BY <2>3, <2>4 DEF PinInv
<1>d. ASSUME NEW c \in Conn, Refuse(c), UNCHANGED tokens PROVE PinInv'
  BY <1>a, <1>d, RefusePart DEF Way
<1>1. ASSUME NEW t \in Token, Mint(t) \/ Expire(t) PROVE PinInv'
  <2>1. \A u \in Token : token[u] = "spent" => token'[u] = "spent"
    BY <1>1 DEF Mint, Expire, Values
  <2>2. UNCHANGED <<admits, of, serve, flight>>
    BY <1>1 DEF Mint, Expire
  <2> QED BY <2>1, <2>2 DEF PinInv, Carried, Claimed
<1>2. ASSUME NEW w \in Workload, NEW c \in Conn, NEW request \in BOOLEAN,
             AddPeer(w, c, request)
      PROVE  PinInv'
  BY <1>2, <1>c DEF AddPeer
<1>3. ASSUME NEW w \in Workload, Present(w) PROVE PinInv'
  <2>1. UNCHANGED <<of, serve, tokens>>
    BY <1>3 DEF Present
  <2>2. CASE conn[w] = None
    BY <1>3, <1>a, <2>1, <2>2 DEF Present, Greet
  <2>3. CASE conn[w] # None
    <3>1. /\ conn[w] \in Conn /\ of[conn[w]] = w
          /\ flight' = [flight EXCEPT ![conn[w]]["up"] = flight[conn[w]]["up"] \cup Greeting(w)]
      BY <1>3, <2>3 DEF Present, Greet, Connections, Owned
    <3>2. flight[conn[w]]["up"] \cup Greeting(w) \in SUBSET Messages
      BY <3>1 DEF Greeting, Messages, Connections, Way
    <3> DEFINE messages == flight[conn[w]]["up"] \cup Greeting(w)
    <3>3. messages \in SUBSET Messages /\ flight' = [flight EXCEPT ![conn[w]]["up"] = messages]
      BY <3>1, <3>2
    <3> HIDE DEF messages
    <3>4. \A d \in Conn :
            flight'[d]["up"] = IF d = conn[w] THEN messages ELSE flight[d]["up"]
      BY <3>3, FlightPut DEF Connections, Messages, Way
    <3>5. Carried'
      BY <2>1, <3>1, <3>4 DEF PinInv, Carried, Greeting, messages
    <3> QED BY <2>1, <3>5 DEF PinInv, Claimed
  <2> QED BY <2>2, <2>3
<1>4. ASSUME NEW w \in Workload, NEW c \in Conn, Redial(w, c) PROVE PinInv'
  BY <1>4, <1>c DEF Redial
<1>5. ASSUME NEW c \in Conn, Accept(c) PROVE PinInv'
  <2>1. NoNewToken
    <3>1. CASE UNCHANGED flight
      BY <3>1
    <3>2. CASE link[of[c]] # None /\ Lost(link[of[c]], "up")
      BY <1>5, <3>2, Enrolling, LostPart DEF Accept, Connections, Way
    <3> QED BY <1>5, <3>1, <3>2 DEF Accept
  <2>2. NoNewClaim
    BY <1>5, <1>b DEF Accept, Steps
  <2> QED BY <1>5, <1>a, <2>1, <2>2 DEF Accept
<1>6. ASSUME NEW c \in Conn, Early(c) PROVE PinInv'
  <2>1. NoNewToken
    BY <1>6, EarlyPart DEF EarlyTakes, Way
  <2> QED BY <1>6, <1>a, <2>1 DEF Early
<1>7. ASSUME NEW c \in Conn, Claim(c) PROVE PinInv'
  <2> DEFINE t == Presents[of[c]]
  <2>1. CASE Refuse(c) /\ UNCHANGED tokens
    BY <1>d, <2>1
  <2>2. CASE ~(Refuse(c) /\ UNCHANGED tokens)
    <3>1. /\ token[t] = "pending" /\ token' = [token EXCEPT ![t] = "spent"]
          /\ admits' = [admits EXCEPT ![t] = @ \cup {of[c]}] /\ UNCHANGED of
          /\ flight' = [flight EXCEPT ![c]["up"] = @ \ {Enroll}] /\ Goto(c, "claimed")
      BY <1>7, <2>2 DEF Claim, Spend
    <3>2. of[c] \in Workload /\ t # None /\ t \in Token
      BY <1>7 DEF Claim, PinInv, Carried
    <3>3. \A u \in Token : /\ token'[u] = IF u = t THEN "spent" ELSE token[u]
                           /\ admits'[u] = IF u = t THEN admits[u] \cup {of[c]} ELSE admits[u]
      BY <3>1 DEF Values
    <3>4. \A d \in Conn : serve'[d] = IF d = c THEN "claimed" ELSE serve[d]
      BY <3>1 DEF Goto, Connections
    <3>5. ~Refuse(c)
      BY <3>4 DEF Refuse, Goto, Connections
    <3>6. NoNewToken
      BY <1>7, <3>5, ClaimPart DEF Way
    <3>7. Carried'
      BY <3>1, <3>6 DEF PinInv, Carried
    <3>8. ASSUME NEW d \in Conn, serve[d] = "claimed"
          PROVE  /\ Presents[of[d]] \in Token /\ Presents[of[d]] # t
                 /\ of[d] \in admits[Presents[of[d]]] /\ token[Presents[of[d]]] = "spent"
      <4>1. of[d] \in Workload
        BY <3>8, Enrolling
      <4> QED BY <3>1, <3>8, <4>1 DEF PinInv, Claimed
    <3>9. ASSUME NEW d \in Conn, serve'[d] = "claimed"
          PROVE  /\ Presents[of[d]] \in Token
                 /\ of[d] \in admits'[Presents[of[d]]] /\ token'[Presents[of[d]]] = "spent"
      <4>1. CASE d = c
        BY <3>2, <3>3, <4>1
      <4>2. CASE d # c
        BY <3>3, <3>4, <3>8, <3>9, <4>2
      <4> QED BY <4>1, <4>2
    <3>10. ASSUME NEW d \in Conn, NEW e \in Conn, serve'[d] = "claimed", serve'[e] = "claimed",
                  Presents[of[e]] = Presents[of[d]]
           PROVE  e = d
      <4>1. d = c \/ e = c => d = c /\ e = c
        BY <3>4, <3>8, <3>10
      <4> QED BY <3>4, <3>10, <4>1 DEF PinInv, Claimed
    <3>11. Claimed'
      BY <3>1, <3>9, <3>10 DEF Claimed
    <3> QED BY <3>7, <3>11 DEF PinInv
  <2> QED BY <2>1, <2>2
<1>8. ASSUME NEW c \in Conn, Unenrolled(c) PROVE PinInv'
  BY <1>8, <1>d DEF Unenrolled
<1>9. ASSUME NEW c \in Conn, Rejected(c) PROVE PinInv'
  <2>1. /\ serve[c] = "claimed" /\ Refuse(c) /\ UNCHANGED admits
        /\ token' = [token EXCEPT ![Presents[of[c]]] = "wasted"]
    BY <1>9 DEF Rejected
  <2>2. /\ of' = of
        /\ \A d \in Conn : /\ serve'[d] = IF d = c THEN "done" ELSE serve[d]
                           /\ Enroll \in flight'[d]["up"] => Enroll \in flight[d]["up"]
    BY <2>1, RefusePart DEF Way
  <2>3. Carried'
    BY <2>2 DEF PinInv, Carried
  <2>4. \A d \in Conn : serve'[d] = "claimed" =>
          serve[d] = "claimed" /\ Presents[of[d]] # Presents[of[c]]
    BY <2>1, <2>2 DEF PinInv, Claimed
  <2>5. \A u \in Token : u # Presents[of[c]] => token'[u] = token[u]
    BY <2>1 DEF Values
  <2>6. Claimed'
    BY <2>1, <2>2, <2>4, <2>5 DEF PinInv, Claimed
  <2> QED BY <2>3, <2>6 DEF PinInv
<1>10. ASSUME NEW c \in Conn, Pin(c) \/ Insert(c) PROVE PinInv'
  BY <1>10, <1>a, <1>b DEF Pin, Insert, Steps
<1>11. ASSUME NEW c \in Conn, Welcome(c) PROVE PinInv'
  BY <1>11, <1>a, <1>b DEF Welcome, Steps
<1>12. ASSUME NEW x \in Workload \X Way, Change(x) \/ Read(x) PROVE PinInv'
  BY <1>12, <1>a DEF Change, Read
<1>13. ASSUME NEW x \in Workload \X Way, NEW list \in sending[x], Send(x, list)
       PROVE  PinInv'
  <2>1. list # Enroll
    BY DEF Values
  <2>2. UNCHANGED flight \/ Posts(x, list)
    BY <1>13, SendPart
  <2>3. NoNewToken
    BY <2>1, <2>2 DEF Posts, Way
  <2> QED BY <1>13, <1>a, <2>3 DEF Send
<1>14. ASSUME NEW c \in Conn, NEW way \in Way, Apply(c, way) PROVE PinInv'
  <2>1. NoNewToken
    BY <1>14, ApplyPart DEF Takes, Way
  <2> QED BY <1>14, <1>a, <2>1 DEF Apply
<1>15. ASSUME NEW w \in Workload, NEW c \in Conn, NoticeUp(w, c) \/ NoticeDown(w, c)
       PROVE  PinInv'
  <2>1. NoNewToken
    BY <1>15, LostPart DEF NoticeUp, NoticeDown, Way
  <2> QED BY <1>15, <1>a, <2>1 DEF NoticeUp, NoticeDown
<1>16. CASE Restart
  <2>1. /\ flight' = [c \in Conn |-> [flight[c] EXCEPT !["up"] = {}]]
        /\ serve' = [c \in Conn |-> "done"] /\ UNCHANGED <<of, admits>>
    BY <1>16 DEF Restart
  <2>2. \A c \in Conn : flight'[c]["up"] = {} /\ serve'[c] = "done"
    BY <2>1 DEF Connections, Way
  <2> QED BY <2>1, <2>2 DEF PinInv, Carried, Claimed
<1>17. CASE UNCHANGED vars
  BY <1>17, <1>a DEF vars
<1>18. ASSUME NEW w \in Workload, AddPinned(w) \/ SavePin(w) PROVE PinInv'
  BY <1>18, <1>a DEF AddPinned, SavePin
<1> HIDE DEF PinInv
<1> QED
  BY <1>1, <1>2, <1>3, <1>4, <1>5, <1>6, <1>7, <1>8, <1>9, <1>10, <1>11, <1>12, <1>13, <1>14,
     <1>15, <1>16, <1>17, <1>18, NextCases

(* A step that pins a key is the pin of a claim, or that of a request.         *)
LEMMA PinsOf ==
  ASSUME Next, pins' # pins
  PROVE  (\E c \in Conn : Pin(c)) \/ (\E w \in Workload : SavePin(w))
<1> USE DEF tokens, operator, dialler, wire, lists
<1> QED
  BY NextCases
     DEF Mint, Expire, AddPeer, Present, Redial, Accept, Early, Claim, Unenrolled, Rejected,
         Insert, Welcome, AddPinned, Change, Read, Send, Apply, NoticeUp, NoticeDown, Restart

(* However often and by whomever tokens are presented, and whatever fails or   *)
(* restarts: a key that no Pin request names comes into the pin file once the  *)
(* token that it presents has let it in and is spent.                          *)
THEOREM PinsAreOnPurpose == Spec => PinnedOnPurpose
<1> DEFINE OnPurpose(w) == \/ vouch[w] = "pending"
                           \/ /\ Presents[w] # None
                              /\ w \in admits[Presents[w]] /\ token[Presents[w]] = "spent"
<1>1. ASSUME TypeOK, PinInv, [Next]_vars, NEW w \in pins' \ pins PROVE OnPurpose(w)
  <2>1. pins' # pins
    BY <1>1
  <2>2. ASSUME NEW c \in Conn, Pin(c) PROVE OnPurpose(w)
    <3>1. w = of[c] /\ serve[c] = "claimed"
      BY <1>1, <2>2 DEF Pin
    <3> QED BY <1>1, <3>1, AnnouncementsAssumption DEF PinInv, Claimed
  <2>3. ASSUME NEW u \in Workload, SavePin(u) PROVE OnPurpose(w)
    BY <1>1, <2>3 DEF SavePin
  <2> QED BY <1>1, <2>1, <2>2, <2>3, PinsOf DEF vars, operator
<1>2. TypeOK /\ PinInv /\ [Next]_vars => [\A w \in pins' \ pins : OnPurpose(w)]_vars
  BY <1>1
<1> QED
  BY <1>2, TypeInit, TypeStep, PinInit, PinStep, PTL DEF Spec, Safety, PinnedOnPurpose
=============================================================================
