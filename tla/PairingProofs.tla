--------------------------- MODULE PairingProofs ----------------------------
(***************************************************************************)
(* Theorems about Pairing, for every set of desktops, every number of      *)
(* attempts a session takes and every number of sessions, controllers and  *)
(* requests on their way.                                                  *)
(***************************************************************************)
EXTENDS Pairing, FiniteSetTheorems, TLAPS

-----------------------------------------------------------------------------
(***************************************************************************)
(* The inductive invariant.                                                *)
(***************************************************************************)
\* Every controller comes from a session, and no two from the same.
OriginInv ==
  \A c \in 1..issued :
    /\ origin[c].n \in Session
    /\ \A e \in 1..issued : origin[e].n = origin[c].n => e = c

\* A desktop waits for at most one request, and it is for its offer.
WireInv ==
  /\ \A m \in wire : m.live => pc[m.d] = "wait" /\ offer[m.d] = m.n
  /\ \A m, k \in wire : m.live /\ k.live /\ m.d = k.d => m = k

\* What a desktop has been given and what it has stored.
CallInv ==
  \A d \in Desktop :
    /\ got[d] # 0 => got[d] <= issued /\ origin[got[d]] = [n |-> offer[d], d |-> d]
    /\ pc[d] \in {"answered", "stored"} <=> got[d] # 0
    /\ pc[d] = "stored" => got[d] \in vault[d]
    /\ connection[d] # 0 => /\ connection[d] <= issued
                            /\ origin[connection[d]].d = d
                            /\ connection[d] \in vault[d]

IInv == TypeOK /\ SessionInv /\ OriginInv /\ WireInv /\ CallInv

-----------------------------------------------------------------------------
(***************************************************************************)
(* Types.                                                                  *)
(***************************************************************************)
\* What a request on its way is made of.
LEMMA MessageType ==
  ASSUME TypeOK, NEW m \in wire
  PROVE  /\ m \in Message
         /\ m.d \in Desktop /\ m.n \in Session /\ m.live \in BOOLEAN
         /\ [m EXCEPT !.door = TRUE] \in Message
         /\ [m EXCEPT !.live = FALSE] \in Message
<1>1. m \in Message
  BY DEF TypeOK
<1> QED
  BY <1>1 DEF Message

\* A response takes its request off the wire and keeps the types.
LEMMA RespondType ==
  ASSUME TypeOK, NEW m \in wire, NEW c \in Controller \cup {0}, Respond(m, c)
  PROVE  /\ wire' \subseteq Message
         /\ pc' \in [Desktop -> {"idle", "wait", "answered", "stored"}]
         /\ offer' \in [Desktop -> Session \cup {0}]
         /\ got' \in [Desktop -> Controller \cup {0}]
BY MessageType DEF Respond, Return, TypeOK

\* A transaction of the pair handler keeps the types.
LEMMA HandlerType ==
  ASSUME TypeOK, NEW m \in wire,
         Door(m) \/ Guess(m) \/ Issue(m) \/ Refuse(m) \/ Lose(m)
  PROVE  TypeOK'
<1> USE DEF store, process, desktops, record
<1>1. m.d \in Desktop /\ m.n \in Session /\ [m EXCEPT !.door = TRUE] \in Message
  BY MessageType
<1>2. CASE Door(m)
  BY <1>1, <1>2 DEF Door, TypeOK
<1>3. CASE Guess(m)
  <2>1. row' \in Pairings /\ wrong' \in [Session -> Nat]
    BY <1>1, <1>3, SessionAssumption DEF Guess, Open, TypeOK, Pairings
  <2> QED
    BY <1>3, <2>1, RespondType DEF Guess, Respond, TypeOK
<1>4. CASE Issue(m)
  <2>1. row' \in Pairings
    BY <1>4 DEF Issue, TypeOK, Pairings
  <2>2. issued' \in Controller /\ issued' = issued + 1 /\ issued \in Nat
    BY <1>4, SessionAssumption DEF Issue, TypeOK, Controller
  <2>3. granted' \subseteq 1..issued'
    BY <1>4, <2>2 DEF Issue, TypeOK
  <2>4. origin' \in [Controller -> [n : Session \cup {0}, d : Desktop \cup {NoDesktop}]]
    BY <1>1, <1>4, <2>2 DEF Issue, TypeOK
  <2> QED
    BY <1>4, <2>1, <2>2, <2>3, <2>4, RespondType DEF Issue, Respond, TypeOK
<1>5. CASE Refuse(m)
  BY <1>5, RespondType DEF Refuse, Respond, TypeOK
<1>6. CASE Lose(m)
  BY <1>6 DEF Lose, TypeOK
<1> QED
  BY <1>2, <1>3, <1>4, <1>5, <1>6

\* A step of the owner, and the restarts of the agent, keep the types.
LEMMA OwnerType ==
  ASSUME TypeOK, OwnerStep \/ \E c \in Controller : Revoke(c)
  PROVE  TypeOK'
<1> USE DEF store, process, desktops, record
<1>1. CASE CreatePairing
  <2>1. row' \in Pairings
    BY <1>1, SessionAssumption DEF CreatePairing, TypeOK, Pairings, Session
  <2> QED
    BY <1>1, <2>1 DEF CreatePairing, TypeOK
<1>2. CASE Expire
  BY <1>2 DEF Expire, TypeOK, Pairings
<1>3. CASE Stop
  BY <1>3 DEF Stop, TypeOK
<1>4. CASE Down
  BY <1>4 DEF Down, TypeOK
<1>5. CASE Up
  BY <1>5 DEF Up, TypeOK
<1>6. ASSUME NEW c \in Controller, Revoke(c) PROVE TypeOK'
  BY <1>6 DEF Revoke, TypeOK
<1> QED
  BY <1>1, <1>2, <1>3, <1>4, <1>5, <1>6 DEF OwnerStep

\* A step of pair_remote keeps the types.
LEMMA DesktopType ==
  ASSUME TypeOK, CallInv,
         \/ \E d \in Desktop, n \in Session, right \in BOOLEAN : PairRemote(d, n, right)
         \/ \E d \in Desktop : SaveCredential(d) \/ SaveConnection(d) \/ GiveUp(d)
  PROVE  TypeOK'
<1> USE DEF store, process, desktops, record
<1>1. ASSUME NEW d \in Desktop, NEW n \in Session, NEW right \in BOOLEAN,
             PairRemote(d, n, right)
      PROVE  TypeOK'
  <2>1. [d |-> d, n |-> n, right |-> right, live |-> TRUE, door |-> FALSE] \in Message
    BY DEF Message
  <2> QED
    BY <1>1, <2>1 DEF PairRemote, TypeOK
<1>2. ASSUME NEW d \in Desktop, SaveCredential(d) PROVE TypeOK'
  <2>1. got[d] # 0
    BY <1>2 DEF SaveCredential, CallInv
  <2>2. got[d] \in Controller
    BY <2>1 DEF TypeOK
  <2> QED
    BY <1>2, <2>2 DEF SaveCredential, TypeOK
<1>3. ASSUME NEW d \in Desktop, SaveConnection(d) PROVE TypeOK'
  BY <1>3 DEF SaveConnection, Return, TypeOK
<1>4. ASSUME NEW d \in Desktop, GiveUp(d) PROVE TypeOK'
  <2>1. wire' \subseteq Message
    BY <1>4, MessageType DEF GiveUp
  <2> QED
    BY <1>4, <2>1 DEF GiveUp, Return, TypeOK
<1> QED
  BY <1>1, <1>2, <1>3, <1>4

-----------------------------------------------------------------------------
(***************************************************************************)
(* The sessions and what was issued for them.                              *)
(***************************************************************************)
\* As long as nothing is issued, no session has more.
LEMMA IssuedKept ==
  ASSUME UNCHANGED <<issued, origin>>
  PROVE  /\ \A n \in Session : IssuedFor(n)' = IssuedFor(n)
         /\ OriginInv => OriginInv'
BY DEF IssuedFor, OriginInv

\* Issuing adds one controller, to the session of the request.
LEMMA IssuedStep ==
  ASSUME TypeOK, NEW m \in wire, Issue(m)
  PROVE  /\ issued' = issued + 1 /\ issued \in Nat
         /\ \A c \in 1..issued : origin'[c] = origin[c]
         /\ origin'[issued'] = [n |-> m.n, d |-> m.d]
         /\ \A n \in Session \ {m.n} : IssuedFor(n)' = IssuedFor(n)
         /\ issued' \in IssuedFor(m.n)'
<1>1. issued' = issued + 1 /\ issued \in Nat /\ issued' \in Controller
  BY SessionAssumption DEF Issue, TypeOK, Controller
<1>2. /\ \A c \in 1..issued : origin'[c] = origin[c]
      /\ origin'[issued'] = [n |-> m.n, d |-> m.d]
  BY <1>1 DEF Issue, TypeOK, Controller
<1>3. ASSUME NEW n \in Session \ {m.n} PROVE IssuedFor(n)' = IssuedFor(n)
  BY <1>1, <1>2 DEF IssuedFor
<1>4. issued' \in IssuedFor(m.n)'
  BY <1>1, <1>2 DEF IssuedFor
<1> QED
  BY <1>1, <1>2, <1>3, <1>4

\* The requests on their way keep their sessions.
LEMMA WireSessions ==
  ASSUME TypeOK, Next
  PROVE  \A k \in wire' : (\E m \in wire : k.n = m.n) \/ (k.n \in Session /\ k.n <= row.n)
<1> USE DEF store, process, desktops, record
<1>1. ASSUME NEW d \in Desktop, GiveUp(d)
      PROVE  \A k \in wire' : \E m \in wire : k.n = m.n
  <2>1. \A m \in wire : m.n = [m EXCEPT !.live = FALSE].n
    BY MessageType DEF Message
  <2> QED
    BY <1>1, <2>1 DEF GiveUp
<1>2. ASSUME NEW m \in wire, Door(m)
      PROVE  \A k \in wire' : \E e \in wire : k.n = e.n
  <2>1. m.n = [m EXCEPT !.door = TRUE].n
    BY MessageType DEF Message
  <2> QED
    BY <1>2, <2>1 DEF Door
<1>3. ASSUME NEW m \in wire, Guess(m) \/ Issue(m) \/ Refuse(m) \/ Lose(m)
      PROVE  wire' \subseteq wire
  BY <1>3 DEF Guess, Issue, Refuse, Lose, Respond
<1>4. ASSUME NEW d \in Desktop, NEW n \in Session, NEW right \in BOOLEAN,
             PairRemote(d, n, right)
      PROVE  \A k \in wire' : k \in wire \/ (k.n \in Session /\ k.n <= row.n)
  BY <1>4 DEF PairRemote
<1>5. CASE OwnerStep \/ \E c \in Controller : Revoke(c)
  BY <1>5 DEF OwnerStep, CreatePairing, Expire, Stop, Down, Up, Revoke
<1>6. ASSUME NEW d \in Desktop, SaveCredential(d) \/ SaveConnection(d)
      PROVE  wire' = wire
  BY <1>6 DEF SaveCredential, SaveConnection
<1> QED
  BY <1>1, <1>2, <1>3, <1>4, <1>5, <1>6 DEF Next

\* The row stays the truth about its session, and a session its controller's.
LEMMA SessionStep ==
  ASSUME IInv, Next
  PROVE  SessionInv' /\ OriginInv'
<1> USE DEF IInv, store, process, desktops, record
<1>1. CASE UNCHANGED <<row, issued, origin, wrong>>
  <2>1. \A k \in wire' : k.n <= row.n
    BY WireSessions DEF SessionInv
  <2> QED
    BY <1>1, <2>1, IssuedKept DEF SessionInv, TypeOK, Pairings, Session
<1>2. CASE CreatePairing
  <2>1. row.n \in Nat /\ row'.n = row.n + 1 /\ row'.n \in Session
    BY <1>2, SessionAssumption DEF CreatePairing, TypeOK, Pairings, Session
  <2>2. UNCHANGED <<issued, origin, wrong, wire>> /\ row'.attempts = 0 /\ row'.consumed = FALSE
    BY <1>2 DEF CreatePairing
  <2>3. \A n \in Session : IssuedFor(n)' = IssuedFor(n) /\ OriginInv'
    BY <2>2, IssuedKept
  <2>4. wrong[row'.n] = 0 /\ IssuedFor(row'.n) = {}
    BY <2>1 DEF SessionInv
  <2>5. ASSUME NEW m \in wire PROVE m.n <= row'.n
    <3>1. m.n \in Session /\ m.n <= row.n
      BY MessageType DEF SessionInv
    <3> QED
      BY <2>1, <3>1 DEF Session
  <2>6. \A n \in Session : n > row'.n => n > row.n
    BY <2>1 DEF Session
  <2> QED
    BY <2>1, <2>2, <2>3, <2>4, <2>5, <2>6 DEF SessionInv
<1>3. CASE Expire
  <2>1. UNCHANGED <<row.n, row.attempts, row.consumed, issued, origin, wrong, wire>>
    BY <1>3 DEF Expire, TypeOK, Pairings
  <2> QED
    BY <2>1, IssuedKept DEF SessionInv, TypeOK, Pairings, Session
<1>4. ASSUME NEW m \in wire, Guess(m) PROVE SessionInv' /\ OriginInv'
  <2>1. m.n \in Session /\ row.n = m.n /\ row.attempts < Attempts
    BY <1>4, MessageType DEF Guess, Open
  <2>2. /\ UNCHANGED <<row.n, row.consumed, issued, origin>>
        /\ row'.attempts = row.attempts + 1
        /\ wrong' = [wrong EXCEPT ![m.n] = @ + 1]
        /\ wire' \subseteq wire
    BY <1>4 DEF Guess, Respond, TypeOK, Pairings
  <2>3. wrong[m.n] = row.attempts /\ row.attempts \in Nat
    BY <2>1, SessionAssumption DEF SessionInv, TypeOK, Pairings, Session
  <2>4. wrong'[m.n] = row'.attempts /\ wrong'[m.n] <= Attempts
    BY <2>1, <2>2, <2>3, SessionAssumption DEF TypeOK
  <2>5. \A n \in Session \ {m.n} : wrong'[n] = wrong[n]
    BY <2>1, <2>2 DEF TypeOK
  <2>6. \A n \in Session : n > row.n => n # m.n
    BY <2>1 DEF Session
  <2> QED
    BY <2>1, <2>2, <2>4, <2>5, <2>6, IssuedKept DEF SessionInv
<1>5. ASSUME NEW m \in wire, Issue(m) PROVE SessionInv' /\ OriginInv'
  <2>1. m.n \in Session /\ row.n = m.n /\ ~row.consumed
    BY <1>5, MessageType DEF Issue, Open
  <2>2. /\ UNCHANGED <<row.n, row.attempts, wrong>>
        /\ row'.consumed = TRUE
        /\ wire' \subseteq wire
    BY <1>5 DEF Issue, Respond, TypeOK, Pairings
  <2>3. IssuedFor(m.n) = {}
    BY <2>1 DEF SessionInv, Session
  <2>4. SessionInv'
    <3>1. \A n \in Session : n > row.n => n \in Session \ {m.n}
      BY <2>1 DEF Session
    <3> QED
      BY <1>5, <2>1, <2>2, <3>1, IssuedStep DEF SessionInv
  <2>5. OriginInv'
    <3>1. \A c \in 1..issued : origin[c].n # m.n
      BY <2>3 DEF IssuedFor
    <3>2. /\ issued' = issued + 1 /\ issued \in Nat
          /\ \A c \in 1..issued : origin'[c] = origin[c]
          /\ origin'[issued'] = [n |-> m.n, d |-> m.d]
      BY <1>5, IssuedStep
    <3>3. origin'[issued'].n = m.n
      BY <3>2
    <3>4. \A c \in 1..issued' : c \in 1..issued \/ c = issued'
      BY <3>2
    <3> QED
      BY <2>1, <3>1, <3>2, <3>3, <3>4 DEF OriginInv
  <2> QED
    BY <2>4, <2>5
<1>6. ASSUME NEW m \in wire, Door(m) \/ Refuse(m) \/ Lose(m)
      PROVE  UNCHANGED <<row, issued, origin, wrong>>
  BY <1>6 DEF Door, Refuse, Lose
<1>7. CASE Stop \/ Down \/ Up \/ \E c \in Controller : Revoke(c)
  BY <1>1, <1>7 DEF Stop, Down, Up, Revoke
<1>8. ASSUME NEW d \in Desktop,
             \/ \E n \in Session, right \in BOOLEAN : PairRemote(d, n, right)
             \/ SaveCredential(d) \/ SaveConnection(d) \/ GiveUp(d)
      PROVE  UNCHANGED <<row, issued, origin, wrong>>
  BY <1>8 DEF PairRemote, SaveCredential, SaveConnection, GiveUp
<1> QED
  BY <1>1, <1>2, <1>3, <1>4, <1>5, <1>6, <1>7, <1>8 DEF Next, OwnerStep

-----------------------------------------------------------------------------
(***************************************************************************)
(* The desktops and their requests.                                        *)
(***************************************************************************)
\* A response touches the desktop that waits for it, and only that one.
LEMMA RespondStep ==
  ASSUME IInv, NEW m \in wire, NEW c \in Controller \cup {0}, Respond(m, c)
  PROVE  /\ WireInv'
         /\ \A d \in Desktop :
              \/ UNCHANGED <<pc[d], offer[d], got[d]>>
              \/ pc'[d] = "idle" /\ got'[d] = 0
              \/ /\ d = m.d /\ c # 0 /\ pc'[d] = "answered" /\ got'[d] = c
                 /\ offer'[d] = offer[d] /\ offer[d] = m.n
<1> USE DEF IInv
<1>1. m.d \in Desktop /\ m.live \in BOOLEAN
  BY MessageType
<1>2. wire' \subseteq wire /\ m \notin wire'
  BY DEF Respond
<1>3. CASE ~m.live
  <2>1. UNCHANGED <<pc, offer, got>>
    BY <1>3 DEF Respond
  <2> QED
    BY <1>2, <2>1 DEF WireInv
<1>4. CASE m.live
  <2>1. \A k \in wire' : k.live => k.d # m.d
    BY <1>2, <1>4 DEF WireInv
  <2>2. \A d \in Desktop \ {m.d} : UNCHANGED <<pc[d], offer[d], got[d]>>
    BY <1>4, <1>1 DEF Respond, Return, TypeOK
  <2>3. \/ pc'[m.d] = "idle" /\ got'[m.d] = 0
        \/ c # 0 /\ pc'[m.d] = "answered" /\ got'[m.d] = c /\ offer'[m.d] = offer[m.d]
    BY <1>4, <1>1 DEF Respond, Return, TypeOK
  <2>4. offer[m.d] = m.n
    BY <1>4 DEF WireInv
  <2>5. \A k \in wire' : k.d \in Desktop
    BY <1>2, MessageType
  <2>6. WireInv'
    BY <1>2, <2>1, <2>2, <2>5 DEF WireInv
  <2> QED
    BY <2>2, <2>3, <2>4, <2>6
<1> QED
  BY <1>1, <1>3, <1>4

\* No desktop ever waits for two requests.
LEMMA WireStep ==
  ASSUME IInv, Next
  PROVE  WireInv'
<1> USE DEF IInv, store, process, desktops, record
<1>1. ASSUME NEW m \in wire, Guess(m) \/ Refuse(m) PROVE WireInv'
  <2>1. Respond(m, 0)
    BY <1>1 DEF Guess, Refuse
  <2> QED
    BY <2>1, RespondStep
<1>2. ASSUME NEW m \in wire, Issue(m) PROVE WireInv'
  <2>1. Respond(m, issued') /\ issued' \in Controller
    BY <1>2, SessionAssumption DEF Issue, TypeOK, Controller
  <2> QED
    BY <2>1, RespondStep
<1>3. ASSUME NEW m \in wire, Lose(m) PROVE WireInv'
  BY <1>3 DEF Lose, WireInv
<1>4. ASSUME NEW m \in wire, Door(m) PROVE WireInv'
  <2> DEFINE k == [m EXCEPT !.door = TRUE]
  <2>1. k.d = m.d /\ k.n = m.n /\ k.live = m.live
    BY MessageType DEF Message
  <2>2. wire' = (wire \ {m}) \cup {k} /\ UNCHANGED <<pc, offer>>
    BY <1>4 DEF Door
  <2> HIDE DEF k
  <2> QED
    BY <2>1, <2>2 DEF WireInv
<1>5. ASSUME NEW d \in Desktop, GiveUp(d) PROVE WireInv'
  <2> DEFINE f(m) == IF m.d = d THEN [m EXCEPT !.live = FALSE] ELSE m
  <2>1. ASSUME NEW m \in wire, f(m).live PROVE f(m) = m /\ m.d # d
    BY <2>1, MessageType DEF Message
  <2>2. wire' = {f(m) : m \in wire}
    BY <1>5 DEF GiveUp
  <2>3. \A e \in Desktop \ {d} : UNCHANGED <<pc[e], offer[e]>>
    BY <1>5 DEF GiveUp, Return, TypeOK
  <2> HIDE DEF f
  <2>4. \A k \in wire' : k.live => k \in wire /\ k.d \in Desktop \ {d}
    BY <2>1, <2>2, MessageType
  <2> QED
    BY <2>3, <2>4 DEF WireInv
<1>6. ASSUME NEW d \in Desktop, NEW n \in Session, NEW right \in BOOLEAN,
             PairRemote(d, n, right)
      PROVE  WireInv'
  <2> DEFINE k == [d |-> d, n |-> n, right |-> right, live |-> TRUE, door |-> FALSE]
  <2>1. k.d = d /\ k.n = n
    OBVIOUS
  <2>2. \A m \in wire : m.live => m.d \in Desktop \ {d}
    BY <1>6, MessageType DEF PairRemote, WireInv
  <2>3. /\ wire' = wire \cup {k} /\ pc'[d] = "wait" /\ offer'[d] = n
        /\ \A e \in Desktop \ {d} : UNCHANGED <<pc[e], offer[e]>>
    BY <1>6 DEF PairRemote, TypeOK
  <2> HIDE DEF k
  <2> QED
    BY <2>1, <2>2, <2>3 DEF WireInv
<1>7. ASSUME NEW d \in Desktop, SaveCredential(d) \/ SaveConnection(d) PROVE WireInv'
  <2>1. \A m \in wire : m.live => m.d \in Desktop \ {d}
    BY <1>7, MessageType DEF SaveCredential, SaveConnection, WireInv
  <2>2. wire' = wire /\ \A e \in Desktop \ {d} : UNCHANGED <<pc[e], offer[e]>>
    BY <1>7 DEF SaveCredential, SaveConnection, Return, TypeOK
  <2> QED
    BY <2>1, <2>2 DEF WireInv
<1>8. CASE OwnerStep \/ \E c \in Controller : Revoke(c)
  <2>1. wire' \subseteq wire /\ UNCHANGED <<pc, offer>>
    BY <1>8 DEF OwnerStep, CreatePairing, Expire, Stop, Down, Up, Revoke
  <2> QED
    BY <2>1 DEF WireInv
<1> QED
  BY <1>1, <1>2, <1>3, <1>4, <1>5, <1>6, <1>7, <1>8 DEF Next

\* What was issued stays as it was issued.
LEMMA OriginKept ==
  ASSUME IInv, Next
  PROVE  /\ issued \in Nat /\ issued' \in Nat /\ issued <= issued'
         /\ \A c \in 1..issued : origin'[c] = origin[c]
<1> USE DEF IInv, store, process, desktops, record
<1>1. issued \in Nat
  BY SessionAssumption DEF TypeOK, Controller
<1>2. ASSUME NEW m \in wire, Issue(m)
      PROVE  /\ issued' = issued + 1
             /\ \A c \in 1..issued : origin'[c] = origin[c]
  BY <1>2, IssuedStep
<1>3. ASSUME NEW m \in wire, Door(m) \/ Guess(m) \/ Refuse(m) \/ Lose(m)
      PROVE  UNCHANGED <<issued, origin>>
  BY <1>3 DEF Door, Guess, Refuse, Lose
<1>4. CASE OwnerStep \/ \E c \in Controller : Revoke(c)
  BY <1>1, <1>4 DEF OwnerStep, CreatePairing, Expire, Stop, Down, Up, Revoke
<1>5. ASSUME NEW d \in Desktop,
             \/ \E n \in Session, right \in BOOLEAN : PairRemote(d, n, right)
             \/ SaveCredential(d) \/ SaveConnection(d) \/ GiveUp(d)
      PROVE  UNCHANGED <<issued, origin>>
  BY <1>5 DEF PairRemote, SaveCredential, SaveConnection, GiveUp
<1> QED
  BY <1>1, <1>2, <1>3, <1>4, <1>5 DEF Next

\* A desktop is given its own controller, and stores the token first.
LEMMA CallStep ==
  ASSUME IInv, Next
  PROVE  CallInv'
<1> USE DEF IInv, store, process, desktops, record
<1> DEFINE Given(d) == got[d] # 0 => got[d] <= issued /\ origin[got[d]] = [n |-> offer[d], d |-> d]
           Calls(d) == /\ pc[d] \in {"answered", "stored"} <=> got[d] # 0
                       /\ pc[d] = "stored" => got[d] \in vault[d]
           Kept(d) == connection[d] # 0 => /\ connection[d] <= issued
                                           /\ origin[connection[d]].d = d
                                           /\ connection[d] \in vault[d]
<1>1. /\ issued \in Nat /\ issued' \in Nat /\ issued <= issued'
      /\ \A c \in 1..issued : origin'[c] = origin[c]
  BY OriginKept
<1>2. \A d \in Desktop : got[d] \in Nat /\ connection[d] \in Nat
  BY SessionAssumption DEF TypeOK, Controller
<1>3. \A d \in Desktop : Given(d) /\ Calls(d) /\ Kept(d)
  BY DEF CallInv
<1>4. ASSUME NEW d \in Desktop, UNCHANGED <<offer[d], got[d]>> PROVE Given(d)'
  <2>1. got[d] # 0 => got[d] \in 1..issued
    <3>1. got[d] \in Nat /\ issued \in Nat
      BY <1>1, <1>2
    <3>2. got[d] # 0 => got[d] <= issued
      BY <1>3
    <3> QED
      BY <3>1, <3>2
  <2> QED
    BY <1>1, <1>2, <1>3, <1>4, <2>1
<1>5. ASSUME NEW d \in Desktop, connection'[d] = connection[d], vault[d] \subseteq vault'[d]
      PROVE  Kept(d)'
  <2>1. connection[d] # 0 => connection[d] \in 1..issued
    <3>1. connection[d] \in Nat /\ issued \in Nat
      BY <1>1, <1>2
    <3>2. connection[d] # 0 => connection[d] <= issued
      BY <1>3
    <3> QED
      BY <3>1, <3>2
  <2>2. connection[d] # 0 => /\ connection[d] <= issued'
                             /\ origin'[connection[d]] = origin[connection[d]]
    BY <1>1, <1>2, <2>1
  <2>3. Kept(d)
    BY <1>3
  <2> QED
    BY <1>5, <2>2, <2>3
<1>6. ASSUME NEW d \in Desktop, UNCHANGED <<pc[d], offer[d], got[d], vault[d], connection[d]>>
      PROVE  Given(d)' /\ Calls(d)' /\ Kept(d)'
  BY <1>3, <1>4, <1>5, <1>6
<1>7. SUFFICES ASSUME NEW d \in Desktop PROVE Given(d)' /\ Calls(d)' /\ Kept(d)'
  BY DEF CallInv
<1>8. ASSUME NEW m \in wire, NEW c \in Controller \cup {0}, Respond(m, c),
             c # 0 => c = issued' /\ origin'[c] = [n |-> m.n, d |-> m.d]
      PROVE  Given(d)' /\ Calls(d)' /\ Kept(d)'
  <2>1. UNCHANGED <<vault, connection>>
    BY <1>8 DEF Respond
  <2>2. Kept(d)'
    BY <2>1, <1>5
  <2>3. CASE UNCHANGED <<pc[d], offer[d], got[d]>>
    BY <2>1, <2>3, <1>6
  <2>4. CASE pc'[d] = "idle" /\ got'[d] = 0
    BY <2>2, <2>4
  <2>5. CASE /\ d = m.d /\ c # 0 /\ pc'[d] = "answered" /\ got'[d] = c
             /\ offer'[d] = offer[d] /\ offer[d] = m.n
    BY <1>1, <1>8, <2>2, <2>5
  <2> QED
    BY <1>8, <2>3, <2>4, <2>5, RespondStep
<1>9. ASSUME NEW m \in wire, Guess(m) \/ Refuse(m)
      PROVE  Given(d)' /\ Calls(d)' /\ Kept(d)'
  <2>1. Respond(m, 0)
    BY <1>9 DEF Guess, Refuse
  <2> QED
    BY <2>1, <1>8
<1>10. ASSUME NEW m \in wire, Issue(m) PROVE Given(d)' /\ Calls(d)' /\ Kept(d)'
  <2>1. Respond(m, issued') /\ issued' \in Controller
    BY <1>10, SessionAssumption DEF Issue, TypeOK, Controller
  <2>2. origin'[issued'] = [n |-> m.n, d |-> m.d]
    BY <1>10, IssuedStep
  <2> QED
    BY <2>1, <2>2, <1>8
<1>11. ASSUME NEW m \in wire, Door(m) \/ Lose(m)
       PROVE  Given(d)' /\ Calls(d)' /\ Kept(d)'
  BY <1>11, <1>6 DEF Door, Lose
<1>12. CASE OwnerStep \/ \E c \in Controller : Revoke(c)
  BY <1>12, <1>6 DEF OwnerStep, CreatePairing, Expire, Stop, Down, Up, Revoke
<1>13. ASSUME NEW e \in Desktop, NEW n \in Session, NEW right \in BOOLEAN,
              PairRemote(e, n, right)
       PROVE  Given(d)' /\ Calls(d)' /\ Kept(d)'
  <2>1. UNCHANGED <<got, vault, connection>>
    BY <1>13 DEF PairRemote
  <2>2. CASE d = e
    <3>1. pc[d] = "idle" /\ pc'[d] = "wait" /\ got[d] = 0
      BY <1>3, <1>13, <2>2 DEF PairRemote, TypeOK
    <3> QED
      BY <2>1, <3>1, <1>5
  <2>3. CASE d # e
    <3>1. UNCHANGED <<pc[d], offer[d]>>
      BY <1>13, <2>3 DEF PairRemote, TypeOK
    <3> QED
      BY <2>1, <3>1, <1>6
  <2> QED
    BY <2>2, <2>3
<1>14. ASSUME NEW e \in Desktop, SaveCredential(e) \/ SaveConnection(e) \/ GiveUp(e), d # e
       PROVE  Given(d)' /\ Calls(d)' /\ Kept(d)'
  <2>1. UNCHANGED <<pc[d], offer[d], got[d], vault[d], connection[d]>>
    BY <1>14 DEF SaveCredential, SaveConnection, GiveUp, Return, TypeOK
  <2> QED
    BY <2>1, <1>6
<1>15. CASE SaveCredential(d)
  <2>1. /\ pc[d] = "answered" /\ pc'[d] = "stored"
        /\ UNCHANGED <<offer, got, connection>>
        /\ vault'[d] = vault[d] \cup {got[d]}
    BY <1>15 DEF SaveCredential, TypeOK
  <2>2. Given(d)' /\ Kept(d)'
    BY <2>1, <1>4, <1>5
  <2>3. Calls(d)'
    BY <2>1, <1>3
  <2> QED
    BY <2>2, <2>3
<1>16. CASE SaveConnection(d)
  <2>1. /\ pc[d] = "stored" /\ pc'[d] = "idle"
        /\ got'[d] = 0 /\ connection'[d] = got[d]
        /\ UNCHANGED <<vault, issued, origin>>
    BY <1>16 DEF SaveConnection, Return, TypeOK
  <2>2. Given(d)' /\ Calls(d)'
    BY <2>1
  <2>3. got[d] <= issued /\ origin[got[d]] = [n |-> offer[d], d |-> d] /\ got[d] \in vault[d]
    BY <2>1, <1>3
  <2>4. Kept(d)'
    BY <2>1, <2>3
  <2> QED
    BY <2>2, <2>4
<1>17. CASE GiveUp(d)
  <2>1. /\ pc'[d] = "idle" /\ got'[d] = 0
        /\ UNCHANGED <<vault, connection>>
    BY <1>17 DEF GiveUp, Return, TypeOK
  <2>2. Kept(d)'
    BY <2>1, <1>5
  <2> QED
    BY <2>1, <2>2
<1> QED
  BY <1>9, <1>10, <1>11, <1>12, <1>13, <1>14, <1>15, <1>16, <1>17 DEF Next

-----------------------------------------------------------------------------
(***************************************************************************)
(* The theorems.                                                           *)
(***************************************************************************)
\* The invariant holds at the start.
LEMMA InitInv == Init => IInv
<1> SUFFICES ASSUME Init PROVE IInv
  OBVIOUS
<1> USE DEF Init
<1>1. TypeOK
  <2>1. row \in Pairings
    BY SessionAssumption DEF Pairings
  <2>2. origin \in [Controller -> [n : Session \cup {0}, d : Desktop \cup {NoDesktop}]]
    BY DEF Nothing
  <2> QED
    BY <2>1, <2>2 DEF TypeOK
<1>2. SessionInv /\ OriginInv
  BY SessionAssumption DEF SessionInv, OriginInv, IssuedFor, Session
<1>3. WireInv /\ CallInv
  BY DEF WireInv, CallInv
<1> QED
  BY <1>1, <1>2, <1>3 DEF IInv

\* Every step keeps it.
LEMMA StepInv == IInv /\ [Next]_vars => IInv'
<1> SUFFICES ASSUME IInv, [Next]_vars PROVE IInv'
  OBVIOUS
<1>1. CASE Next
  <2>1. TypeOK'
    BY <1>1, HandlerType, OwnerType, DesktopType DEF IInv, Next
  <2> QED
    BY <1>1, <2>1, SessionStep, WireStep, CallStep DEF IInv
<1>2. CASE UNCHANGED vars
  BY <1>2 DEF vars, store, process, desktops, record, IInv, TypeOK, SessionInv, IssuedFor,
              OriginInv, WireInv, CallInv
<1> QED
  BY <1>1, <1>2

\* The inductive invariant: the row is the truth about its session, no two
\* controllers come from one session, and a desktop waits for one request.
THEOREM PairingInvariant == Spec => []IInv
BY InitInv, StepInv, PTL DEF Spec

\* The state is of its type: in particular the attempts counted never pass
\* the bound pair looks at.
THEOREM TypeCorrect == Spec => []TypeOK
<1>1. IInv => TypeOK
  BY DEF IInv
<1> QED
  BY <1>1, PairingInvariant, PTL

\* The row of agent_pairings counts every wrong secret of its session and
\* knows whether a controller was issued (AgentStore::pair, create_pairing).
THEOREM RowIsTruth == Spec => []SessionInv
<1>1. IInv => SessionInv
  BY DEF IInv
<1> QED
  BY <1>1, PairingInvariant, PTL

\* A session issues at most one controller (the consumed column of pair).
THEOREM OneController == Spec => []OneControllerPerSession
<1>1. ASSUME IInv, NEW n \in Session PROVE Cardinality(IssuedFor(n)) <= 1
  <2>1. \A c, e \in IssuedFor(n) : c = e
    BY <1>1 DEF IInv, OriginInv, IssuedFor
  <2>2. CASE IssuedFor(n) = {}
    BY <2>2, FS_EmptySet
  <2>3. CASE IssuedFor(n) # {}
    <3>1. PICK c : IssuedFor(n) = {c}
      BY <2>1, <2>3
    <3> QED
      BY <3>1, FS_Singleton
  <2> QED
    BY <2>2, <2>3
<1>2. IInv => OneControllerPerSession
  BY <1>1 DEF OneControllerPerSession
<1> QED
  BY <1>2, PairingInvariant, PTL

\* A desktop is given, and stores, only what was issued for its own request,
\* and never before the token (pair_remote).
THEOREM OwnConnection == Spec => []ConnectionIsOwn
<1>1. IInv => ConnectionIsOwn
  BY DEF IInv, CallInv, ConnectionIsOwn
<1> QED
  BY <1>1, PairingInvariant, PTL

\* Once a session has taken all its wrong secrets, or is replaced or expired,
\* it issues nothing (the checks of pair and the delete of create_pairing).
THEOREM SpentSessions == Spec => SpentIssuesNothing
<1> DEFINE Spent(n) == wrong[n] >= Attempts \/ n < row.n \/ (n = row.n /\ row.expired)
<1>1. ASSUME IInv, Next, NEW n \in Session, Spent(n)
      PROVE  IssuedFor(n)' = IssuedFor(n)
  <2> USE DEF store, process, desktops, record
  <2>1. ASSUME NEW m \in wire, Issue(m) PROVE IssuedFor(n)' = IssuedFor(n)
    <3>1. m.n \in Session /\ row.n = m.n /\ row.attempts < Attempts /\ ~row.expired
      BY <1>1, <2>1, MessageType DEF Issue, Open, IInv
    <3>2. row.attempts = wrong[m.n] /\ row.attempts \in Nat
      BY <1>1, <3>1, SessionAssumption DEF IInv, SessionInv, TypeOK, Pairings, Session
    <3>3. n # m.n
      BY <1>1, <3>1, <3>2, SessionAssumption DEF Session
    <3> QED
      BY <1>1, <2>1, <3>3, IssuedStep DEF IInv
  <2>2. CASE UNCHANGED <<issued, origin>>
    BY <2>2, IssuedKept
  <2>3. ASSUME NEW m \in wire, Door(m) \/ Guess(m) \/ Refuse(m) \/ Lose(m)
        PROVE  UNCHANGED <<issued, origin>>
    BY <2>3 DEF Door, Guess, Refuse, Lose
  <2>4. CASE OwnerStep \/ \E c \in Controller : Revoke(c)
    BY <2>2, <2>4 DEF OwnerStep, CreatePairing, Expire, Stop, Down, Up, Revoke
  <2>5. ASSUME NEW d \in Desktop,
               \/ \E k \in Session, right \in BOOLEAN : PairRemote(d, k, right)
               \/ SaveCredential(d) \/ SaveConnection(d) \/ GiveUp(d)
        PROVE  UNCHANGED <<issued, origin>>
    BY <2>5 DEF PairRemote, SaveCredential, SaveConnection, GiveUp
  <2> QED
    BY <1>1, <2>1, <2>2, <2>3, <2>4, <2>5 DEF Next
<1>2. ASSUME UNCHANGED vars, NEW n \in Session PROVE IssuedFor(n)' = IssuedFor(n)
  BY <1>2 DEF vars, store, record, IssuedFor
<1>3. IInv /\ [Next]_vars =>
        [\A n \in Session : Spent(n) => IssuedFor(n)' = IssuedFor(n)]_vars
  BY <1>1, <1>2
<1> QED
  BY <1>3, PairingInvariant, PTL DEF Spec, SpentIssuesNothing
=============================================================================
