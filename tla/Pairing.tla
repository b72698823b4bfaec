------------------------------- MODULE Pairing ------------------------------
(***************************************************************************)
(* Pairing several desktops with one agent: the agent's pairing session    *)
(* (create_pairing, pair and revoke of AgentStore), the door its handlers  *)
(* keep (accepting), and pair_remote on each desktop with what it leaves   *)
(* in the credential store and in the stored connection.                   *)
(*                                                                         *)
(* The same offer may be pasted on several desktops, whole or damaged.     *)
(* Requests and responses may be lost, a request may be handled after its  *)
(* sender has given up, and the agent may stop and start again in between. *)
(* Requests nobody waits for are told apart only by what they ask.  The    *)
(* agent's clock decides when a session expires; a desktop's own clock,    *)
(* which only refuses to send, is not followed.                            *)
(***************************************************************************)
EXTENDS Naturals, FiniteSets

CONSTANTS
  Desktop,    \* the controlling desktops
  NoDesktop,  \* none of them
  Attempts,   \* wrong secrets a session takes (5)
  MaxSession, \* bound: sessions created
  MaxIssue,   \* bound: controllers issued
  MaxWire     \* bound: requests on their way

ASSUME DesktopAssumption == NoDesktop \notin Desktop
ASSUME SessionAssumption ==
  Attempts \in Nat \ {0} /\ MaxSession \in Nat /\ MaxIssue \in Nat /\ MaxWire \in Nat

Session == 1..MaxSession
Controller == 1..MaxIssue \* agent_controllers, in the order they are issued

VARIABLES
  \* agent.db
  row,        \* the one row of agent_pairings; n = 0: none yet
  issued,     \* rows of agent_controllers
  granted,    \* those not revoked
  \* the agent process
  agent,      \* "up", "draining" (accepting is false) or "down"
  late,       \* draining, but an owner_pair handler looked at accepting before
  \* the network and the agent's pair handlers
  wire,       \* POST /v1/pair requests sent and not yet answered
  \* the desktops
  pc,         \* where pair_remote is
  offer,      \* the session in the offer it was given
  got,        \* the controller in the response
  vault,      \* controllers whose token is in the credential store
  connection, \* the controller in the stored connection; 0: none
  \* what happened, for the properties
  origin,     \* the session and the desktop a controller was issued for
  wrong       \* wrong secrets compared with that of a session

store == <<row, issued, granted>>
process == <<agent, late>>
desktops == <<pc, offer, got, vault, connection>>
record == <<origin, wrong>>
vars == <<store, process, wire, desktops, record>>

Pairings == [n : Session \cup {0}, attempts : 0..Attempts, consumed : BOOLEAN,
             expired : BOOLEAN]
Message == [d : Desktop, n : Session, right : BOOLEAN, live : BOOLEAN, door : BOOLEAN]
Nothing == [n |-> 0, d |-> NoDesktop]

(***************************************************************************)
(* The type of the state.                                                  *)
(***************************************************************************)
TypeOK ==
  /\ row \in Pairings
  /\ issued \in Controller \cup {0}
  /\ granted \subseteq 1..issued
  /\ agent \in {"up", "draining", "down"}
  /\ late \in BOOLEAN
  /\ wire \subseteq Message
  /\ pc \in [Desktop -> {"idle", "wait", "answered", "stored"}]
  /\ offer \in [Desktop -> Session \cup {0}]
  /\ got \in [Desktop -> Controller \cup {0}]
  /\ vault \in [Desktop -> SUBSET Controller]
  /\ connection \in [Desktop -> Controller \cup {0}]
  /\ origin \in [Controller -> [n : Session \cup {0}, d : Desktop \cup {NoDesktop}]]
  /\ wrong \in [Session -> Nat]

Init ==
  /\ row = [n |-> 0, attempts |-> 0, consumed |-> FALSE, expired |-> FALSE]
  /\ issued = 0
  /\ granted = {}
  /\ agent = "up"
  /\ late = FALSE
  /\ wire = {}
  /\ pc = [d \in Desktop |-> "idle"]
  /\ offer = [d \in Desktop |-> 0]
  /\ got = [d \in Desktop |-> 0]
  /\ vault = [d \in Desktop |-> {}]
  /\ connection = [d \in Desktop |-> 0]
  /\ origin = [c \in Controller |-> Nothing]
  /\ wrong = [n \in Session |-> 0]

-----------------------------------------------------------------------------
(***************************************************************************)
(* The owner's side of the agent.                                          *)
(***************************************************************************)
\* owner_pair, which looks at accepting, then one transaction: the earlier
\* session is deleted, a new one inserted.
CreatePairing ==
  /\ agent = "up" \/ late
  /\ row.n < MaxSession
  /\ row' = [n |-> row.n + 1, attempts |-> 0, consumed |-> FALSE, expired |-> FALSE]
  /\ late' = FALSE
  /\ UNCHANGED <<issued, granted, agent, wire, desktops, record>>

\* Five minutes have gone by.
Expire ==
  /\ row.n # 0
  /\ ~row.expired
  /\ row' = [row EXCEPT !.expired = TRUE]
  /\ UNCHANGED <<issued, granted, process, wire, desktops, record>>

Revoke(c) ==
  /\ c \in granted
  /\ agent # "down"
  /\ granted' = granted \ {c}
  /\ UNCHANGED <<row, issued, process, wire, desktops, record>>

\* request_stop: new requests are turned away at the door.
Stop ==
  /\ agent = "up"
  /\ agent' = "draining"
  /\ late' \in BOOLEAN
  /\ UNCHANGED <<store, wire, desktops, record>>

\* The process ends, in order or not, and its handlers with it.
Down ==
  /\ agent # "down"
  /\ agent' = "down"
  /\ late' = FALSE
  /\ wire' = {m \in wire : ~m.door}
  /\ UNCHANGED <<store, desktops, record>>

Up ==
  /\ agent = "down"
  /\ agent' = "up"
  /\ UNCHANGED <<store, late, wire, desktops, record>>

-----------------------------------------------------------------------------
(***************************************************************************)
(* The pair handler: accepting is looked at before the transaction.        *)
(***************************************************************************)
Door(m) ==
  /\ agent = "up"
  /\ ~m.door
  /\ wire' = (wire \ {m}) \cup {[m EXCEPT !.door = TRUE]}
  /\ UNCHANGED <<store, process, desktops, record>>

\* The row of the request's session, and it may still be used.
Open(n) ==
  row.n = n /\ ~row.consumed /\ row.attempts < Attempts /\ ~row.expired

\* pair_remote returns, with an error or without.
Return(d) ==
  /\ pc' = [pc EXCEPT ![d] = "idle"]
  /\ offer' = [offer EXCEPT ![d] = 0]
  /\ got' = [got EXCEPT ![d] = 0]

\* The response reaches the desktop if it still waits for it; an error ends
\* pair_remote.
Respond(m, c) ==
  /\ wire' = wire \ {m}
  /\ IF m.live
     THEN IF c = 0 THEN Return(m.d)
          ELSE /\ pc' = [pc EXCEPT ![m.d] = "answered"]
               /\ got' = [got EXCEPT ![m.d] = c]
               /\ UNCHANGED offer
     ELSE UNCHANGED <<pc, offer, got>>
  /\ UNCHANGED <<process, vault, connection>>

\* A bug: the error return drops the transaction that counts the attempt.
GuessRolledBack(m) ==
  /\ m.door
  /\ Open(m.n)
  /\ ~m.right
  /\ wrong' = [wrong EXCEPT ![m.n] = @ + 1]
  /\ Respond(m, 0)
  /\ UNCHANGED <<store, origin>>

\* The transaction of a wrong secret: it is counted.
Guess(m) ==
  /\ m.door
  /\ Open(m.n)
  /\ ~m.right
  /\ row' = [row EXCEPT !.attempts = @ + 1]
  /\ wrong' = [wrong EXCEPT ![m.n] = @ + 1]
  /\ Respond(m, 0)
  /\ UNCHANGED <<issued, granted, origin>>

\* A bug: the session is not marked as consumed.
IssueAgain(m) ==
  /\ m.door
  /\ Open(m.n)
  /\ m.right
  /\ issued < MaxIssue
  /\ issued' = issued + 1
  /\ granted' = granted \cup {issued'}
  /\ origin' = [origin EXCEPT ![issued'] = [n |-> m.n, d |-> m.d]]
  /\ Respond(m, issued')
  /\ UNCHANGED <<row, wrong>>

\* The transaction of the right secret: the session is consumed and a
\* controller issued.
Issue(m) ==
  /\ m.door
  /\ Open(m.n)
  /\ m.right
  /\ issued < MaxIssue
  /\ row' = [row EXCEPT !.consumed = TRUE]
  /\ issued' = issued + 1
  /\ granted' = granted \cup {issued'}
  /\ origin' = [origin EXCEPT ![issued'] = [n |-> m.n, d |-> m.d]]
  /\ Respond(m, issued')
  /\ UNCHANGED wrong

\* Draining, no such session, used, expired, or the database fails.
Refuse(m) ==
  /\ agent # "down"
  /\ Respond(m, 0)
  /\ UNCHANGED <<store, record>>

\* The connection is lost: the handler is dropped.
Lose(m) ==
  /\ wire' = wire \ {m}
  /\ UNCHANGED <<store, process, desktops, record>>

-----------------------------------------------------------------------------
(***************************************************************************)
(* pair_remote on a desktop, under its remote_lock.                        *)
(***************************************************************************)
PairRemote(d, n, right) ==
  /\ pc[d] = "idle"
  /\ n <= row.n
  /\ Cardinality(wire) < MaxWire
  /\ pc' = [pc EXCEPT ![d] = "wait"]
  /\ offer' = [offer EXCEPT ![d] = n]
  /\ wire' = wire \cup {[d |-> d, n |-> n, right |-> right, live |-> TRUE,
                         door |-> FALSE]}
  /\ UNCHANGED <<store, process, got, vault, connection, record>>

SaveCredential(d) ==
  /\ pc[d] = "answered"
  /\ pc' = [pc EXCEPT ![d] = "stored"]
  /\ vault' = [vault EXCEPT ![d] = @ \cup {got[d]}]
  /\ UNCHANGED <<store, process, wire, offer, got, connection, record>>

\* The capabilities, which need an authorized controller, agree with the
\* offer; then save_connection takes the place of an earlier pairing.
SaveConnection(d) ==
  /\ pc[d] = "stored"
  /\ agent # "down"
  /\ got[d] \in granted
  /\ connection' = [connection EXCEPT ![d] = got[d]]
  /\ Return(d)
  /\ UNCHANGED <<store, process, wire, vault, record>>

\* A bug: the request given up is still taken for the one waited for.
GiveUpLive(d) ==
  /\ pc[d] # "idle"
  /\ Return(d)
  /\ UNCHANGED <<store, process, wire, vault, connection, record>>

\* An error, the timeout of the request, or the end of the desktop process,
\* at any point: what was stored so far stays, and the request may still
\* arrive.
GiveUp(d) ==
  /\ pc[d] # "idle"
  /\ Return(d)
  /\ wire' = {IF m.d = d THEN [m EXCEPT !.live = FALSE] ELSE m : m \in wire}
  /\ UNCHANGED <<store, process, vault, connection, record>>

-----------------------------------------------------------------------------
OwnerStep == CreatePairing \/ Expire \/ Stop \/ Down \/ Up

Next ==
  \/ OwnerStep
  \/ \E c \in Controller : Revoke(c)
  \/ \E m \in wire : Door(m) \/ Guess(m) \/ Issue(m) \/ Refuse(m) \/ Lose(m)
  \/ \E d \in Desktop, n \in Session, right \in BOOLEAN : PairRemote(d, n, right)
  \/ \E d \in Desktop : SaveCredential(d) \/ SaveConnection(d) \/ GiveUp(d)

Spec == Init /\ [][Next]_vars

-----------------------------------------------------------------------------
(***************************************************************************)
(* What pairing promises.                                                  *)
(***************************************************************************)
IssuedFor(n) == {c \in 1..issued : origin[c].n = n}

\* An offer is good for one pairing: whoever pastes it, however often, in
\* whatever order its requests arrive, also late, while the agent stops and
\* after it has started again, a session issues one controller.
OneControllerPerSession ==
  \A n \in Session : Cardinality(IssuedFor(n)) <= 1

\* A session that has been offered Attempts wrong secrets, or has been
\* replaced by a new one, or has expired, issues nothing more.
SpentIssuesNothing ==
  [][\A n \in Session :
       wrong[n] >= Attempts \/ n < row.n \/ (n = row.n /\ row.expired) =>
         IssuedFor(n)' = IssuedFor(n)]_vars

\* Why: the row in the database is the whole truth about its session.
SessionInv ==
  /\ row.n # 0 => /\ row.attempts = wrong[row.n]
                  /\ row.consumed <=> IssuedFor(row.n) # {}
  /\ \A n \in Session : n > row.n => wrong[n] = 0 /\ IssuedFor(n) = {}
  /\ \A n \in Session : wrong[n] <= Attempts
  /\ \A m \in wire : m.n <= row.n

\* A desktop acts as the controller that was issued for its own request, of
\* the offer it was given, and as one whose token it has: no answer to an
\* earlier request or to another desktop is taken for its own, and a
\* connection is not stored before its credential.
ConnectionIsOwn ==
  \A d \in Desktop :
    /\ got[d] # 0 => origin[got[d]] = [n |-> offer[d], d |-> d]
    /\ connection[d] # 0 => origin[connection[d]].d = d /\ connection[d] \in vault[d]
=============================================================================
