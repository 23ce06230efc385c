----------------------------- MODULE CommuneCookie ---------------------------
(***************************************************************************)
(* The commune of a De Watergroep card (providers/de_watergroep.py). The   *)
(* endpoint takes the commune from a cookie, dwg_l, and its answer names   *)
(* none. Every entry asks through Home Assistant's one client session,     *)
(* whose jar keeps the dwg_l an answer sets and puts it before the one a   *)
(* request names itself; a request empties the jar of it when it ends.     *)
(***************************************************************************)
CONSTANTS Homes,      \* the entries of this operator
          CommuneOf,  \* the commune each asks for
          Abreast,    \* TRUE: the entries' requests may overlap
          None

\* What the constants are; MCParts assumes it of its values.
CookieAssumption ==
  /\ DOMAIN CommuneOf = Homes /\ \A h \in Homes : CommuneOf[h] # None
  /\ Abreast \in BOOLEAN

VARIABLES
  jar,      \* the session's dwg_l
  request,  \* each entry's request: [at, cookie]
  shown     \* the commune each entry's card is really of

vars == <<jar, request, shown>>

Idle == [at |-> "idle", cookie |-> None]

\* session.get: the jar's cookie goes before the header's.
Send(h) ==
  /\ request[h] = Idle
  /\ Abreast \/ \A other \in Homes : request[other] = Idle
  /\ request' = [request EXCEPT ![h] =
       [at |-> "sent", cookie |-> IF jar = None THEN CommuneOf[h] ELSE jar]]
  /\ UNCHANGED <<jar, shown>>

\* The answer's headers are in, and its cookie with them when it sets one; the body is
\* still to be read.
HeadersCome(h) ==
  /\ request[h].at = "sent"
  /\ request' = [request EXCEPT ![h].at = "body"]
  /\ jar' \in {jar, request[h].cookie}
  /\ UNCHANGED shown

\* Mutant: the jar keeps what the answer set.
Kept == jar

\* _fetch_commune_ajax's finally.
Cleared == None

\* The body is read, and parsed as the card of the commune asked for.
BodyRead(h) ==
  /\ request[h].at = "body"
  /\ shown' = [shown EXCEPT ![h] = request[h].cookie]
  /\ request' = [request EXCEPT ![h] = Idle] /\ jar' = Cleared

\* The request fails, or is given up: an error status, the network, the fetch budget.
RequestFails(h) ==
  /\ request[h] # Idle
  /\ request' = [request EXCEPT ![h] = Idle] /\ jar' = Cleared
  /\ UNCHANGED shown

Init ==
  /\ jar = None
  /\ request = [h \in Homes |-> Idle]
  /\ shown = [h \in Homes |-> None]

Next == \E h \in Homes : Send(h) \/ HeadersCome(h) \/ BodyRead(h) \/ RequestFails(h)

Spec == Init /\ [][Next]_vars

-----------------------------------------------------------------------------

\* No entry is shown the card of a commune another entry asked for
\* (de_watergroep.py, _fetch_commune_ajax: "so each request carries only the one it was
\* given").
CardIsOfItsCommune == \A h \in Homes : shown[h] \in {None, CommuneOf[h]}
=============================================================================
