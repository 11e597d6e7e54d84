--------------------------- MODULE MobilePairing ---------------------------
(***************************************************************************)
(* The pairing of a phone with the desktop: the one session of the mobile  *)
(* relay, and the tunnel through which the phone reaches it.  The tunnel   *)
(* is a process of the dev agent, which serves requests one at a time; the *)
(* relay asks it to start a tunnel and waits, and to stop the tunnel and   *)
(* does not wait.  Those requests are on their way in any order.           *)
(* Tool requests of the phone run behind the screen grant of a pairing.    *)
(***************************************************************************)
EXTENDS Naturals, FiniteSets

CONSTANTS
  Initiates,     \* requests for a pairing; the pairing gets its name
  ToolRequests,  \* requests of the phone for a tool on the desktop
  MaxStops       \* bound on the stop requests on their way

ASSUME PairingAssumption ==
  /\ "none" \notin Initiates
  /\ MaxStops \in Nat

VARIABLES
  session,   \* SessionService.session
  keyed,     \* the pairings whose key material has not been wiped
  phones,    \* the phones that completed each pairing
  initiate,  \* where a request for a pairing is
  starts,    \* requests to start a tunnel, on their way
  stops,     \* how many requests to stop the tunnel are on their way
  tunnel,    \* the start whose tunnel is up, or "none"
  tool,      \* where a tool request is, and the pairing it came under
  granted,   \* the pairings the desktop ever granted the screen to
  lost       \* history: was a call to the dev agent given up, or did a stop fail?

relay == <<session, keyed, phones, granted>>
vars == <<session, keyed, phones, initiate, starts, stops, tunnel, tool, granted, lost>>

NoSession == [id |-> "none"]
Session ==
  [id : Initiates, url : Initiates \cup {"none"}, expired : BOOLEAN,
   mobilePaired : BOOLEAN, screenShareGranted : BOOLEAN]

TypeOK ==
  /\ session \in Session \cup {NoSession}
  /\ keyed \in SUBSET Initiates
  /\ phones \in [Initiates -> Nat]
  /\ initiate \in [Initiates -> {"idle", "starting", "url", "noUrl", "answered", "failed"}]
  /\ starts \in SUBSET Initiates
  /\ stops \in 0..MaxStops
  /\ tunnel \in Initiates \cup {"none"}
  /\ tool \in [ToolRequests -> [at : {"idle", "executing", "answered", "refused"},
                                pairing : Initiates \cup {"none"}]]
  /\ granted \in SUBSET Initiates
  /\ lost \in BOOLEAN

Init ==
  /\ session = NoSession
  /\ keyed = {}
  /\ phones = [i \in Initiates |-> 0]
  /\ initiate = [i \in Initiates |-> "idle"]
  /\ starts = {} /\ stops = 0 /\ tunnel = "none"
  /\ tool = [r \in ToolRequests |-> [at |-> "idle", pairing |-> "none"]]
  /\ granted = {} /\ lost = FALSE
-----------------------------------------------------------------------------
SendStops(n) == stops + n <= MaxStops /\ stops' = stops + n

(* The key is wiped and, whether or not there was a session, the expiry    *)
(* callback stops the tunnel.                                              *)
Cleanup ==
  /\ session' = NoSession
  /\ keyed' = keyed \ {session.id}

(***************************************************************************)
(* A pairing begins with a tunnel.                                         *)
(***************************************************************************)
Initiate(i) ==
  /\ initiate[i] = "idle"
  /\ initiate' = [initiate EXCEPT ![i] = "starting"]
  /\ starts' = starts \cup {i}
  /\ UNCHANGED <<relay, stops, tunnel, tool, lost>>

(* The dev agent replaces the tunnel there is.  A tunnel that does not     *)
(* come up is reported in the body of a good answer, which is not read.    *)
TunnelStarts(i) ==
  /\ i \in starts
  /\ starts' = starts \ {i}
  /\ \E up \in BOOLEAN :
       /\ tunnel' = IF up THEN i ELSE "none"
       /\ initiate' = [initiate EXCEPT ![i] =
                         IF @ = "failed" THEN @ ELSE IF up THEN "url" ELSE "noUrl"]
  /\ UNCHANGED <<relay, stops, tool, lost>>

(* The relay waits as long for the tunnel as the dev agent does.           *)
InitiateTimesOut(i) ==
  /\ initiate[i] \in {"starting", "url", "noUrl"}
  /\ initiate' = [initiate EXCEPT ![i] = "failed"]
  /\ lost' = TRUE
  /\ UNCHANGED <<relay, starts, stops, tunnel, tool>>

(* Mutant of NewSession: what the old session granted goes on.             *)
NewSessionGranted(i) ==
  [id |-> i, url |-> IF initiate[i] = "url" THEN i ELSE "none", expired |-> FALSE,
   mobilePaired |-> FALSE,
   screenShareGranted |-> session # NoSession /\ session.screenShareGranted]

NewSession(i) ==
  [id |-> i, url |-> IF initiate[i] = "url" THEN i ELSE "none", expired |-> FALSE,
   mobilePaired |-> FALSE, screenShareGranted |-> FALSE]

(* The new session takes the place of the old one, whose end stops the     *)
(* tunnel.                                                                 *)
InitiatePairing(i) ==
  /\ initiate[i] \in {"url", "noUrl"}
  /\ initiate' = [initiate EXCEPT ![i] = "answered"]
  /\ session' = NewSession(i)
  /\ keyed' = (keyed \ {session.id}) \cup {i}
  /\ SendStops(IF session = NoSession THEN 0 ELSE 1)
  /\ UNCHANGED <<phones, starts, tunnel, tool, granted, lost>>

(***************************************************************************)
(* A phone completes a pairing; an expired one is cleaned up instead.      *)
(***************************************************************************)
CompletePairing(i) ==
  /\ session # NoSession
  /\ session.id = i /\ ~session.mobilePaired
  /\ IF session.expired
     THEN Cleanup /\ SendStops(1) /\ UNCHANGED phones
     ELSE /\ session' = [session EXCEPT !.mobilePaired = TRUE]
          /\ phones' = [phones EXCEPT ![i] = @ + 1]
          /\ UNCHANGED <<keyed, stops>>
  /\ UNCHANGED <<initiate, starts, tunnel, tool, granted, lost>>

SetScreenAccess(grant) ==
  /\ session # NoSession
  /\ session.mobilePaired
  /\ session' = [session EXCEPT !.screenShareGranted = grant]
  /\ granted' = IF grant THEN granted \cup {session.id} ELSE granted
  /\ UNCHANGED <<keyed, phones, initiate, starts, stops, tunnel, tool, lost>>

(* The time of a session runs out; the timer or the next request that asks *)
(* for the active session notices.                                         *)
TimePasses ==
  /\ session # NoSession
  /\ ~session.expired
  /\ session' = [session EXCEPT !.expired = TRUE]
  /\ UNCHANGED <<keyed, phones, initiate, starts, stops, tunnel, tool, granted, lost>>

(* Mutant of CheckExpiration: the callback is not called.                  *)
CheckExpirationQuietly ==
  /\ session # NoSession
  /\ session.expired
  /\ Cleanup
  /\ UNCHANGED <<phones, initiate, starts, stops, tunnel, tool, granted, lost>>

(* The timer, or any request that asks for the active session.             *)
CheckExpiration ==
  /\ session # NoSession
  /\ session.expired
  /\ Cleanup /\ SendStops(1)
  /\ UNCHANGED <<phones, initiate, starts, tunnel, tool, granted, lost>>

(* Revoking cleans up, with a stop of its own, and stops the tunnel again. *)
Revoke ==
  /\ Cleanup /\ SendStops(2)
  /\ UNCHANGED <<phones, initiate, starts, tunnel, tool, granted, lost>>

(***************************************************************************)
(* A tool request of the phone: its pairing is looked up when it comes,    *)
(* and again when its answer is to be encrypted.                           *)
(***************************************************************************)
(* Mutant of Active: whichever pairing is active.                          *)
ActiveAny(id) == session # NoSession /\ session.mobilePaired /\ ~session.expired

Active(id) == session # NoSession /\ session.id = id /\ session.mobilePaired /\ ~session.expired

ToolTo(r, where, id) == tool' = [tool EXCEPT ![r] = [at |-> where, pairing |-> id]]

ExecuteToolRequest(r, id) ==
  /\ tool[r].at = "idle"
  /\ Active(id)
  /\ ToolTo(r, IF session.screenShareGranted THEN "executing" ELSE "refused", id)
  /\ UNCHANGED <<relay, initiate, starts, stops, tunnel, lost>>

(* The tool has run, or failed; a session found expired now is cleaned up. *)
ToolReturns(r) ==
  /\ tool[r].at = "executing"
  /\ \E ran \in BOOLEAN :
       /\ ToolTo(r, IF ran /\ Active(tool[r].pairing) THEN "answered" ELSE "refused",
                 tool[r].pairing)
       /\ IF ran /\ session # NoSession /\ session.expired
          THEN Cleanup /\ SendStops(1)
          ELSE UNCHANGED <<session, keyed, stops>>
  /\ UNCHANGED <<phones, initiate, starts, tunnel, granted, lost>>

TunnelStops ==
  /\ stops > 0
  /\ stops' = stops - 1
  /\ tunnel' = "none"
  /\ UNCHANGED <<relay, initiate, starts, tool, lost>>

(* A stop that fails is only logged.                                       *)
StopFails ==
  /\ stops > 0
  /\ stops' = stops - 1
  /\ lost' = TRUE
  /\ UNCHANGED <<relay, initiate, starts, tunnel, tool>>

Next ==
  \/ \E i \in Initiates :
       \/ Initiate(i) \/ TunnelStarts(i) \/ InitiateTimesOut(i) \/ InitiatePairing(i)
       \/ CompletePairing(i) \/ \E r \in ToolRequests : ExecuteToolRequest(r, i)
  \/ \E r \in ToolRequests : ToolReturns(r)
  \/ \E grant \in BOOLEAN : SetScreenAccess(grant)
  \/ TimePasses \/ CheckExpiration \/ Revoke \/ TunnelStops \/ StopFails

(* The timer goes on, and the dev agent handles what reaches it.           *)
Fairness ==
  /\ WF_vars(CheckExpiration) /\ WF_vars(TunnelStops)
  /\ \A i \in Initiates : WF_vars(TunnelStarts(i)) /\ WF_vars(InitiatePairing(i))

Spec == Init /\ [][Next]_vars
FairSpec == Spec /\ Fairness
-----------------------------------------------------------------------------
(* However sessions are replaced, revoked, completed late or expire, the   *)
(* only key material in memory is that of the session there is.            *)
KeysOfThePastAreWiped == keyed \subseteq {session.id}

(* A tool runs only under a pairing to which the desktop granted the       *)
(* screen: a grant ends with its pairing, and one phone has completed it.  *)
GrantIsPerPairing ==
  \A r \in ToolRequests : tool[r].at \in {"executing", "answered"} =>
    tool[r].pairing \in granted /\ phones[tool[r].pairing] = 1

(* An answer is sent only under the pairing its request came under, which  *)
(* may have been revoked, replaced or have expired while the tool ran.     *)
AnsweredUnderItsPairing ==
  [][\A r \in ToolRequests : tool[r].at = "executing" /\ tool'[r].at = "answered" =>
       session.id = tool[r].pairing /\ session.id \in keyed']_vars

(* When no pairing is left and none is asked for, the tunnel is closed in  *)
(* the end, unless somebody asks for a pairing again.  It takes calls that *)
(* arrive: a start that was given up still opens a tunnel, and a stop that *)
(* fails is not repeated.                                                  *)
StartUnderWay == \E i \in Initiates : initiate[i] \in {"starting", "url", "noUrl"}
TunnelIsClosed ==
  (session = NoSession \/ session.expired) /\ ~StartUnderWay
    ~> tunnel = "none" \/ StartUnderWay \/ lost
=============================================================================
