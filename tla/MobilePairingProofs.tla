------------------------ MODULE MobilePairingProofs ------------------------
(***************************************************************************)
(* Proofs about MobilePairing, for any set of pairings and tool requests.  *)
(***************************************************************************)
EXTENDS MobilePairing, TLAPS

(* A tunnel that is still to start has not been answered for; a pairing is *)
(* completed by nobody before it is a session, and by one phone while it   *)
(* is; what the session grants was granted to it.                          *)
SessionInv ==
  /\ \A i \in starts : initiate[i] \in {"starting", "failed"}
  /\ \A i \in Initiates : initiate[i] # "answered" => phones[i] = 0
  /\ session # NoSession =>
       /\ initiate[session.id] = "answered"
       /\ session.id \in keyed
       /\ phones[session.id] = IF session.mobilePaired THEN 1 ELSE 0
       /\ session.screenShareGranted => session.mobilePaired /\ session.id \in granted

IInv == TypeOK /\ KeysOfThePastAreWiped /\ SessionInv /\ GrantIsPerPairing

(* What a session is.                                                      *)
LEMMA SessionFacts ==
  ASSUME session \in Session \cup {NoSession}
  PROVE  /\ NoSession \notin Session /\ NoSession.id = "none"
         /\ session # NoSession =>
              /\ session.id \in Initiates /\ session.mobilePaired \in BOOLEAN
              /\ session.expired \in BOOLEAN /\ session.screenShareGranted \in BOOLEAN
<1>1. NoSession.id = "none"
  BY DEF NoSession
<1>2. NoSession \notin Session
  BY <1>1, PairingAssumption DEF Session
<1>3. QED
  BY <1>1, <1>2 DEF Session

(* The invariant through the steps that end a session.                     *)
LEMMA CleanupKeepsIInv ==
  ASSUME IInv, Cleanup, \E n \in {1, 2} : SendStops(n),
         UNCHANGED <<phones, initiate, starts, tunnel, granted, lost>>,
         tool' \in [ToolRequests -> [at : {"idle", "executing", "answered", "refused"},
                                     pairing : Initiates \cup {"none"}]],
         \A r \in ToolRequests : tool'[r].at \in {"executing", "answered"} =>
            tool[r].at \in {"executing", "answered"} /\ tool'[r].pairing = tool[r].pairing
  PROVE  IInv'
<1>1. stops' \in 0..MaxStops
  BY PairingAssumption DEF SendStops, IInv, TypeOK
<1>2. TypeOK'
  BY <1>1 DEF IInv, TypeOK, Cleanup
<1>3. KeysOfThePastAreWiped' /\ SessionInv'
  BY DEF IInv, KeysOfThePastAreWiped, SessionInv, Cleanup
<1>4. GrantIsPerPairing'
  BY DEF IInv, GrantIsPerPairing
<1>5. QED
  BY <1>2, <1>3, <1>4 DEF IInv

(* Every step keeps the invariant.                                         *)
LEMMA Inductive == IInv /\ [Next]_vars => IInv'
<1> SUFFICES ASSUME IInv, [Next]_vars PROVE IInv'
  OBVIOUS
<1> USE DEF relay
<1>s. /\ NoSession \notin Session /\ NoSession.id = "none"
      /\ session # NoSession =>
           /\ session.id \in Initiates /\ session.mobilePaired \in BOOLEAN
           /\ session.expired \in BOOLEAN /\ session.screenShareGranted \in BOOLEAN
  BY SessionFacts DEF IInv, TypeOK
<1>1. ASSUME NEW i \in Initiates, Initiate(i) PROVE IInv'
  BY <1>1, <1>s DEF Initiate, IInv, TypeOK, KeysOfThePastAreWiped, SessionInv, GrantIsPerPairing
<1>2. ASSUME NEW i \in Initiates, TunnelStarts(i) PROVE IInv'
  <2>1. PICK up \in BOOLEAN :
          /\ tunnel' = IF up THEN i ELSE "none"
          /\ initiate' = [initiate EXCEPT ![i] =
                            IF @ = "failed" THEN @ ELSE IF up THEN "url" ELSE "noUrl"]
    BY <1>2 DEF TunnelStarts
  <2>2. /\ i \in starts /\ starts' = starts \ {i}
        /\ UNCHANGED <<session, keyed, phones, granted, stops, tool, lost>>
    BY <1>2 DEF TunnelStarts
  <2>3. initiate[i] \in {"starting", "failed"} /\ initiate'[i] \in {"url", "noUrl", "failed"}
    BY <2>1, <2>2 DEF IInv, TypeOK, SessionInv
  <2>4. \A j \in Initiates : j # i => initiate'[j] = initiate[j]
    BY <2>1 DEF IInv, TypeOK
  <2>5. TypeOK'
    BY <2>1, <2>2 DEF IInv, TypeOK
  <2>6. SessionInv'
    BY <1>s, <2>2, <2>3, <2>4 DEF IInv, TypeOK, SessionInv
  <2>7. QED
    BY <2>2, <2>5, <2>6 DEF IInv, KeysOfThePastAreWiped, GrantIsPerPairing
<1>3. ASSUME NEW i \in Initiates, InitiateTimesOut(i) PROVE IInv'
  BY <1>3, <1>s
     DEF InitiateTimesOut, IInv, TypeOK, KeysOfThePastAreWiped, SessionInv, GrantIsPerPairing
<1>4. ASSUME NEW i \in Initiates, InitiatePairing(i) PROVE IInv'
  <2>1. /\ session' \in Session /\ session'.id = i
        /\ ~session'.mobilePaired /\ ~session'.screenShareGranted
    BY <1>4 DEF InitiatePairing, NewSession, Session
  <2>2. stops' \in 0..MaxStops
    BY <1>4, PairingAssumption DEF InitiatePairing, SendStops, IInv, TypeOK
  <2>3. TypeOK'
    BY <1>4, <2>1, <2>2 DEF InitiatePairing, IInv, TypeOK
  <2>4. keyed' \subseteq {i} /\ i \in keyed'
    BY <1>4 DEF InitiatePairing, IInv, KeysOfThePastAreWiped
  <2>5. KeysOfThePastAreWiped'
    BY <2>1, <2>4 DEF KeysOfThePastAreWiped
  <2>6. phones[i] = 0 /\ initiate'[i] = "answered"
    BY <1>4 DEF InitiatePairing, IInv, SessionInv, TypeOK
  <2>7. SessionInv'
    BY <1>4, <1>s, <2>1, <2>4, <2>6 DEF InitiatePairing, IInv, SessionInv, TypeOK
  <2>8. GrantIsPerPairing'
    BY <1>4 DEF InitiatePairing, IInv, GrantIsPerPairing
  <2>9. QED
    BY <2>3, <2>5, <2>7, <2>8 DEF IInv
<1>5. ASSUME NEW i \in Initiates, CompletePairing(i) PROVE IInv'
  <2>1. CASE session.expired
    BY <1>5, <2>1, CleanupKeepsIInv DEF CompletePairing, IInv, TypeOK
  <2>2. CASE ~session.expired
    <3>1. /\ session' = [session EXCEPT !.mobilePaired = TRUE]
          /\ phones' = [phones EXCEPT ![i] = @ + 1]
          /\ UNCHANGED <<keyed, stops, initiate, starts, tunnel, tool, granted, lost>>
      BY <1>5, <2>2 DEF CompletePairing
    <3>2. session \in Session /\ session.id = i /\ ~session.mobilePaired
      BY <1>5 DEF CompletePairing, IInv, TypeOK
    <3>3. /\ session' \in Session /\ session'.id = i /\ session'.mobilePaired
          /\ session'.screenShareGranted = session.screenShareGranted
      BY <3>1, <3>2 DEF Session
    <3>4. phones[i] = 0
      BY <1>5, <3>2 DEF CompletePairing, IInv, SessionInv
    <3>5. TypeOK'
      BY <3>1, <3>3 DEF IInv, TypeOK
    <3>6. KeysOfThePastAreWiped' /\ SessionInv'
      BY <1>5, <1>s, <3>1, <3>2, <3>3, <3>4
         DEF CompletePairing, IInv, TypeOK, KeysOfThePastAreWiped, SessionInv
    <3>7. GrantIsPerPairing'
      BY <3>1, <3>4 DEF IInv, TypeOK, GrantIsPerPairing
    <3>8. QED
      BY <3>5, <3>6, <3>7 DEF IInv
  <2>3. QED
    BY <1>5, <1>s, <2>1, <2>2 DEF CompletePairing
<1>6. ASSUME NEW id \in Initiates, NEW r \in ToolRequests, ExecuteToolRequest(r, id) PROVE IInv'
  <2>1. /\ tool' = [tool EXCEPT ![r] =
                      [at |-> IF session.screenShareGranted THEN "executing" ELSE "refused",
                       pairing |-> id]]
        /\ UNCHANGED <<relay, initiate, starts, stops, tunnel, lost>>
    BY <1>6 DEF ExecuteToolRequest, ToolTo
  <2>2. session # NoSession /\ session.id = id /\ session.mobilePaired
    BY <1>6 DEF ExecuteToolRequest, Active
  <2>3. TypeOK'
    BY <2>1 DEF IInv, TypeOK
  <2>4. GrantIsPerPairing'
    BY <2>1, <2>2 DEF IInv, TypeOK, SessionInv, GrantIsPerPairing
  <2>5. QED
    BY <2>1, <2>3, <2>4 DEF IInv, KeysOfThePastAreWiped, SessionInv
<1>7. ASSUME NEW r \in ToolRequests, ToolReturns(r) PROVE IInv'
  <2>1. PICK ran \in BOOLEAN :
          /\ tool' = [tool EXCEPT ![r] =
                        [at |-> IF ran /\ Active(tool[r].pairing) THEN "answered" ELSE "refused",
                         pairing |-> tool[r].pairing]]
          /\ IF ran /\ session # NoSession /\ session.expired
             THEN Cleanup /\ SendStops(1)
             ELSE UNCHANGED <<session, keyed, stops>>
    BY <1>7 DEF ToolReturns, ToolTo
  <2>2. tool[r].at = "executing" /\ UNCHANGED <<phones, initiate, starts, tunnel, granted, lost>>
    BY <1>7 DEF ToolReturns
  <2>3. tool' \in [ToolRequests -> [at : {"idle", "executing", "answered", "refused"},
                                    pairing : Initiates \cup {"none"}]]
    BY <2>1 DEF IInv, TypeOK
  <2>4. \A q \in ToolRequests : tool'[q].at \in {"executing", "answered"} =>
          tool[q].at \in {"executing", "answered"} /\ tool'[q].pairing = tool[q].pairing
    BY <2>1, <2>2 DEF IInv, TypeOK
  <2>5. CASE UNCHANGED <<session, keyed, stops>>
    <3>1. TypeOK'
      BY <2>2, <2>3, <2>5 DEF IInv, TypeOK
    <3>2. GrantIsPerPairing'
      BY <2>2, <2>4 DEF IInv, GrantIsPerPairing
    <3>3. QED
      BY <2>2, <2>5, <3>1, <3>2 DEF IInv, KeysOfThePastAreWiped, SessionInv
  <2>6. CASE Cleanup /\ SendStops(1)
    BY <2>2, <2>3, <2>4, <2>6, CleanupKeepsIInv
  <2>7. QED
    BY <2>1, <2>5, <2>6
<1>8. ASSUME NEW grant \in BOOLEAN, SetScreenAccess(grant) PROVE IInv'
  <2>1. session \in Session /\ session # NoSession /\ session.mobilePaired
    BY <1>8 DEF SetScreenAccess, IInv, TypeOK
  <2>2. /\ session' \in Session /\ session'.id = session.id /\ session'.mobilePaired
        /\ session'.screenShareGranted = grant
    BY <1>8, <2>1 DEF SetScreenAccess, Session
  <2>3. granted \subseteq granted' /\ granted' \subseteq granted \cup {session.id}
        /\ (grant => session.id \in granted')
    BY <1>8 DEF SetScreenAccess
  <2>4. UNCHANGED <<keyed, phones, initiate, starts, stops, tunnel, tool, lost>>
    BY <1>8 DEF SetScreenAccess
  <2>5. TypeOK'
    BY <1>s, <2>1, <2>2, <2>3, <2>4 DEF IInv, TypeOK
  <2>6. QED
    BY <1>s, <2>1, <2>2, <2>3, <2>4, <2>5
       DEF IInv, KeysOfThePastAreWiped, SessionInv, GrantIsPerPairing
<1>9. CASE TimePasses
  <2>1. session \in Session /\ session # NoSession
    BY <1>9 DEF TimePasses, IInv, TypeOK
  <2>2. /\ session' \in Session /\ session'.id = session.id
        /\ session'.mobilePaired = session.mobilePaired
        /\ session'.screenShareGranted = session.screenShareGranted
    BY <1>9, <2>1 DEF TimePasses, Session
  <2>3. UNCHANGED <<keyed, phones, initiate, starts, stops, tunnel, tool, granted, lost>>
    BY <1>9 DEF TimePasses
  <2>4. TypeOK'
    BY <2>2, <2>3 DEF IInv, TypeOK
  <2>5. QED
    BY <2>1, <2>2, <2>3, <2>4 DEF IInv, KeysOfThePastAreWiped, SessionInv, GrantIsPerPairing
<1>10. CASE CheckExpiration \/ Revoke
  BY <1>10, CleanupKeepsIInv DEF CheckExpiration, Revoke, IInv, TypeOK
<1>11. CASE TunnelStops \/ StopFails
  <2>1. lost' \in BOOLEAN
    BY <1>11 DEF TunnelStops, StopFails, IInv, TypeOK
  <2>2. stops' \in 0..MaxStops
    BY <1>11, PairingAssumption DEF TunnelStops, StopFails, IInv, TypeOK
  <2>3. /\ tunnel' \in {tunnel, "none"}
        /\ UNCHANGED <<session, keyed, phones, granted, initiate, starts, tool>>
    BY <1>11 DEF TunnelStops, StopFails
  <2>4. TypeOK'
    BY <2>1, <2>2, <2>3 DEF IInv, TypeOK
  <2>5. QED
    BY <2>3, <2>4 DEF IInv, KeysOfThePastAreWiped, SessionInv, GrantIsPerPairing
<1>12. CASE UNCHANGED vars
  BY <1>12 DEF vars, IInv, TypeOK, KeysOfThePastAreWiped, SessionInv, GrantIsPerPairing
<1>13. QED
  BY <1>1, <1>2, <1>3, <1>4, <1>5, <1>6, <1>7, <1>8, <1>9, <1>10, <1>11, <1>12 DEF Next

LEMMA InitIInv == Init => IInv
<1>1. NoSession.id = "none"
  BY DEF NoSession
<1>2. SUFFICES ASSUME Init PROVE IInv
  OBVIOUS
<1>3. lost \in BOOLEAN
  BY <1>2 DEF Init
<1>4. TypeOK
  <2>1. session = NoSession /\ keyed = {} /\ starts = {} /\ stops = 0 /\ tunnel = "none" /\ granted = {}
        /\ phones = [i \in Initiates |-> 0] /\ initiate = [i \in Initiates |-> "idle"]
        /\ tool = [r \in ToolRequests |-> [at |-> "idle", pairing |-> "none"]]
    BY <1>2 DEF Init
  <2>2. QED
    BY <1>3, <2>1, PairingAssumption DEF TypeOK
<1>5. QED
  BY <1>1, <1>2, <1>4, PairingAssumption
     DEF Init, IInv, KeysOfThePastAreWiped, SessionInv, GrantIsPerPairing

(* Sessions, requests and tunnel have their types.                         *)
THEOREM TypeInvariant == Spec => []TypeOK
<1>1. IInv => TypeOK
  BY DEF IInv
<1>2. QED
  BY <1>1, InitIInv, Inductive, PTL DEF Spec

(* Only the key of the present session is in memory.                       *)
THEOREM KeysAreWiped == Spec => []KeysOfThePastAreWiped
<1>1. IInv => KeysOfThePastAreWiped
  BY DEF IInv
<1>2. QED
  BY <1>1, InitIInv, Inductive, PTL DEF Spec

(* A tool runs only under a pairing to which the screen was granted.       *)
THEOREM GrantsEndWithTheirPairing == Spec => []GrantIsPerPairing
<1>1. IInv => GrantIsPerPairing
  BY DEF IInv
<1>2. QED
  BY <1>1, InitIInv, Inductive, PTL DEF Spec

(* A tool's answer is sent only under the pairing it was asked under.      *)
THEOREM AnswersStayInTheirPairing == Spec => AnsweredUnderItsPairing
<1>1. ASSUME IInv, [Next]_vars,
             NEW r \in ToolRequests, tool[r].at = "executing", tool'[r].at = "answered"
      PROVE  session.id = tool[r].pairing /\ session.id \in keyed'
  <2>1. CASE ToolReturns(r)
    <3>1. PICK ran \in BOOLEAN :
            /\ tool' = [tool EXCEPT ![r] =
                          [at |-> IF ran /\ Active(tool[r].pairing) THEN "answered" ELSE "refused",
                           pairing |-> tool[r].pairing]]
            /\ IF ran /\ session # NoSession /\ session.expired
               THEN Cleanup /\ SendStops(1)
               ELSE UNCHANGED <<session, keyed, stops>>
      BY <2>1 DEF ToolReturns, ToolTo
    <3>2. Active(tool[r].pairing)
      BY <1>1, <3>1 DEF IInv, TypeOK
    <3>3. QED
      BY <1>1, <3>1, <3>2 DEF Active, IInv, SessionInv
  <2>2. CASE UNCHANGED tool
    BY <1>1, <2>2
  <2>3. ASSUME NEW q \in ToolRequests, NEW id \in Initiates, ExecuteToolRequest(q, id) PROVE FALSE
    BY <1>1, <2>3 DEF ExecuteToolRequest, ToolTo, IInv, TypeOK
  <2>4. ASSUME NEW q \in ToolRequests \ {r}, ToolReturns(q) PROVE FALSE
    BY <1>1, <2>4 DEF ToolReturns, ToolTo, IInv, TypeOK
  <2>5. CASE TimePasses \/ CheckExpiration \/ Revoke \/ TunnelStops \/ StopFails \/ UNCHANGED vars
    BY <2>2, <2>5 DEF TimePasses, CheckExpiration, Revoke, TunnelStops, StopFails, vars
  <2>6. CASE \E grant \in BOOLEAN : SetScreenAccess(grant)
    BY <2>2, <2>6 DEF SetScreenAccess
  <2>7. ASSUME NEW i \in Initiates,
               Initiate(i) \/ TunnelStarts(i) \/ InitiateTimesOut(i) \/ InitiatePairing(i)
                 \/ CompletePairing(i)
        PROVE  UNCHANGED tool
    BY <2>7 DEF Initiate, TunnelStarts, InitiateTimesOut, InitiatePairing, CompletePairing
  <2>8. CASE [Next]_vars /\ ~(\E q \in ToolRequests : ToolReturns(q))
    BY <1>1, <2>2, <2>3, <2>5, <2>6, <2>7, <2>8 DEF Next
  <2>9. QED
    BY <1>1, <2>1, <2>4, <2>8
<1>2. IInv /\ [Next]_vars =>
        [\A r \in ToolRequests : tool[r].at = "executing" /\ tool'[r].at = "answered" =>
           session.id = tool[r].pairing /\ session.id \in keyed']_vars
  BY <1>1
<1>3. QED
  BY <1>2, InitIInv, Inductive, PTL DEF Spec, AnsweredUnderItsPairing
=============================================================================
