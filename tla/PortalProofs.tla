---------------------------- MODULE PortalProofs ----------------------------
(***************************************************************************)
(* What the portal stores comes from one submitted form, however the       *)
(* request is segmented, wherever it ends and whatever fails.              *)
(***************************************************************************)
EXTENDS Portal, TLAPS

LEMMA Places ==
    /\ Fields = {"name", "ssid", "password", "mqtt_address", "mqtt_user", "mqtt_pwd"}
    /\ \A f \in Fields : Place[f] \in 1..6
BY DEF Fields, Place

(***************************************************************************)
(* The inductive invariant: credentials that were parsed belong to the     *)
(* connection that is being answered, and after they are stored there is   *)
(* no other.                                                               *)
(***************************************************************************)
Submitted(c) == posted /\ c["ssid"] # "empty" /\ FormPrefix(c)

PortalInv ==
    /\ TypeOK
    /\ cpc \in {"saved", "store"} => Submitted(parsed)
    /\ saved # NoConfig => cpc = "reboot" /\ Submitted(saved)

(* A request that was read up to its middle gives a prefix of the form.    *)
LEMMA DecodedIsPrefix ==
  ASSUME TypeOK, posted, BodyUnits >= 0, NEW v \in Cut, Accepted(Decoded(v))
  PROVE  Decoded(v) \in Config /\ Submitted(Decoded(v))
<1> USE PortalAssumption
<1>1. BodyUnits \in 0..12
  BY DEF TypeOK, BodyUnits, Total
<1>2. PICK k \in 0..6 : 2 * k <= BodyUnits /\ BodyUnits < 2 * k + 2
  BY <1>1
<1>3. form \in [Fields -> {"empty", "set", "bad"}]
  BY DEF TypeOK
<1>4. \A f \in Fields : Decoded(v)[f] # "bad"
  BY DEF Accepted
<1>5. ASSUME NEW f \in Fields
      PROVE  /\ Place[f] <= k => Decoded(v)[f] = form[f]
             /\ Place[f] = k + 1 => Decoded(v)[f] \in {"empty", "cut"}
             /\ Place[f] > k + 1 => Decoded(v)[f] = "empty"
  <2>1. Place[f] \in 1..6
    BY Places
  <2>2. CASE Place[f] <= k
    <3>1. Whole(f)
      BY <2>1, <2>2, <1>1, <1>2 DEF Whole
    <3> QED BY <3>1, <2>1, <2>2 DEF Decoded
  <2>3. CASE Place[f] = k + 1
    <3>1. ~Whole(f)
      BY <2>1, <2>3, <1>1, <1>2 DEF Whole
    <3>2. Decoded(v)[f] \in {"empty"} \cup Cut
      BY <3>1 DEF Decoded
    <3> QED BY <3>2, <1>4, <2>3 DEF Cut
  <2>4. CASE Place[f] > k + 1
    <3>1. ~Whole(f) /\ ~InPart(f)
      BY <2>1, <2>4, <1>1, <1>2 DEF Whole, InPart
    <3> QED BY <3>1, <2>1, <2>4 DEF Decoded
  <2> QED BY <2>1, <2>2, <2>3, <2>4
<1>6. FormPrefix(Decoded(v))
  BY <1>5 DEF FormPrefix
<1>7. Decoded(v) \in Config
  BY <1>3 DEF Decoded, Config, Value, Cut
<1> QED
  BY <1>6, <1>7 DEF Submitted, Accepted

LEMMA NothingSaved == NoConfig \in Config /\ NoConfig["ssid"] = "empty"
BY Places DEF NoConfig, Config, Value

LEMMA InitPortal == Init => PortalInv
<1> SUFFICES ASSUME Init
             PROVE  PortalInv
  OBVIOUS
<1>1. TypeOK
  <2>1. posted \in BOOLEAN /\ eof \in BOOLEAN
    BY DEF Init
  <2> QED BY <2>1, PortalAssumption, NothingSaved DEF Init, TypeOK, Total
<1> QED
  BY <1>1 DEF Init, PortalInv

LEMMA PortalStep == PortalInv /\ [Next]_vars => PortalInv'
<1> SUFFICES ASSUME PortalInv, [Next]_vars
             PROVE  PortalInv'
  OBVIOUS
<1> USE PortalAssumption
<1>0. cpc # "reboot" => saved = NoConfig
  BY DEF PortalInv
<1>1. CASE Accept
  <2>1. posted' \in BOOLEAN /\ eof' \in BOOLEAN
    BY <1>1, Zenon DEF Accept
  <2>2. TypeOK'
    BY <1>1, <2>1 DEF PortalInv, TypeOK, Accept, Total
  <2> QED BY <1>1, <1>0, <2>2 DEF PortalInv, Accept, NoConfig
<1>2. CASE Deliver
  <2>1. TypeOK'
    BY <1>2 DEF PortalInv, TypeOK, Deliver, Total
  <2> QED BY <2>1, <1>2 DEF PortalInv, Submitted, FormPrefix, Deliver
<1>3. CASE ClientCloses
  BY <1>3 DEF PortalInv, TypeOK, Submitted, FormPrefix, ClientCloses
<1>4. CASE read
  <2>1. pos' \in 0..BufferUnits /\ pos' <= sent /\ cpc' \in {"read", "answer"}
    BY <1>4 DEF PortalInv, TypeOK, read, Least, Total
  <2> QED BY <2>1, <1>4, <1>0 DEF PortalInv, TypeOK, read, client
<1>5. CASE parse_credentials
  <2>1. PICK v \in Cut : Accepted(Decoded(v)) /\ parsed' = Decoded(v)
    BY <1>5 DEF parse_credentials
  <2>2. parsed' \in Config /\ Submitted(parsed')
    BY <2>1, <1>5, DecodedIsPrefix DEF parse_credentials, PortalInv
  <2>3. UNCHANGED <<posted, form, sent, eof, pos, saved>> /\ cpc' = "saved"
    BY <1>5 DEF parse_credentials, client
  <2>4. Submitted(parsed)'
    BY <2>2, <2>3 DEF Submitted, FormPrefix
  <2>5. saved' = NoConfig
    BY <1>5, <1>0, <2>3 DEF parse_credentials
  <2>6. TypeOK'
    BY <2>2, <2>3 DEF PortalInv, TypeOK
  <2> QED BY <2>3, <2>4, <2>5, <2>6 DEF PortalInv, NoConfig
<1>6. CASE serve_page
  BY <1>6, <1>0 DEF PortalInv, TypeOK, serve_page, client
<1>7. CASE PageSent
  BY <1>7, <1>0 DEF PortalInv, TypeOK, PageSent, client
<1>8. CASE AnswerSent
  BY <1>8, <1>0 DEF PortalInv, TypeOK, Submitted, FormPrefix, AnswerSent, client
<1>9. CASE save_config
  BY <1>9, <1>0 DEF PortalInv, TypeOK, Submitted, FormPrefix, save_config, client
<1>10. CASE SocketError \/ AcceptFails
  <2>1. cpc' = "failed" /\ UNCHANGED <<posted, form, sent, eof, pos, parsed, saved>>
    BY <1>10 DEF SocketError, AcceptFails, client
  <2>2. saved = NoConfig
    BY <1>10, <1>0 DEF SocketError, AcceptFails
  <2>3. TypeOK'
    BY <2>1 DEF PortalInv, TypeOK
  <2> QED BY <2>1, <2>2, <2>3 DEF PortalInv, NoConfig
<1>11. CASE Reboot
  <2>1. UNCHANGED <<posted, form, saved>> /\ parsed' = NoConfig /\ cpc' = "listen"
    BY <1>11 DEF Reboot
  <2>2. saved = NoConfig
    BY <1>11, <1>0 DEF Reboot
  <2>3. TypeOK'
    <3>1. eof' \in BOOLEAN /\ posted' \in BOOLEAN
      <4>1. eof' = FALSE /\ posted' = posted /\ posted \in BOOLEAN
        BY <1>11 DEF Reboot, PortalInv, TypeOK
      <4> QED BY <4>1, Zenon
    <3>2. form' \in Forms /\ sent' \in 0..Total /\ pos' \in 0..BufferUnits /\ pos' <= sent'
      BY <1>11 DEF Reboot, PortalInv, TypeOK, Total
    <3>3. parsed' \in Config /\ saved' \in Config
      BY <2>1, NothingSaved DEF PortalInv, TypeOK
    <3> QED BY <2>1, <3>1, <3>2, <3>3 DEF TypeOK
  <2> QED BY <2>1, <2>2, <2>3 DEF PortalInv, NoConfig
<1>12. CASE UNCHANGED vars
  <2>1. TypeOK'
    BY <1>12 DEF PortalInv, TypeOK, vars
  <2> QED BY <1>12, <2>1 DEF PortalInv, Submitted, FormPrefix, vars
<1> QED
  BY <1>1, <1>2, <1>3, <1>4, <1>5, <1>6, <1>7, <1>8, <1>9, <1>10, <1>11, <1>12
     DEF Next, Server

LEMMA AlwaysPortal == Spec => []PortalInv
<1> QED
  BY InitPortal, PortalStep, PTL DEF Spec

(* Every variable keeps its type; no more is read than has arrived or fits *)
(* the buffer.                                                             *)
THEOREM PortalTypeCorrect == Spec => []TypeOK
<1>1. PortalInv => TypeOK
  BY DEF PortalInv
<1> QED
  BY AlwaysPortal, <1>1, PTL

(* Fields of two connections never mix, and nothing is stored that was not *)
(* entered, but for the field the request ends in.                         *)
THEOREM StoredAsSubmitted == Spec => []SavedIsPrefix
<1>1. PortalInv => SavedIsPrefix
  BY DEF PortalInv, Submitted, SavedIsPrefix
<1> QED
  BY AlwaysPortal, <1>1, PTL

(***************************************************************************)
(* A request that was read to its end.                                     *)
(***************************************************************************)
WholeRequestAccepted ==
    [][cpc = "answer" /\ cpc' # "answer" /\ posted /\ pos = Total /\ Accepted(form)
         => cpc' = "saved" /\ parsed' = form]_vars

LEMMA DecodedWhole ==
  ASSUME TypeOK, pos = Total, NEW v
  PROVE  BodyUnits = 12 /\ Decoded(v) = form
<1> USE PortalAssumption
<1>1. BodyUnits = 12
  BY DEF TypeOK, BodyUnits, Total
<1>2. \A f \in Fields : Whole(f)
  BY <1>1, Places DEF Whole
<1>3. form \in [Fields -> {"empty", "set", "bad"}]
  BY DEF TypeOK
<1>4. Decoded(v) = [f \in Fields |-> form[f]]
  BY <1>2 DEF Decoded
<1> QED
  BY <1>1, <1>3, <1>4

(* A good form that was posted is accepted as it was entered when the      *)
(* request was read to its end: what cuts a form (see PostedFormAccepted)  *)
(* is only that the read loop of serve_once stops at the end of the        *)
(* headers.                                                                *)
THEOREM WholeRequestIsAccepted == Spec => WholeRequestAccepted
<1> DEFINE Step ==
        cpc = "answer" /\ cpc' # "answer" /\ posted /\ pos = Total /\ Accepted(form)
          => cpc' = "saved" /\ parsed' = form
<1>1. ASSUME PortalInv, [Next]_vars, cpc = "answer", cpc' # "answer", posted,
             pos = Total, Accepted(form)
      PROVE  cpc' = "saved" /\ parsed' = form
  <2>1. TypeOK
    BY <1>1 DEF PortalInv
  <2>2. BodyUnits = 12 /\ \A v : Decoded(v) = form
    BY <1>1, <2>1, DecodedWhole
  <2>3. "empty" \in Cut
    BY DEF Cut
  <2>4. CASE parse_credentials
    BY <2>2, <2>4 DEF parse_credentials
  <2>5. CASE serve_page
    BY <1>1, <2>2, <2>5 DEF serve_page
  <2>6. ~Accept /\ ~Deliver /\ ~ClientCloses /\ ~SocketError /\ ~AcceptFails
    BY <1>1 DEF Accept, Deliver, ClientCloses, SocketError, AcceptFails
  <2>7. ~read /\ ~PageSent /\ ~AnswerSent /\ ~save_config /\ ~Reboot /\ vars' # vars
    BY <1>1 DEF read, PageSent, AnswerSent, save_config, Reboot, vars
  <2> QED
    <3>1. parse_credentials \/ serve_page
      BY <1>1, <2>6, <2>7 DEF Next, Server
    <3> QED BY <3>1, <2>4, <2>5
<1>2. PortalInv /\ [Next]_vars => [Step]_vars
  BY <1>1
<1> QED
  BY AlwaysPortal, <1>2, PTL DEF Spec, WholeRequestAccepted
=============================================================================
