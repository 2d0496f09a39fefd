------------------------------- MODULE Portal -------------------------------
(***************************************************************************)
(* The setup portal of a speaker without credentials: start_ap serves one  *)
(* connection after the other until a form has been posted whose           *)
(* credentials it accepts; main stores them and reboots.                   *)
(*                                                                         *)
(* A request is a row of units: HeaderUnits of headers, then two for each  *)
(* field of the form, in the order of portal.html.  The network delivers   *)
(* them in segments of any size.  Of a field the text is not modelled,     *)
(* only whether it is empty, good, cut short, or cannot be decoded into    *)
(* its buffer.                                                             *)
(***************************************************************************)
EXTENDS Integers

CONSTANTS
    HeaderUnits,    \* units of the request line and the headers
    BufferUnits,    \* units that fit the request buffer
    Forms           \* the forms that clients submit

(* Where each field is in the form.                                        *)
Place == [name |-> 1, ssid |-> 2, password |-> 3,
          mqtt_address |-> 4, mqtt_user |-> 5, mqtt_pwd |-> 6]
Fields == DOMAIN Place

ASSUME PortalAssumption ==
    /\ HeaderUnits \in Nat \ {0}
    /\ BufferUnits \in Nat
    /\ Forms \subseteq [Fields -> {"empty", "set", "bad"}]

VARIABLES
    cpc,        \* where start_ap and no_creds_boot are
    posted,     \* the request is a POST
    form,       \* what the client submits
    sent,       \* units that have arrived
    eof,        \* the client sends no more
    pos,        \* units read into the request buffer
    parsed,     \* what parse_credentials returned
    saved       \* the stored credentials

vars == <<cpc, posted, form, sent, eof, pos, parsed, saved>>

Total == HeaderUnits + 12

Value == {"empty", "set", "cut", "bad"}
Config == [Fields -> Value]
NoConfig == [f \in Fields |-> "empty"]

Least(a, b) == IF a <= b THEN a ELSE b

TypeOK ==
    /\ cpc \in {"listen", "read", "answer", "page", "saved", "store", "failed", "reboot"}
    /\ posted \in BOOLEAN
    /\ form \in Forms
    /\ sent \in 0..Total
    /\ eof \in BOOLEAN
    /\ pos \in 0..BufferUnits /\ pos <= sent
    /\ parsed \in Config
    /\ saved \in Config

Init ==
    /\ cpc = "listen"
    /\ posted = FALSE
    /\ form \in Forms
    /\ sent = 0
    /\ eof = FALSE
    /\ pos = 0
    /\ parsed = NoConfig
    /\ saved = NoConfig

-----------------------------------------------------------------------------
(* The client and the network.                                             *)
client == <<posted, form, sent, eof>>

(* Mutant of Accept: the place in the buffer is kept.                      *)
Accept_keeps ==
    /\ cpc = "listen"
    /\ cpc' = "read"
    /\ posted' \in BOOLEAN
    /\ form' \in Forms
    /\ sent' = 0
    /\ eof' = FALSE
    /\ UNCHANGED <<pos, parsed, saved>>

(* accept returns: serve_once starts with an empty buffer.                 *)
Accept ==
    /\ cpc = "listen"
    /\ cpc' = "read"
    /\ posted' \in BOOLEAN
    /\ form' \in Forms
    /\ sent' = 0
    /\ eof' = FALSE
    /\ pos' = 0
    /\ UNCHANGED <<parsed, saved>>

Deliver ==
    /\ cpc \in {"read", "answer", "page", "saved"}
    /\ ~eof
    /\ sent' \in (sent + 1)..Total
    /\ UNCHANGED <<cpc, posted, form, eof, pos, parsed, saved>>

ClientCloses ==
    /\ cpc = "read"
    /\ ~eof
    /\ eof' = TRUE
    /\ UNCHANGED <<cpc, posted, form, sent, pos, parsed, saved>>

-----------------------------------------------------------------------------
(* What parse_credentials makes of the buffer: fields read whole, at most  *)
(* one of them in part (v), the others not there and so empty.             *)
BodyUnits == pos - HeaderUnits

Whole(f) == 2 * Place[f] <= BodyUnits
InPart(f) == 2 * Place[f] - 1 = BodyUnits

Cut == {"empty", "cut", "bad"}

Decoded(v) ==
    [f \in Fields |->
        IF Whole(f) THEN form[f]
        ELSE IF InPart(f) /\ form[f] # "empty" THEN v ELSE "empty"]

(* Every field is decoded, and there is a network name.                    *)
Accepted(c) ==
    /\ \A f \in Fields : c[f] # "bad"
    /\ c["ssid"] # "empty"

(* Mutant of read: the last place of the buffer is kept free.              *)
read_short ==
    /\ cpc = "read"
    /\ \/ /\ pos < BufferUnits - 1 /\ pos < sent
          /\ pos' = Least(sent, BufferUnits - 1)
          /\ cpc' = IF pos' >= HeaderUnits THEN "answer" ELSE "read"
       \/ /\ pos >= BufferUnits - 1 \/ (pos = sent /\ eof)
          /\ cpc' = "answer"
          /\ UNCHANGED pos
    /\ UNCHANGED <<client, parsed, saved>>

(* The read loop: it takes what has arrived and ends when that holds the   *)
(* end of the headers, when the buffer is full, or at the end of the       *)
(* stream.                                                                 *)
read ==
    /\ cpc = "read"
    /\ \/ /\ pos < BufferUnits /\ pos < sent
          /\ pos' = Least(sent, BufferUnits)
          /\ cpc' = IF pos' >= HeaderUnits THEN "answer" ELSE "read"
       \/ /\ pos = BufferUnits \/ (pos = sent /\ eof)
          /\ cpc' = "answer"
          /\ UNCHANGED pos
    /\ UNCHANGED <<client, parsed, saved>>

(* Mutant of parse_credentials: the name is not required.                  *)
parse_credentials_nameless ==
    /\ cpc = "answer" /\ posted /\ BodyUnits >= 0
    /\ \E v \in Cut :
        /\ \A f \in Fields : Decoded(v)[f] # "bad"
        /\ parsed' = Decoded(v)
    /\ cpc' = "saved"
    /\ UNCHANGED <<client, pos, saved>>

(* A POST whose credentials are accepted is told so.                       *)
parse_credentials ==
    /\ cpc = "answer" /\ posted /\ BodyUnits >= 0
    /\ \E v \in Cut :
        /\ Accepted(Decoded(v))
        /\ parsed' = Decoded(v)
    /\ cpc' = "saved"
    /\ UNCHANGED <<client, pos, saved>>

(* Everything else is answered with the page.                              *)
serve_page ==
    /\ cpc = "answer"
    /\ posted /\ BodyUnits >= 0 => \E v \in Cut : ~Accepted(Decoded(v))
    /\ cpc' = "page"
    /\ UNCHANGED <<client, pos, parsed, saved>>

(* The page is written and flushed, and the connection closed.             *)
PageSent ==
    /\ cpc = "page"
    /\ cpc' = "listen"
    /\ UNCHANGED <<client, pos, parsed, saved>>

(* So is "Saved!", before anything is stored.                              *)
AnswerSent ==
    /\ cpc = "saved"
    /\ cpc' = "store"
    /\ UNCHANGED <<client, pos, parsed, saved>>

save_config ==
    /\ cpc = "store"
    /\ \/ saved' = parsed /\ cpc' = "reboot"
       \/ cpc' = "failed" /\ UNCHANGED saved
    /\ UNCHANGED <<client, pos, parsed>>

(* Mutant of SocketError: a silent client is waited for.                   *)
SocketError_patient ==
    /\ cpc \in {"page", "saved"}
    /\ cpc' = "failed"
    /\ UNCHANGED <<client, pos, parsed, saved>>

(* The client resets the connection or is silent for                       *)
(* AP_SOCKET_TIMEOUT_SECS: start_ap returns the error, and credentials     *)
(* that were parsed are lost.                                              *)
SocketError ==
    /\ cpc \in {"read", "page", "saved"}
    /\ cpc' = "failed"
    /\ UNCHANGED <<client, pos, parsed, saved>>

(* accept fails.                                                           *)
AcceptFails ==
    /\ cpc = "listen"
    /\ cpc' = "failed"
    /\ UNCHANGED <<client, pos, parsed, saved>>

(* main reboots; without credentials it opens the portal again.            *)
Reboot ==
    /\ cpc = "failed"
    /\ cpc' = "listen"
    /\ sent' = 0 /\ eof' = FALSE
    /\ pos' = 0
    /\ parsed' = NoConfig
    /\ UNCHANGED <<posted, form, saved>>

Server ==
    \/ read
    \/ parse_credentials \/ serve_page
    \/ PageSent \/ AnswerSent
    \/ save_config
    \/ Reboot

Next == Accept \/ Deliver \/ ClientCloses \/ Server \/ SocketError \/ AcceptFails

Spec == Init /\ [][Next]_vars

(* The server goes on, and the timeout ends a connection that does not.    *)
FairSpec == Spec /\ WF_vars(Server) /\ WF_vars(SocketError)
-----------------------------------------------------------------------------
FormPrefix(c) ==
    \E k \in 0..6 : \A f \in Fields :
        /\ Place[f] <= k => c[f] = form[f]
        /\ Place[f] = k + 1 => c[f] \in {"empty", "cut"}
        /\ Place[f] > k + 1 => c[f] = "empty"

(* What is stored comes from one submitted form: its fields up to some     *)
(* place as they were entered, the field there perhaps cut, the rest       *)
(* empty; and there is a network name.                                     *)
SavedIsPrefix ==
    saved # NoConfig => posted /\ saved["ssid"] # "empty" /\ FormPrefix(saved)

(* A good form that arrives at once and fits the buffer is stored as it    *)
(* was entered, unless the connection or the flash fails.                  *)
WholeFormSaved ==
    \A f \in Forms :
        (/\ cpc = "read" /\ pos = 0 /\ sent = Total /\ Total <= BufferUnits
         /\ posted /\ form = f /\ Accepted(f))
        ~> (saved = f \/ cpc = "failed")

(* Whatever a client does, the portal takes the next one, until there are  *)
(* credentials.                                                            *)
PortalStaysOpen == []<>(cpc = "listen" \/ saved # NoConfig)

(* A good form that was posted is what parse_credentials returns.          *)
PostedFormAccepted ==
    [][cpc = "answer" /\ cpc' # "answer" /\ posted /\ Accepted(form)
         => cpc' = "saved" /\ parsed' = form]_vars
=============================================================================
