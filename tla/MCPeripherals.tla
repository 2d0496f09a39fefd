--------------------------- MODULE MCPeripherals ---------------------------
(***************************************************************************)
(* The parts of the firmware that share no state with another: the setup   *)
(* portal, the LED task, the keep-alive timing of a session, the time task *)
(* and the decoding of announcements.  A behaviour of this module is one   *)
(* of one part, the others rest in their initial states.                   *)
(***************************************************************************)
EXTENDS MCPortal, Led, KeepAlive, Clock, AnnouncementPayload

VARIABLE part

Parts == {"portal", "led", "keepAlive", "clock", "payload"}

allVars == <<part, vars, ledVars, keepAliveVars, clockVars, payloadVars>>

MCInit ==
    /\ part \in Parts
    /\ Init /\ LedInit /\ KeepAliveInit /\ ClockInit /\ PayloadInit
    /\ part # "portal" => form = [f \in Fields |-> "set"]
    /\ part # "clock" => \A s \in Seconds : second <= s

PortalStep ==
    /\ part = "portal" /\ Next
    /\ UNCHANGED <<part, ledVars, keepAliveVars, clockVars, payloadVars>>

LedStep ==
    /\ part = "led" /\ LedNext
    /\ UNCHANGED <<part, vars, keepAliveVars, clockVars, payloadVars>>

KeepAliveStep ==
    /\ part = "keepAlive" /\ KeepAliveNext
    /\ UNCHANGED <<part, vars, ledVars, clockVars, payloadVars>>

ClockStep ==
    /\ part = "clock" /\ ClockNext
    /\ UNCHANGED <<part, vars, ledVars, keepAliveVars, payloadVars>>

PayloadStep ==
    /\ part = "payload" /\ PayloadNext
    /\ UNCHANGED <<part, vars, ledVars, keepAliveVars, clockVars>>

MCNext == PortalStep \/ LedStep \/ KeepAliveStep \/ ClockStep \/ PayloadStep

(* The fairness of FairSpec, LedFairSpec and KeepAliveFairSpec, each where *)
(* its part is the one that runs.                                          *)
MCFairness ==
    /\ WF_vars(part = "portal" /\ Server)
    /\ WF_vars(part = "portal" /\ SocketError)
    /\ WF_ledVars(part = "led" /\ (Receive \/ Cancel))
    /\ WF_ledVars(part = "led" /\ (FrameOut \/ FrameFails \/ NextFrame))
    /\ WF_keepAliveVars(part = "keepAlive" /\ Tick)
    /\ WF_keepAliveVars(part = "keepAlive" /\ Firmware)

MCSpec == MCInit /\ [][MCNext]_allVars /\ MCFairness
=============================================================================
