-------------------------------- MODULE Boot --------------------------------
(***************************************************************************)
(* The boot sequence: what main does between a reset and the moment it     *)
(* waits for good, over all the resets of a device's life.  The stored     *)
(* configuration survives everything, the two variables in RTC memory      *)
(* survive every reset but a power cut, the rest starts afresh.            *)
(*                                                                         *)
(* main waits only in "connect", "portal", "failed", "portalDone" and      *)
(* "ready"; the boot button's task runs only there.  Before, main runs     *)
(* without a wait and only a power cut can come between two steps.         *)
(***************************************************************************)
EXTENDS Naturals

CONSTANTS
    MAX_STA_FAILS,  \* failed attempts in a row that force the portal
    Faults,         \* the kinds of fault that happen, a subset of FaultKinds
    MaxFaults       \* bound: how many faults happen

FaultKinds ==
    {"outage",      \* the Wi-Fi network stops answering
     "socket",      \* the portal's access point or its socket fails
     "radio",       \* the Wi-Fi driver does not initialise
     "flash",       \* a flash access returns an error
     "powerCut"}    \* the power goes and comes back

ASSUME BootAssumption ==
    /\ MAX_STA_FAILS \in Nat \ {0}
    /\ Faults \subseteq FaultKinds
    /\ MaxFaults \in Nat

(* DeviceConfig by what it leads to: "good" connects; with "badWifi" the   *)
(* station never gets an address; "badMqtt" does, but its broker address   *)
(* is not an IP address.                                                   *)
Credentials == {"good", "badWifi", "badMqtt"}

VARIABLES
    config,     \* flash: the stored credentials, or "none"
    failCount,  \* RTC memory: STA_FAIL_COUNT
    resetFlag,  \* RTC memory: FACTORY_RESET
    bpc,        \* where main is
    forced,     \* main's force_portal
    netUp,      \* the user's Wi-Fi network answers
    faults,     \* faults so far
    wipe,       \* history: the last factory reset asked for
    streak      \* history: attempts since the last one that succeeded, the
                \*   last boot that decided on the portal, factory reset or
                \*   power cut

vars == <<config, failCount, resetFlag, bpc, forced, netUp, faults, wipe, streak>>

BootPc == {"start",         \* take_factory_reset
           "wipe",          \* clear_config
           "count",         \* the test of the fail count
           "load",          \* wifi::init and load_config
           "connect",       \* sta::connect
           "ready",         \* ready(), for ever
           "failed",        \* WIFI_FAIL_REBOOT_DELAY_SECS
           "portal",        \* start_ap
           "portalDone",    \* PORTAL_REBOOT_DELAY_SECS
           "panic"}         \* the panic handler's delay

(* main waits, so the other tasks run.                                     *)
Waiting == bpc \in {"connect", "ready", "failed", "portal", "portalDone"}

TypeOK ==
    /\ config \in Credentials \cup {"none"}
    /\ failCount \in 0..MAX_STA_FAILS
    /\ resetFlag \in BOOLEAN
    /\ bpc \in BootPc
    /\ forced \in BOOLEAN
    /\ netUp \in BOOLEAN
    /\ faults \in 0..MaxFaults
    /\ wipe \in {"no",          \* none, or it has been done
                 "requested",   \* asked for since the last reset
                 "due",         \* asked for before it
                 "lost"}        \* lost to a power cut or a flash error
    /\ streak \in 0..MAX_STA_FAILS + 1

(* A device out of the box, or one configured long ago, is powered on.     *)
Init ==
    /\ config \in Credentials \cup {"none"}
    /\ failCount = 0
    /\ resetFlag = FALSE
    /\ bpc = "start"
    /\ forced = FALSE
    /\ netUp \in BOOLEAN
    /\ faults = 0
    /\ wipe = "no"
    /\ streak = 0

(* The history variable need not count further than this.                  *)
OneMore(n) == IF n > MAX_STA_FAILS THEN n ELSE n + 1

Fault(kind) ==
    /\ kind \in Faults
    /\ faults < MaxFaults
    /\ faults' = faults + 1

-----------------------------------------------------------------------------
(* Before main waits                                                       *)

(* Mutant of take_factory_reset: the request is not cleared.               *)
take_factory_reset_kept ==
    /\ bpc = "start"
    /\ bpc' = IF resetFlag THEN "wipe" ELSE "count"
    /\ UNCHANGED <<config, failCount, resetFlag, forced, netUp, faults, wipe, streak>>

take_factory_reset ==
    /\ bpc = "start"
    /\ bpc' = IF resetFlag THEN "wipe" ELSE "count"
    /\ resetFlag' = FALSE
    /\ UNCHANGED <<config, failCount, forced, netUp, faults, wipe, streak>>

(* A flash write that fails leaves what was there or an erased sector.     *)
FlashFails ==
    /\ Fault("flash")
    /\ config' \in {config, "none"}

(* Mutant of clear_config: only the fail count is cleared.                 *)
clear_config_not ==
    /\ bpc = "wipe"
    /\ wipe' = wipe
    /\ bpc' = "count"
    /\ failCount' = 0
    /\ streak' = 0
    /\ UNCHANGED <<config, resetFlag, forced, netUp, faults>>

(* The result of clear_config is ignored; the fail count is cleared.       *)
clear_config ==
    /\ bpc = "wipe"
    /\ \/ config' = "none" /\ wipe' = "no" /\ faults' = faults
       \/ FlashFails /\ wipe' = "lost"
    /\ bpc' = "count"
    /\ failCount' = 0
    /\ streak' = 0
    /\ UNCHANGED <<resetFlag, forced, netUp>>

(* Mutants of force_portal: the count is cleared before it is tested; the  *)
(* test is off by one.                                                     *)
force_portal_cleared ==
    /\ bpc = "count"
    /\ failCount' = IF failCount >= MAX_STA_FAILS THEN 0 ELSE failCount
    /\ forced' = FALSE
    /\ bpc' = "load"
    /\ UNCHANGED <<config, resetFlag, netUp, faults, wipe, streak>>

force_portal_late ==
    /\ bpc = "count"
    /\ \/ failCount > MAX_STA_FAILS /\ forced' = TRUE /\ failCount' = 0
       \/ failCount <= MAX_STA_FAILS /\ forced' = FALSE /\ failCount' = failCount
    /\ bpc' = "load"
    /\ UNCHANGED <<config, resetFlag, netUp, faults, wipe, streak>>

(* The fail count is cleared when the portal is decided on.                *)
force_portal ==
    /\ bpc = "count"
    /\ \/ failCount >= MAX_STA_FAILS /\ forced' = TRUE /\ failCount' = 0
       \/ failCount < MAX_STA_FAILS /\ forced' = FALSE /\ failCount' = failCount
    /\ bpc' = "load"
    /\ UNCHANGED <<config, resetFlag, netUp, faults, wipe, streak>>

(* wifi::init(..).unwrap()                                                 *)
RadioFails ==
    /\ bpc = "load"
    /\ Fault("radio")
    /\ bpc' = "panic"
    /\ streak' = IF forced THEN 0 ELSE streak
    /\ UNCHANGED <<config, failCount, resetFlag, forced, netUp, wipe>>

(* No credentials, or they are not wanted, or they cannot be read.         *)
StartPortal ==
    /\ bpc = "load"
    /\ \/ (forced \/ config = "none") /\ faults' = faults
       \/ ~forced /\ Fault("flash")
    /\ bpc' = "portal"
    /\ streak' = IF forced THEN 0 ELSE streak
    /\ UNCHANGED <<config, failCount, resetFlag, forced, netUp, wipe>>

(* Mutant of StartAttempt: attempts are not counted.                       *)
StartAttemptUncounted ==
    /\ bpc = "load"
    /\ ~forced /\ config # "none"
    /\ bpc' = "connect"
    /\ streak' = OneMore(streak)
    /\ UNCHANGED <<config, failCount, resetFlag, forced, netUp, faults, wipe>>

(* The attempt is counted before it is made.                               *)
StartAttempt ==
    /\ bpc = "load"
    /\ ~forced /\ config # "none"
    /\ bpc' = "connect"
    /\ failCount' = failCount + 1
    /\ streak' = OneMore(streak)
    /\ UNCHANGED <<config, resetFlag, forced, netUp, faults, wipe>>

-----------------------------------------------------------------------------
(* Where main waits                                                        *)

(* The station gets an address within DHCP_TIMEOUT_SECS.                   *)
CanConnect == netUp /\ config # "badWifi"

(* Mutant of Connected: the fail count is not cleared.                     *)
ConnectedStillCounted ==
    /\ bpc = "connect"
    /\ CanConnect
    /\ streak' = 0
    /\ bpc' = IF config = "badMqtt" THEN "panic" ELSE "ready"
    /\ UNCHANGED <<config, failCount, resetFlag, forced, netUp, faults, wipe>>

(* The stack is up.  mqtt_spawn unwraps the parse of the broker address.   *)
Connected ==
    /\ bpc = "connect"
    /\ CanConnect
    /\ failCount' = 0
    /\ streak' = 0
    /\ bpc' = IF config = "badMqtt" THEN "panic" ELSE "ready"
    /\ UNCHANGED <<config, resetFlag, forced, netUp, faults, wipe>>

ConnectFails ==
    /\ bpc = "connect"
    /\ ~CanConnect
    /\ bpc' = "failed"
    /\ UNCHANGED <<config, failCount, resetFlag, forced, netUp, faults, wipe, streak>>

(* Somebody submits the form of the portal.  A save that fails is logged.  *)
Submit(c) ==
    /\ bpc = "portal"
    /\ \/ config' = c /\ faults' = faults
       \/ FlashFails
    /\ bpc' = "portalDone"
    /\ UNCHANGED <<failCount, resetFlag, forced, netUp, wipe, streak>>

(* Any error of the access point or of a connection ends the portal.       *)
PortalFails ==
    /\ bpc = "portal"
    /\ Fault("socket")
    /\ bpc' = "portalDone"
    /\ UNCHANGED <<config, failCount, resetFlag, forced, netUp, wipe, streak>>

(* The boot button has been held for BUTTON_HOLD_DURATION_SECS.            *)
request_factory_reset ==
    /\ Waiting
    /\ ~resetFlag
    /\ resetFlag' = TRUE
    /\ wipe' = "requested"
    /\ UNCHANGED <<config, failCount, bpc, forced, netUp, faults, streak>>

-----------------------------------------------------------------------------
(* Resets                                                                  *)

Restart ==
    /\ bpc' = "start"
    /\ forced' = FALSE
    /\ UNCHANGED netUp

Reset ==
    /\ Restart
    /\ wipe' = IF wipe = "requested" THEN "due" ELSE wipe

(* main's and the panic handler's software_reset, after their delays.      *)
software_reset ==
    /\ bpc \in {"failed", "portalDone", "panic"}
    /\ Reset
    /\ UNCHANGED <<config, failCount, resetFlag, faults, streak>>

(* The button task's software_reset, FACTORY_RESET_REBOOT_DELAY_MS after   *)
(* its request; main goes on meanwhile.                                    *)
ButtonReset ==
    /\ Waiting
    /\ resetFlag
    /\ Reset
    /\ UNCHANGED <<config, failCount, resetFlag, faults, streak>>

(* A power cut zeroes the RTC memory; one that comes during a flash write  *)
(* leaves the record erased or partly written, which does not decode.      *)
PowerCut ==
    /\ Fault("powerCut")
    /\ config' \in {config} \cup (IF bpc \in {"wipe", "portal"} THEN {"none"} ELSE {})
    /\ failCount' = 0
    /\ resetFlag' = FALSE
    /\ streak' = 0
    /\ wipe' = IF wipe = "no" THEN "no" ELSE "lost"
    /\ Restart

Outage ==
    /\ netUp
    /\ Fault("outage")
    /\ netUp' = FALSE
    /\ UNCHANGED <<config, failCount, resetFlag, bpc, forced, wipe, streak>>

NetReturns ==
    /\ ~netUp
    /\ netUp' = TRUE
    /\ UNCHANGED <<config, failCount, resetFlag, bpc, forced, faults, wipe, streak>>

Main ==
    \/ take_factory_reset
    \/ clear_config
    \/ force_portal
    \/ RadioFails
    \/ StartPortal
    \/ StartAttempt
    \/ Connected
    \/ ConnectFails
    \/ software_reset

Environment ==
    \/ \E c \in Credentials : Submit(c)
    \/ PortalFails
    \/ request_factory_reset
    \/ PowerCut
    \/ Outage
    \/ NetReturns

Next == Main \/ ButtonReset \/ Environment

Spec == Init /\ [][Next]_vars

(* Code runs on and delays end.  Nobody has to fill in the portal's form   *)
(* or hold the button, and the network need not come back.                 *)
FairSpec == Spec /\ WF_vars(Main) /\ WF_vars(ButtonReset)
-----------------------------------------------------------------------------
(* A factory reset is carried out before any stored credentials are used   *)
(* again, whatever main was doing when the button was held, however it got *)
(* to the next boot and whatever fails on the way, unless a power cut or   *)
(* an error of the wipe itself loses the request.                          *)
ResetHonoured == bpc \in {"connect", "ready"} => wipe # "due"

(* The documented promise of request_factory_reset, without that           *)
(* exception.                                                              *)
ResetAlwaysHonoured == bpc \in {"connect", "ready"} => wipe \notin {"due", "lost"}

(* Stored credentials are lost to a factory reset or to a fault that       *)
(* strikes at that very moment, and to nothing else: no boot wipes them    *)
(* because an earlier one was asked to.                                    *)
WipedOnlyOnRequest ==
    [][(config # "none" /\ config' = "none") => (wipe = "due" \/ faults' # faults)]_vars

(* Stored credentials are passed over only after MAX_STA_FAILS attempts    *)
(* since the last success: an earlier failure, a reset during an attempt   *)
(* or a boot that got connected does not bring the portal up sooner.       *)
ForcedPortalEarned == (forced /\ bpc = "load") => streak >= MAX_STA_FAILS

(* The attempts in a row are never more than MAX_STA_FAILS, resets, panics *)
(* and driver failures between them included.                              *)
StreakBounded == streak <= MAX_STA_FAILS

(* The device comes to rest, connected or in the portal, without anybody's *)
(* help, whatever faults happen on the way.  The exception is a broker     *)
(* address that is not an IP address: each boot connects, clears the fail  *)
(* count and panics.                                                       *)
BootSettles ==
    (config # "badMqtt") ~> (bpc \in {"ready", "portal"} \/ config = "badMqtt")

(* A factory reset ends in the portal, unless the request is lost as above.*)
ResetReachesPortal == (wipe = "requested") ~> (bpc = "portal" \/ wipe = "lost")
=============================================================================
