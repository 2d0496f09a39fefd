----------------------------- MODULE BootProofs -----------------------------
(***************************************************************************)
(* The safety properties of the boot sequence, for every limit on failed   *)
(* attempts, every set of kinds of fault and every number of faults.       *)
(***************************************************************************)
EXTENDS Boot, TLAPS

(***************************************************************************)
(* Type correctness.  That the fail count stays within its limit needs     *)
(* the test that comes between a reset and the next attempt.               *)
(***************************************************************************)
CountInv == (bpc = "load" => failCount < MAX_STA_FAILS)

Typed == TypeOK /\ CountInv

LEMMA InitTyped == Init => Typed
<1> SUFFICES ASSUME Init
             PROVE  Typed
  OBVIOUS
<1>1. failCount \in 0..MAX_STA_FAILS /\ streak \in 0..MAX_STA_FAILS + 1 /\ faults \in 0..MaxFaults
  BY BootAssumption DEF Init
<1>2. config \in Credentials \cup {"none"} /\ netUp \in BOOLEAN
  BY Zenon DEF Init
<1>3. resetFlag \in BOOLEAN /\ forced \in BOOLEAN
  BY Zenon DEF Init
<1>4. bpc \in BootPc /\ wipe \in {"no", "requested", "due", "lost"} /\ CountInv
  BY DEF Init, BootPc, CountInv
<1> QED
  BY <1>1, <1>2, <1>3, <1>4, Zenon DEF Typed, TypeOK

LEMMA MainTyped == Typed /\ Main => Typed'
<1> SUFFICES ASSUME Typed, Main
             PROVE  Typed'
  OBVIOUS
<1> USE BootAssumption DEF Typed, TypeOK, CountInv, BootPc, Fault, FlashFails
<1>1. CASE take_factory_reset
  BY <1>1 DEF take_factory_reset
<1>2. CASE clear_config
  BY <1>2 DEF clear_config
<1>3. CASE force_portal
  <2>1. forced' \in BOOLEAN
    <3>1. forced' = TRUE \/ forced' = FALSE
      BY <1>3 DEF force_portal
    <3> QED BY ONLY <3>1, Zenon
  <2>2. failCount' \in 0..MAX_STA_FAILS /\ failCount' < MAX_STA_FAILS
    BY <1>3 DEF force_portal
  <2> QED BY <2>1, <2>2, <1>3 DEF force_portal
<1>4. CASE RadioFails
  BY <1>4 DEF RadioFails
<1>5. CASE StartPortal
  BY <1>5 DEF StartPortal
<1>6. CASE StartAttempt
  BY <1>6 DEF StartAttempt, OneMore
<1>7. CASE Connected
  BY <1>7 DEF Connected
<1>8. CASE ConnectFails
  BY <1>8 DEF ConnectFails
<1>9. CASE software_reset
  BY <1>9 DEF software_reset, Reset, Restart
<1> QED
  BY <1>1, <1>2, <1>3, <1>4, <1>5, <1>6, <1>7, <1>8, <1>9 DEF Main

LEMMA OthersTyped == Typed /\ (ButtonReset \/ Environment) => Typed'
<1> SUFFICES ASSUME Typed, ButtonReset \/ Environment
             PROVE  Typed'
  OBVIOUS
<1> USE BootAssumption DEF Typed, TypeOK, CountInv, BootPc, Fault, FlashFails
<1>1. CASE ButtonReset
  BY <1>1 DEF ButtonReset, Reset, Restart
<1>2. ASSUME NEW c \in Credentials, Submit(c)
      PROVE  Typed'
  BY <1>2 DEF Submit
<1>3. CASE PortalFails
  BY <1>3 DEF PortalFails
<1>4. CASE request_factory_reset
  BY <1>4 DEF request_factory_reset, Waiting
<1>5. CASE PowerCut
  <2>1. config' \in Credentials \cup {"none"}
    BY <1>5 DEF PowerCut
  <2>2. resetFlag' \in BOOLEAN /\ forced' \in BOOLEAN
    BY <1>5, Zenon DEF PowerCut, Restart
  <2> QED BY <2>1, <2>2, <1>5 DEF PowerCut, Restart
<1>6. CASE Outage
  <2>1. netUp' \in BOOLEAN
    BY <1>6, Zenon DEF Outage
  <2> QED BY <2>1, <1>6 DEF Outage
<1>7. CASE NetReturns
  BY <1>7 DEF NetReturns
<1> QED
  BY <1>1, <1>2, <1>3, <1>4, <1>5, <1>6, <1>7 DEF Environment

LEMMA StutterTyped == Typed /\ UNCHANGED vars => Typed'
BY DEF Typed, TypeOK, CountInv, vars

LEMMA AlwaysTyped == Spec => []Typed
<1>1. Typed /\ [Next]_vars => Typed'
  BY MainTyped, OthersTyped, StutterTyped DEF Next
<1> QED
  BY InitTyped, <1>1, PTL DEF Spec

(* Every variable keeps its type; the fail count in RTC memory never goes  *)
(* beyond the limit that forces the portal.                                *)
THEOREM TypeCorrect == Spec => []TypeOK
<1>1. Typed => TypeOK
  BY DEF Typed
<1> QED
  BY AlwaysTyped, <1>1, PTL

(***************************************************************************)
(* The fail count and the attempts it stands for.  They differ after the   *)
(* count was cleared for a portal that has not started yet.                *)
(***************************************************************************)
ForcedNow == forced /\ bpc = "load"

StreakInv ==
    /\ failCount <= streak
    /\ ForcedNow => failCount = 0 /\ streak >= MAX_STA_FAILS
    /\ streak = failCount \/ (ForcedNow /\ streak = MAX_STA_FAILS)

LEMMA InitStreak == Init => StreakInv
BY DEF Init, StreakInv, ForcedNow

LEMMA ResetStreak ==
  ASSUME Typed, StreakInv, Reset, bpc # "load",
         UNCHANGED <<failCount, streak>>
  PROVE  StreakInv'
BY DEF StreakInv, ForcedNow, Reset, Restart

(* Steps that leave the counts alone and neither start nor end in "load".  *)
LEMMA OtherStreak ==
  ASSUME Typed, StreakInv, bpc # "load", bpc' # "load",
         UNCHANGED <<failCount, streak>>
  PROVE  StreakInv'
BY DEF StreakInv, ForcedNow

LEMMA StepStreak == Typed /\ StreakInv /\ [Next]_vars => StreakInv'
<1> SUFFICES ASSUME Typed, StreakInv, [Next]_vars
             PROVE  StreakInv'
  OBVIOUS
<1>0. failCount \in 0..MAX_STA_FAILS /\ streak \in 0..MAX_STA_FAILS + 1 /\ MAX_STA_FAILS \in Nat \ {0}
  BY BootAssumption DEF Typed, TypeOK
<1>1. CASE take_factory_reset
  BY <1>1, OtherStreak DEF take_factory_reset
<1>2. CASE clear_config
  BY <1>2 DEF clear_config, StreakInv, ForcedNow
<1>3. CASE force_portal
  BY <1>0, <1>3 DEF force_portal, StreakInv, ForcedNow
<1>4. CASE RadioFails
  <2>1. CASE forced
    BY <1>4, <2>1 DEF RadioFails, StreakInv, ForcedNow
  <2>2. CASE ~forced
    BY <1>4, <2>2 DEF RadioFails, StreakInv, ForcedNow
  <2> QED BY <2>1, <2>2
<1>5. CASE StartPortal
  <2>1. CASE forced
    BY <1>5, <2>1 DEF StartPortal, StreakInv, ForcedNow
  <2>2. CASE ~forced
    BY <1>5, <2>2 DEF StartPortal, StreakInv, ForcedNow
  <2> QED BY <2>1, <2>2
<1>6. CASE StartAttempt
  BY <1>0, <1>6 DEF StartAttempt, OneMore, StreakInv, ForcedNow, Typed, CountInv
<1>7. CASE Connected
  BY <1>7 DEF Connected, StreakInv, ForcedNow
<1>8. CASE ConnectFails
  BY <1>8, OtherStreak DEF ConnectFails
<1>9. CASE software_reset
  BY <1>9, ResetStreak DEF software_reset
<1>10. CASE ButtonReset
  BY <1>10, ResetStreak DEF ButtonReset, Waiting
<1>11. CASE \E c \in Credentials : Submit(c)
  BY <1>11, OtherStreak DEF Submit
<1>12. CASE PortalFails
  BY <1>12, OtherStreak DEF PortalFails
<1>13. CASE request_factory_reset
  BY <1>13, OtherStreak DEF request_factory_reset, Waiting
<1>14. CASE PowerCut
  BY <1>14 DEF PowerCut, Restart, StreakInv, ForcedNow
<1>15. CASE Outage \/ NetReturns \/ UNCHANGED vars
  <2>1. UNCHANGED <<failCount, streak, bpc, forced>>
    BY <1>15 DEF Outage, NetReturns, vars
  <2> QED BY <2>1 DEF StreakInv, ForcedNow
<1> QED
  BY <1>1, <1>2, <1>3, <1>4, <1>5, <1>6, <1>7, <1>8, <1>9, <1>10, <1>11,
     <1>12, <1>13, <1>14, <1>15 DEF Next, Main, Environment

LEMMA AlwaysStreak == Spec => []StreakInv
<1> QED
  BY InitStreak, StepStreak, AlwaysTyped, PTL DEF Spec

(* The portal is forced on a device with stored credentials only by        *)
(* MAX_STA_FAILS attempts in a row.                                        *)
THEOREM ForcedPortalIsEarned == Spec => []ForcedPortalEarned
<1>1. StreakInv => ForcedPortalEarned
  BY DEF StreakInv, ForcedNow, ForcedPortalEarned
<1> QED
  BY AlwaysStreak, <1>1, PTL

(* A device never makes more than MAX_STA_FAILS attempts in a row,         *)
(* whatever resets, panics and faults come between.                        *)
THEOREM StreakIsBounded == Spec => []StreakBounded
<1>1. Typed /\ StreakInv => StreakBounded
  BY BootAssumption DEF Typed, TypeOK, StreakInv, StreakBounded
<1> QED
  BY AlwaysTyped, AlwaysStreak, <1>1, PTL

(***************************************************************************)
(* Factory resets.  Between resets the flag in RTC memory says exactly     *)
(* what was asked for, and a request that is due has not got past the      *)
(* wipe.                                                                   *)
(***************************************************************************)
WipeInv ==
    /\ resetFlag => wipe \in {"requested", "due"}
    /\ bpc = "start" => wipe # "requested" /\ (wipe = "due" => resetFlag)
    /\ bpc = "wipe" => wipe = "due" /\ ~resetFlag
    /\ bpc \notin {"start", "wipe"} => wipe # "due" /\ (wipe = "requested" => resetFlag)

LEMMA InitWipe == Init => WipeInv
BY DEF Init, WipeInv

LEMMA ResetWipe ==
  ASSUME Typed, WipeInv, Reset, bpc \notin {"start", "wipe"}, UNCHANGED resetFlag
  PROVE  WipeInv'
BY DEF WipeInv, Reset, Restart, Typed, TypeOK

(* Steps past the wipe that are not resets.                                *)
LEMMA OtherWipe ==
  ASSUME WipeInv, bpc \notin {"start", "wipe"}, bpc' \notin {"start", "wipe"},
         UNCHANGED <<resetFlag, wipe>>
  PROVE  WipeInv'
BY DEF WipeInv

LEMMA StepWipe == Typed /\ WipeInv /\ [Next]_vars => WipeInv'
<1> SUFFICES ASSUME Typed, WipeInv, [Next]_vars
             PROVE  WipeInv'
  OBVIOUS
<1>1. CASE take_factory_reset
  <2>1. CASE resetFlag
    BY <1>1, <2>1 DEF take_factory_reset, WipeInv
  <2>2. CASE ~resetFlag
    BY <1>1, <2>2 DEF take_factory_reset, WipeInv
  <2> QED BY <2>1, <2>2
<1>2. CASE clear_config
  BY <1>2 DEF clear_config, FlashFails, Fault, WipeInv
<1>3. CASE force_portal \/ RadioFails \/ StartPortal \/ StartAttempt
  BY <1>3, OtherWipe DEF force_portal, RadioFails, StartPortal, StartAttempt
<1>4. CASE Connected \/ ConnectFails
  BY <1>4, OtherWipe DEF Connected, ConnectFails
<1>5. CASE software_reset \/ ButtonReset
  BY <1>5, ResetWipe DEF software_reset, ButtonReset, Waiting
<1>6. CASE \E c \in Credentials : Submit(c)
  BY <1>6, OtherWipe DEF Submit
<1>7. CASE PortalFails
  BY <1>7, OtherWipe DEF PortalFails
<1>8. CASE request_factory_reset
  BY <1>8 DEF request_factory_reset, Waiting, WipeInv
<1>9. CASE PowerCut
  BY <1>9 DEF PowerCut, Restart, WipeInv
<1>10. CASE Outage \/ NetReturns \/ UNCHANGED vars
  <2>1. UNCHANGED <<bpc, wipe, resetFlag>>
    BY <1>10 DEF Outage, NetReturns, vars
  <2> QED BY <2>1 DEF WipeInv
<1> QED
  BY <1>1, <1>2, <1>3, <1>4, <1>5, <1>6, <1>7, <1>8, <1>9, <1>10
     DEF Next, Main, Environment

LEMMA AlwaysWipe == Spec => []WipeInv
<1> QED
  BY InitWipe, StepWipe, AlwaysTyped, PTL DEF Spec

(* A factory reset, once asked for and not lost to a fault, comes before   *)
(* any further use of the stored credentials.                              *)
THEOREM ResetsAreHonoured == Spec => []ResetHonoured
<1>1. WipeInv => ResetHonoured
  BY DEF WipeInv, ResetHonoured
<1> QED
  BY AlwaysWipe, <1>1, PTL

(* A step that loses stored credentials is a wipe that was asked for, or   *)
(* the fault that strikes in it.                                           *)
THEOREM WipesAreRequested == Spec => WipedOnlyOnRequest
<1> DEFINE Lost == config # "none" /\ config' = "none"
<1>1. ASSUME Typed, WipeInv, [Next]_vars
      PROVE  [Lost => (wipe = "due" \/ faults' # faults)]_vars
  <2> SUFFICES ASSUME Lost, Next, faults' = faults
               PROVE  wipe = "due"
    BY <1>1
  <2>0. ~Fault("flash") /\ ~Fault("powerCut")
    BY <1>1 DEF Fault, Typed, TypeOK
  <2>1. bpc = "wipe" \/ config' = config \/ config' \in Credentials
    BY <2>0 DEF Next, Main, Environment, take_factory_reset, clear_config, FlashFails,
           force_portal, RadioFails, StartPortal, StartAttempt, Connected, ConnectFails,
           software_reset, ButtonReset, Submit, PortalFails, request_factory_reset,
           PowerCut, Outage, NetReturns
  <2>2. bpc = "wipe"
    BY <2>1 DEF Credentials
  <2> QED BY <1>1, <2>2 DEF WipeInv
<1> QED
  BY AlwaysTyped, AlwaysWipe, <1>1, PTL DEF Spec, WipedOnlyOnRequest
=============================================================================
