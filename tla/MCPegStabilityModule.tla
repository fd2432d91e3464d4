------------------------ MODULE MCPegStabilityModule ------------------------
(***************************************************************************)
(* One actor per role around one module.  Where it is not a FixedPricePSM  *)
(* it may also be the non-custodial module: the rate limit of this module  *)
(* is then the shared one of the global minter, on which new FEI is        *)
(* charged, and the limit on redemptions comes with variables of its own.  *)
(***************************************************************************)
EXTENDS PegStabilityModule

MCRoles == [role \in TribeRoles |->
    CASE role = "GOVERNOR"       -> {"governor"}
      [] role = "GUARDIAN"       -> {"guardian"}
      [] role = "PSM_ADMIN_ROLE" -> {"admin"}
      [] role = "PCV_CONTROLLER" -> {"controller"}
      [] OTHER                   -> {}]

GovernorRoles == [role \in TribeRoles |->
    CASE role = "GOVERNOR"       -> {"governor"}
      [] role = "PCV_CONTROLLER" -> {"controller"}
      [] OTHER                   -> {}]

VARIABLES
    custodial,
    redemptionRate, redemptionUsedTime, redemptionCap, redemptionStored, redemptionWindow,
    minterPaused, rateLimitPerAddress, individualMaxRateLimitPerSecond, individualMaxBufferCap,
    addressHeadroom, pcvDeposit, isMinterKnown, depositBalance, netHeadroom

nonCustodialOnly == <<redemptionRate, redemptionUsedTime, redemptionCap, redemptionStored, redemptionWindow,
    minterPaused, rateLimitPerAddress, individualMaxRateLimitPerSecond, individualMaxBufferCap,
    addressHeadroom, pcvDeposit, isMinterKnown, depositBalance, netHeadroom>>

NonCustodial == INSTANCE NonCustodialPSM WITH
    Actors <- {"governor", "controller"}, roleMembers <- GovernorRoles, AdminRoles <- {},
    psm <- "psm", Minters <- {"psm"}, UINT32 <- 3, UINT112 <- 3,
    MINTER_MAX_RATE <- 1, MinterRates <- {1}, MinterCaps <- {2, 3},
    BufferCaps <- {2}, Amounts <- {1, 2}, Prices <- {2, 3}, Fees <- {0, 3}, PublicFei <- 1,
    PublicUnderlying <- 2, Deposits <- {"deposit"},
    rateLimitPerSecond <- redemptionRate, lastBufferUsedTime <- redemptionUsedTime,
    bufferCap <- redemptionCap, bufferStored <- redemptionStored, windowHeadroom <- redemptionWindow,
    minterRate <- rateLimitPerSecond, minterUsedTime <- lastBufferUsedTime, minterCap <- bufferCap,
    minterStored <- bufferStored, minterWindow <- windowHeadroom, minterAdminRole <- contractAdminRole

ASSUME NonCustodial!NonCustodialAssumption

NoDeposit ==
    /\ redemptionRate = 0 /\ redemptionUsedTime = 0 /\ redemptionCap = 0 /\ redemptionStored = 0
    /\ redemptionWindow = 0 /\ minterPaused = FALSE /\ rateLimitPerAddress = <<>>
    /\ individualMaxRateLimitPerSecond = 0 /\ individualMaxBufferCap = 0 /\ addressHeadroom = <<>>
    /\ pcvDeposit = "none" /\ isMinterKnown = FALSE /\ depositBalance = <<>> /\ netHeadroom = 0

NoReserves == reservesThreshold = 0 /\ floor = 0 /\ ceiling = 0 /\ balance = 0

MCInit ==
    \/ custodial = TRUE /\ PSMInit /\ NoDeposit
    \/ ~isFixedPrice /\ custodial = FALSE /\ NonCustodial!NonCustodialInit /\ NoReserves

MCNext ==
    /\ custodial' = custodial
    /\ \/ custodial /\ PSMNext /\ UNCHANGED nonCustodialOnly
       \/ /\ ~custodial
          /\ NonCustodial!NonCustodialNext
          /\ UNCHANGED <<reservesThreshold, floor, ceiling, balance>>

MCSpec == MCInit /\ [][MCNext]_<<vars, custodial, nonCustodialOnly>>

\* In the situation that it is about: NonCustodialPSM!NetRedemptionBounded.
NetRedemptionBounded == NonCustodial!NetRedemptionBounded

\* The histories of the inherited rate limits, which no guard and no property here reads,
\* do not tell states apart.
View == <<now, rateLimitState, coreRefVars, oraclePrice, settings, holdings, custodial,
    redemptionRate, redemptionUsedTime, redemptionCap, redemptionStored, minterPaused,
    rateLimitPerAddress, individualMaxRateLimitPerSecond, individualMaxBufferCap,
    pcvDeposit, isMinterKnown, depositBalance, netHeadroom>>

\* Bounds for the non-custodial module: nothing goes on while any of it is paused or while it
\* points to another minter; and a window that may still see more than twice the cap
\* redeemed is followed no further.
Trading == custodial \/ (~paused /\ ~mintPaused /\ ~redeemPaused /\ isMinterKnown)
NarrowWindow == custodial \/ netHeadroom <= 2 * redemptionCap
=============================================================================
