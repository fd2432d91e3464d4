-------------------------- MODULE ProposalsOffRecord --------------------------
(***************************************************************************)
(* Steps the repository keeps no proposal of but its later proposals       *)
(* presuppose: they remove deposits nobody added, unpause contracts nobody *)
(* paused and count a reward pool nobody created.  Each is inferred from   *)
(* the later proposal that would fail or be void without it.               *)
(***************************************************************************)
EXTENDS ProtocolWorld

\* FIP-60c, oa_cr_fix and TIP-121a (cont.) remove these deposits.
oracle_upkeep ==
  << AddDeposits({"rariPool28FeiPCVDeposit", "rariPool31FeiPCVDeposit", "rariPool72FeiPCVDeposit",
       "rariPool79FeiPCVDeposit", "rariPool91FeiPCVDeposit", "convexPoolPCVDepositWrapper",
       "compoundFeiPCVDepositWrapper"}),
     RemoveDeposits({"creamFeiPCVDepositWrapper"}) >>

\* FIP-76b unpauses the mover of the second half of the WETH.
mover_paused == << Call("delayedPCVMoverWethUniToBal", "pause") >>

\* The end of the TRIBE incentives finds an eighteenth pool.
bribe_pool ==
  << AddPool("stakingTokenWrapperBribe3Crvpool"),
     InitWrapper("stakingTokenWrapperBribe3Crvpool", 17) >>

\* The new buyback pool unpauses the minter.
minter_paused == << Call("pcvEquityMinter", "pause") >>

\* Between the new buyback pool, which unpauses the minter, and TIP-117, whose validation
\* unpauses it again, somebody paused it.
buybacks_paused == << Call("pcvEquityMinter", "pause") >>

\* TIP-118 pauses controllers and expects stablecoin modules to be paused already.
psms_switched ==
  << Call("aaveEthPCVDripController", "unpause"), Call("lusdPCVDripController", "unpause"),
     Call("lusdPSMFeiSkimmer", "unpause"), Call("ethPSM", "pause"),
     Call("raiPriceBoundPSM", "pause") >>
=============================================================================
