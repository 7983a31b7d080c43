----------------------------- MODULE RouteBook -----------------------------
(***************************************************************************)
(* HydraRouteBook.sol: providers advertise routes and lock a USDC stake,   *)
(* which they get back some time after withdrawing the advertisement.      *)
(* Regions, protocols, prices and endpoint ciphertexts are validated and   *)
(* stored but nothing on chain depends on them; submitSlashClaim only      *)
(* emits an event, so it changes nothing here.                             *)
(***************************************************************************)
EXTENDS BaseChain, Sums

CONSTANTS
  Book,             \* address of the contract
  WithdrawalDelay,  \* immutable withdrawalDelay; zero is accepted
  MaxRoutes         \* bound on the number of route offers

ASSUME BookAssumption ==
  /\ Book \in Contracts
  /\ WithdrawalDelay \in Nat
  /\ MaxRoutes \in Nat

VARIABLE routes  \* _offers; ids are the positions, _offerCount the length

routeBookVars == <<chainVars, routes>>

RouteOffer ==
  [provider : Users, agentId : Agents, stakeAmount : Nat,
   active : BOOLEAN, deactivatedAt : Nat]

BookTypeOK ==
  /\ ChainTypeOK
  /\ routes \in Seq(RouteOffer)

BookInit == ChainInit /\ routes = <<>>

-----------------------------------------------------------------------------
CanCreateOffer(provider, agent, stake) ==
  /\ Len(routes) < MaxRoutes
  /\ ownerOf[agent] = provider
  /\ stake # 0
  /\ CanTransferFrom(provider, Book, stake)

CreateOffer(provider, agent, stake) ==
  /\ CanCreateOffer(provider, agent, stake)
  /\ balanceOf' = Moved(provider, Book, stake)
  /\ allowance' = Spent(provider, Book, stake)
  /\ routes' = Append(routes,
       [provider |-> provider, agentId |-> agent, stakeAmount |-> stake,
        active |-> TRUE, deactivatedAt |-> 0])
  /\ UNCHANGED <<now, ownerOf, donated>>

CanDeactivateOffer(provider, id) ==
  routes[id].provider = provider /\ routes[id].active

DeactivateOffer(provider, id) ==
  /\ CanDeactivateOffer(provider, id)
  /\ routes' = [routes EXCEPT ![id].active = FALSE, ![id].deactivatedAt = now]
  /\ UNCHANGED chainVars

\* Mutant: the ownership of the agent is checked again.
CanWithdrawStakeOwner(provider, id) ==
  /\ routes[id].provider = provider
  /\ ownerOf[routes[id].agentId] = provider
  /\ ~ routes[id].active
  /\ routes[id].stakeAmount # 0
  /\ now >= routes[id].deactivatedAt + WithdrawalDelay
  /\ CanTransfer(Book, routes[id].stakeAmount)

CanWithdrawStake(provider, id) ==
  /\ routes[id].provider = provider
  /\ ~ routes[id].active
  /\ routes[id].stakeAmount # 0
  /\ now >= routes[id].deactivatedAt + WithdrawalDelay
  /\ CanTransfer(Book, routes[id].stakeAmount)

\* Mutant: the stake is paid but not zeroed.
WithdrawStakeTwice(provider, id) ==
  /\ CanWithdrawStake(provider, id)
  /\ balanceOf' = Moved(Book, provider, routes[id].stakeAmount)
  /\ UNCHANGED <<now, allowance, ownerOf, donated, routes>>

WithdrawStake(provider, id) ==
  /\ CanWithdrawStake(provider, id)
  /\ balanceOf' = Moved(Book, provider, routes[id].stakeAmount)
  /\ routes' = [routes EXCEPT ![id].stakeAmount = 0]
  /\ UNCHANGED <<now, allowance, ownerOf, donated>>

BookStep ==
  \E provider \in Users :
    \/ \E agent \in Agents, stake \in Amounts : CreateOffer(provider, agent, stake)
    \/ \E id \in DOMAIN routes :
         DeactivateOffer(provider, id) \/ WithdrawStake(provider, id)

BookNext ==
  \/ BookStep
  \/ ChainStep /\ UNCHANGED routes

BookSpec == BookInit /\ [][BookNext]_routeBookVars

-----------------------------------------------------------------------------
Staked == SumTo([i \in DOMAIN routes |-> routes[i].stakeAmount], Len(routes))

\* The USDC the book owns is exactly the stakes not yet withdrawn plus what
\* was sent to it directly: createOffer and withdrawStake agree on every stake.
StakesBacked == balanceOf[Book] = Staked + donated[Book]

\* A stake only leaves the book whole, to its provider, from an offer that has
\* been inactive for the whole delay; and an inactive offer never comes back.
\* This relates three transactions of the provider, blocks apart.
StakeDiscipline ==
  \A i \in DOMAIN routes :
    /\ routes[i].stakeAmount # routes'[i].stakeAmount =>
         /\ routes'[i].stakeAmount = 0
         /\ ~ routes[i].active
         /\ now - routes[i].deactivatedAt >= WithdrawalDelay
         /\ balanceOf'[routes[i].provider] =
              balanceOf[routes[i].provider] + routes[i].stakeAmount
    /\ ~ routes[i].active =>
         /\ ~ routes'[i].active
         /\ routes'[i].deactivatedAt = routes[i].deactivatedAt
    /\ routes'[i].provider = routes[i].provider

StakesDisciplined == [][StakeDiscipline]_routeBookVars

BookCustody == INSTANCE Custody WITH
  Deposits <- Amounts,
  held <- [i \in DOMAIN routes |-> routes[i].stakeAmount],
  pot <- balanceOf[Book]

\* The book implements Custody: USDC enters as a recorded stake or a gift, and
\* leaves only as one whole stake, once.
BookKeepsCustody == BookCustody!Spec

Deactivated(id) == id \in DOMAIN routes /\ ~ routes[id].active

\* No stake is trapped: once an offer is deactivated (early enough for the
\* bounded clock), its provider can withdraw the stake, or has withdrawn it.
StakeComesFree ==
  \A id \in 1..MaxRoutes :
    (Deactivated(id) /\ routes[id].deactivatedAt + WithdrawalDelay <= MaxTime)
      ~> /\ id \in DOMAIN routes
         /\ \/ routes[id].stakeAmount = 0
            \/ CanWithdrawStake(routes[id].provider, id)
=============================================================================
