----------------------------- MODULE BaseChain -----------------------------
(***************************************************************************)
(* The chain both Hydra contracts live on, as far as they can see it: the  *)
(* block clock, the USDC token (MockUSDC.sol) and the ownership of ERC-8004 *)
(* agents (MockIdentityRegistry.sol).  One action is one transaction.       *)
(*                                                                         *)
(* Mint is represented by the initial balances: the contracts hold nothing *)
(* when they are deployed and every user starts with Fund.                 *)
(***************************************************************************)
EXTENDS Integers, Sequences

CONSTANTS
  Users,      \* externally owned accounts
  Contracts,  \* the deployed contracts that can hold USDC
  Agents,     \* ERC-8004 agent ids
  MaxUint,    \* type(uint256).max
  MaxTime,    \* bound on the block clock
  Fund,       \* USDC every user starts with
  Amounts,    \* USDC amounts a transaction can name
  Approvals   \* allowances a user can set, MaxUint among them or not

ASSUME ChainAssumption ==
  /\ Users \cap Contracts = {}
  /\ MaxUint \in Nat
  /\ MaxTime \in Nat
  /\ Fund \in Nat
  /\ Amounts \subseteq 0..MaxUint
  /\ Approvals \subseteq 0..MaxUint

VARIABLES
  now,        \* block.timestamp
  balanceOf,  \* USDC balances
  allowance,  \* USDC allowances of users towards contracts
  ownerOf,    \* identity registry
  donated     \* ghost: USDC sent to a contract outside its own functions

chainVars == <<now, balanceOf, allowance, ownerOf, donated>>

Accounts == Users \cup Contracts

ChainTypeOK ==
  /\ now \in 0..MaxTime
  /\ balanceOf \in [Accounts -> Nat]
  /\ allowance \in [Users -> [Contracts -> 0..MaxUint]]
  /\ ownerOf \in [Agents -> Users]
  /\ donated \in [Contracts -> Nat]

ChainInit ==
  /\ now = 0
  /\ balanceOf = [a \in Accounts |-> IF a \in Users THEN Fund ELSE 0]
  /\ allowance = [u \in Users |-> [c \in Contracts |-> 0]]
  /\ ownerOf \in [Agents -> Users]
  /\ donated = [c \in Contracts |-> 0]

-----------------------------------------------------------------------------
(* The two movements of USDC the contracts use.  Both return false, and    *)
(* their callers revert, when the guard does not hold.                     *)

Moved(from, to, amount) ==
  [[balanceOf EXCEPT ![from] = @ - amount] EXCEPT ![to] = @ + amount]

CanTransfer(from, amount) ==
  balanceOf[from] >= amount

CanTransferFrom(from, spender, amount) ==
  /\ CanTransfer(from, amount)
  /\ allowance[from][spender] >= amount

\* An allowance of type(uint256).max is never used up.
Spent(from, spender, amount) ==
  IF allowance[from][spender] = MaxUint
    THEN allowance
    ELSE [allowance EXCEPT ![from][spender] = @ - amount]

-----------------------------------------------------------------------------
Approve(u, c, amount) ==
  /\ allowance' = [allowance EXCEPT ![u][c] = amount]
  /\ UNCHANGED <<now, balanceOf, ownerOf, donated>>

\* A plain token transfer; contracts accept it without noticing.
Transfer(u, to, amount) ==
  /\ CanTransfer(u, amount)
  /\ balanceOf' = Moved(u, to, amount)
  /\ donated' = IF to \in Contracts
                  THEN [donated EXCEPT ![to] = @ + amount]
                  ELSE donated
  /\ UNCHANGED <<now, allowance, ownerOf>>

\* An agent changes hands (ERC-721 transfer; setOwner in the mock).
TransferAgent(agent, to) ==
  /\ ownerOf' = [ownerOf EXCEPT ![agent] = to]
  /\ UNCHANGED <<now, balanceOf, allowance, donated>>

\* The next block has a later timestamp.
Tick ==
  /\ now < MaxTime
  /\ now' = now + 1
  /\ UNCHANGED <<balanceOf, allowance, ownerOf, donated>>

ChainStep ==
  \/ Tick
  \/ \E u \in Users, c \in Contracts, amount \in Approvals :
       Approve(u, c, amount)
  \/ \E u \in Users, to \in Accounts, amount \in Amounts : Transfer(u, to, amount)
  \/ \E agent \in Agents, to \in Users : TransferAgent(agent, to)
=============================================================================
