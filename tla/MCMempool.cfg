CONSTANTS
  Tx <- MCTx
  NoTx = "none"
  Slot <- MCSlot
  Coin = {"genesis", "minted"}
  Empty = "empty"
  AnchorId = {"e0", "e1"}
  NoAnchor = "zero"
  Owner <- MCOwner
  Key = {"claimer", "recoverer"}
  Inputs <- MCInputs
  Outputs <- MCOutputs
  Spends <- MCSpends
  Pays <- MCPays
  Fee <- MCFee
  Size <- MCSize
  Pages <- MCPages
  EpochAnchor <- MCEpochAnchor
  Signed <- MCSigned
  Calls <- MCCalls
  CallHeights <- MCCallHeights
  Deadline <- MCDeadline
  ClaimAuthority <- MCClaimAuthority
  RecoveryAuthority <- MCRecoveryAuthority
  Signer <- MCSigner
  View <- MCView
  InitView <- G
  ChainStep <- MCChainStep
  Submitter = {s1, s2}
  Capacity = 3
  MaxBytes = 4
  FloorWindow = 2
  Workers = 1
  V2Budgets <- MCBudgets
  PayoutHeights = {3}
  MaxSpendInputs = 4
  V1_1Height = 2
  V2Height = 2
SPECIFICATION FairSpec
INVARIANTS
  ReservationsMatch
  EntriesIncludable
  EntriesAuthorized
  PoolSound
  ViewCurrent
PROPERTIES
  EvictionJustified
  SubmissionsResolve
