\* One request, a KMS and a local wallet, one completion worker.
CONSTANTS
  kmsWallet = kmsWallet
  localWallet = localWallet
  Signings = {kmsWallet, localWallet}
  Requests = {request}
  Wallets <- BothWallets
  Kind <- EachItsKind
  Identity <- EachItsKey
  Inputs = {d1}
  MaxAttempts = 2
  Capacity = 1
SPECIFICATION Spec
CHECK_DEADLOCK FALSE
INVARIANTS
  SigningInv
  SuccessIsEvidenced
  NothingForgotten
PROPERTY
  SigningsEnd
