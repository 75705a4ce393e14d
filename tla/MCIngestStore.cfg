SPECIFICATION TransferSpec
CONSTANTS
  d1 = d1
  d2 = d2
  Devices = {d1, d2}
  Self = "self"
  Archives <- MCArchives
  NoRow = NoRow
  NoReceipt = NoReceipt
  Lines <- MCLines
  Batches <- MCBatches
  Cutoffs <- MCCutoffs
SYMMETRY Symmetry
INVARIANTS
  CountedOnce
  UsageConserved
  AnsweredIsCounted
  TransferredOnce
