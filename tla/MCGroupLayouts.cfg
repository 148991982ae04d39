SPECIFICATION Spec
CONSTANTS
  S = 3
  Hashes <- MCHashes
INVARIANTS LayoutsAgree UnlockedMatchIsStable ErasureSeesOverflow IteratorsTraverse
