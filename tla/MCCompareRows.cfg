CONSTANTS
  ResultSets <- MCResultSets
  FilePairs <- MCFilePairs
  FoldCycles <- MCFoldCycles
SPECIFICATION CompareSpec
INVARIANTS VerdictIsAgreement SameAsReadlines
