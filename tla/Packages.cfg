SPECIFICATION Spec
CONSTANTS
  Line <- MCLine
  Location = {"packages", "drive"}
  Default = "packages"
  Flag = {"none", "release"}
  NoFlags = "none"
  BinDir <- MCBinDir
  SwiftModule <- MCSwiftModule
  ClangModule <- MCClangModule
  MaxKernels = 2
  MaxInstalls = 3
INVARIANT DiskInv
INVARIANT SuccessMeansUsable
INVARIANT NoWarningMeansSeen
CHECK_DEADLOCK FALSE
