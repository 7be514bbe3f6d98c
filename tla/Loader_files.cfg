SPECIFICATION Spec
CONSTANTS
  Delims = {"default", "other"}
  DefaultDelims = "default"
  NoDelims = "none"
  NoHost = "none"
  ReplaceHost = "given"
  Tree <- MCTree
  Manifest <- MCManifest
  Headers <- MCHeaders
  StartDirs <- MCStartDirs
INVARIANT DelimsInherited
INVARIANT LeakConfined
INVARIANT DirIsWhereItLies
INVARIANT HostReplaced
