CONSTANTS
  Clients = {t1, t2, t3}
  Objects = {t3}
  Libs = {libA, libB}
  NoLib = NoLib
  Nobody = Nobody
  SizeMod = 4
SPECIFICATION Spec
INVARIANTS
  PairedHoldersKeepLibrary
  PairedFunctionsLive
  LoadedIffCounted
PROPERTIES
  ImplementsSharedLibrary
