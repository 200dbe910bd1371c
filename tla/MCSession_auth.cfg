CONSTANTS
  Sessions = {s1, s2}
  NoSession = NoSession
  Users <- MCUsers
  Passwords <- MCPasswords
  PathArgs <- MCAuthArgs
  RootDir <- MCRootDir
  Cwd <- MCCwd
  InitDirs <- MCInitDirs
  InitFiles <- MCInitFiles
  Dispatched <- MCAuthDispatched
  Requests <- MCAuthCommands
SYMMETRY MCSymmetry
SPECIFICATION Spec
INVARIANT UniqueUsernames
INVARIANT CredentialsStored
PROPERTY NoEffectOnRejection
PROPERTY ImplementsHandshake
