CONSTANTS
  Sessions = {s1}
  NoSession = NoSession
  Users <- MCUsers
  Passwords <- MCPasswords
  PathArgs <- MCPathArgs
  RootDir <- MCRootDir
  Cwd <- MCCwd
  InitDirs <- MCInitDirs
  InitFiles <- MCInitFiles
  Dispatched <- CodeTable
  Requests <- MCAllCommands
SPECIFICATION Spec
INVARIANT TypeOK
PROPERTY NoEffectOnRejection
