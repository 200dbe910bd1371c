CONSTANTS
  Sessions = {s1}
  NoSession = NoSession
  Users <- MCUsers
  Passwords <- MCPasswords
  PathArgs <- MCAuthArgs
  RootDir <- MCRootDir
  Cwd <- MCCwd
  InitDirs <- MCInitDirs
  InitFiles <- MCInitFiles
  Dispatched <- MCListCommands
  Requests <- MCListCommands
SPECIFICATION Spec
PROPERTY RequestsNeverCrash
