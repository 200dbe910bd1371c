CONSTANTS
  Sessions = {s1}
  NoSession = NoSession
  Users <- MCUsers
  Passwords <- MCOnePassword
  PathArgs <- MCAuthArgs
  RootDir <- MCRootDir
  Cwd <- MCCwd
  InitDirs <- MCInitDirs
  InitFiles <- MCInitFiles
  Dispatched <- MCDialogueDispatched
  Requests <- MCDialogueCommands
SPECIFICATION FairSpec
PROPERTY RegistrationCompletes
