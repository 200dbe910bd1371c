CONSTANTS
  Sessions = {s1}
  S = s1
  NoSession = NoSession
  Users <- MCUsers
  Passwords <- MCPasswords
  PathArgs <- MCPathArgs
  RootDir <- MCRootDir
  Cwd <- MCCwd
  InitDirs <- MCInitDirs
  InitFiles <- MCInitFiles
  Dispatched <- CodeTable
  Requests <- MCRequests
  ClientUser = "alice"
  Lines <- MCSyncLines
  MaxTyped = 3
SPECIFICATION FairDSpec
PROPERTY ProcessingAnswered
