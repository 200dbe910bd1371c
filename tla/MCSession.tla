----------------------------- MODULE MCSession -----------------------------
(***************************************************************************)
(* Small instances of Session for TLC.  The server runs with --root /r    *)
(* started in /r, on a host holding only / and /r.                         *)
(***************************************************************************)
EXTENDS Session, TLC

MCRootDir == <<"r">>
MCCwd     == <<"r">>
MCInitDirs  == {<<>>, <<"r">>}
MCInitFiles == {}

P(abs, segs) == [abs |-> abs, segs |-> segs]

\* "", "/public", "/public/files", "public/files/d"
MCPathArgs ==
  {EmptyPath, P(TRUE, <<"public">>), P(TRUE, <<"public", "files">>),
   P(FALSE, <<"public", "files", "d">>)}

\* "" and ".."
MCEscapeArgs == {EmptyPath, P(FALSE, <<"..">>)}

MCUsers     == {"alice"}
MCPasswords == {"pw1", "pw2"}
MCOnePassword == {"pw1"}
MCAllCommands == HandlerTable \cup {"HELP"}
MCAuthCommands == {"LOGIN", "AUTH", "NEED_INPUT", "MKDIR", "HELP"}
MCAuthDispatched == HandlerTable \cap MCAuthCommands
\* Sessions are interchangeable slots.
MCSymmetry == Permutations(Sessions)

MCAuthArgs == {EmptyPath, P(TRUE, <<"public", "files">>)}
MCListCommands == {"LOGIN", "LIST"}
MCLoginCommands == {"LOGIN"}
MCDialogueCommands == {"LOGIN", "NEED_INPUT", "AUTH"}
MCDialogueDispatched == CodeTable \cap MCDialogueCommands
=============================================================================
