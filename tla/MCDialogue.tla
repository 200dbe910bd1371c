---------------------------- MODULE MCDialogue ----------------------------
(***************************************************************************)
(* Small instances of Dialogue for TLC: the server of MCSession with one  *)
(* session slot, and a user who types a few lines.                        *)
(***************************************************************************)
EXTENDS Dialogue, TLC

MCRootDir   == <<"r">>
MCCwd       == <<"r">>
MCInitDirs  == {<<>>, <<"r">>}
MCInitFiles == {}

\* "/public/files": absolute, not a directory of the host.
MCPublicFiles == [abs |-> TRUE, segs |-> <<"public", "files">>]
MCPathArgs == {EmptyPath, MCPublicFiles}

MCUsers == {"alice"}

Line(text, word, args) == [text |-> text, word |-> word, args |-> args]
LPassword == Line("pw1", "pw1", <<>>)
LList     == Line("LIST /public/files", "LIST", <<MCPublicFiles>>)
LExit     == Line("EXIT", "EXIT", <<>>)
LSync     == Line("SYNC /public/files /public/files", "SYNC",
                  <<MCPublicFiles, MCPublicFiles>>)

MCLines     == {LPassword, LList, LExit}
MCSyncLines == {LList, LSync}
\* Whatever is typed at the password prompt is sent as the password.
MCPasswords == {l.text : l \in MCLines \cup MCSyncLines}

MCRequests == HandlerTable
=============================================================================
