----------------------------- MODULE MCFraming -----------------------------
(***************************************************************************)
(* Small instances of Framing.  Bodies are short byte strings; the two    *)
(* Valid ones stand for request objects of different lengths, so frames   *)
(* of length 1 and 2 follow each other in the stream.                     *)
(***************************************************************************)
EXTENDS Framing

MCReqA == <<1>>
MCReqB == <<2, 3>>
MCValid == {MCReqA, MCReqB}
\* The frames the client sends: well-formed requests only.
MCWellFormed == {MCReqA, MCReqB}
\* A foreign peer may also send a zero-length frame.
MCWithEmpty == {MCReqA, <<>>}
=============================================================================
