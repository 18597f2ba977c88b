---------------------------- MODULE RestoredFile ----------------------------
(* What a download promises: the client's file grows by the chunks of the  *)
(* stored file, in order and each once, until it is complete, and both     *)
(* sides then let go of the connection.                                    *)
EXTENDS Naturals, Sequences

CONSTANT Chunks

VARIABLES stored, \* the chunks the file recipe names, in file order
          out,    \* the chunks the client has written
          closed  \* the file is closed and the server's session is over

absVars == <<stored, out, closed>>

Init ==
  /\ stored \in Seq(Chunks)
  /\ out = <<>>
  /\ closed = FALSE

\* The next chunk of the file is written.
WriteNext ==
  /\ ~closed
  /\ Len(out) < Len(stored)
  /\ out' = Append(out, stored[Len(out) + 1])
  /\ UNCHANGED <<stored, closed>>

\* The file is whole: it is closed.
Close ==
  /\ ~closed
  /\ out = stored
  /\ closed' = TRUE
  /\ UNCHANGED <<stored, out>>

Next == WriteNext \/ Close

\* Nothing else ever happens ...
Safety == Init /\ [][Next]_absVars

\* ... and it does happen.
Spec == Safety /\ WF_absVars(Next)
=============================================================================
