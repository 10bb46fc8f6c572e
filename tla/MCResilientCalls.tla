-------------------------- MODULE MCResilientCalls --------------------------
(* Small instances of ResilientCalls for TLC. *)
EXTENDS ResilientCalls

\* Two classes of each kind the code tells apart: counted or not, retried or not,
\* with a known or an open outcome, and the cancellation that escapes the handler.
MCOutcomes ==
  {"Connection", "QueryTimeout", "Serialization", "Integrity", "CommitUnknown",
   "Database", Cancelled}

MCDeadlines == {NoDeadline, 1}
MCNoDeadlines == {NoDeadline}
=============================================================================
