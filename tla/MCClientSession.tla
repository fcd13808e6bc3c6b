-------------------------- MODULE MCClientSession --------------------------
(***************************************************************************)
(* ClientSession for TLC: the scenarios of the runs.                       *)
(***************************************************************************)
EXTENDS ClientSession

Row(m, r, t, c, f) == [mode |-> m, rtu |-> r, tcp |-> t, caller |-> c, faults |-> f]

MCScenarios ==
  { \* A line that corrupts, drops and invents units; no deadlines.
    Row("async", NoTimeout, NoTimeout, "fresh", {"noise", "loss", "babble"}),
    \* Both deadlines; a master that gives up and a server that need not answer.
    Row("async", 1, 1, "fresh", {"silent", "loss", "impatient", "close"}),
    \* A caller that calls next again after a deadline, or after any error.
    Row("async", 1, 1, "resume", {"impatient", "tcpErr"}),
    Row("sync", NoTimeout, 1, "resume", {"silent", "noise", "wrongTid"}),
    \* A caller that connects the stream it has left once more.
    Row("async", NoTimeout, 1, "reuse", {"noise"}),
    \* The polling loops and every error a read, a write or a poll can return.
    Row("sync", 1, 1, "fresh", {"readErr", "pollErr", "writeErr", "tcpErr",
                                "rtuEof", "close", "wrongTid"}),
    \* Nothing goes wrong.
    Row("sync", NoTimeout, NoTimeout, "fresh", {}) }

\* A server that answers twice.
RepeatScenarios == {Row("async", NoTimeout, NoTimeout, "fresh", {"repeat"})}
=============================================================================
