---- MODULE MCRuntime ----
(* One VM, two pids.  Either three processes may start, one of them in a   *)
(* place an earlier one left, or two with a snapshot taken between them    *)
(* and a daemon's crash anywhere, or one that is suspended twice, with a   *)
(* crash.                                                                  *)
(* Nothing tells one pid from another but who has it.                      *)
EXTENDS Runtime, TLC

CONSTANTS v1, p1, p2
MCVms == {v1}
MCPids == {p1, p2}
MCSymmetry == Permutations(MCPids)
MCBudgets == {[births |-> 3, shots |-> 0, crashes |-> 0],
              [births |-> 2, shots |-> 1, crashes |-> 1],
              [births |-> 1, shots |-> 2, crashes |-> 1]}
====
