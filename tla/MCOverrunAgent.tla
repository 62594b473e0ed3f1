--------------------------- MODULE MCOverrunAgent ---------------------------
(***************************************************************************)
(* Instances of OverrunAgent for TLC.                                      *)
(***************************************************************************)
EXTENDS OverrunAgent

CONSTANTS
  s1, s2,    \* servers; s2 is the system's
  c1, c2,    \* cgroups of containers
  g          \* another cgroup

OneServer      == {s1}
TwoServers     == {s1, s2}
SystemServer   == {s2}
None           == {}
OneContainer   == {c1}
TwoContainers  == {c1, c2}
OneAndAnother  == {c1, g}
TwoAndAnother  == {c1, c2, g}
=============================================================================
