----------------------------- MODULE MCServices -----------------------------
(* Services for TLC.                                                       *)
EXTENDS Services, TLC

CONSTANTS l1, l2, h1, h2, h3

TwoLaunches   == {l1, l2}
ThreeHandlers == {h1, h2, h3}

Config(daemon, pid, service) == [daemon |-> daemon, pidfile |-> pid, service |-> service]

\* A daemon, with or without a pidfile, or a dry run of one, and a foreground process.
DaemonAndForeground ==
  {(l1 :> d @@ l2 :> Config(FALSE, TRUE, TRUE)) :
     d \in {Config(TRUE, TRUE, TRUE), Config(TRUE, TRUE, FALSE), Config(TRUE, FALSE, TRUE)}}
=============================================================================
