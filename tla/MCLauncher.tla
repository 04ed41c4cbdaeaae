-------------------------------- MODULE MCLauncher -------------------------------
(***************************************************************************)
(* Launcher for TLC: stdout may overflow an odd limit more than once,       *)
(* stderr may overflow within its first read.                               *)
(***************************************************************************)
EXTENDS Launcher

CONSTANTS c, m, d

MCLimit == [stdout |-> 3, stderr |-> 1]

MCMaxWritten == [stdout |-> 5, stderr |-> 2]
=================================================================================
