-------------------------- MODULE MCXrayLifecycle --------------------------
(* Small instances of XrayLifecycle for TLC. *)
EXTENDS XrayLifecycle, TLC

MCSettings == {"good", "malformed"}
MCMalformed == {"malformed"}
MCInbounds == {"i1", "i2"}
MCN5Rows == {"r1", "r2"}
MCDangling == {"r2"}

\* With the switch on, inbounds i2 and rows r1 pass the test apart and make
\* Xray exit together; without the extension i2 is refused by the test.
MCBroken == {c \in Config : c.inbounds = "i2" /\ c.n5 = "r1"}
MCRejected == {c \in Config : c.inbounds = "i2" /\ c.n5 = NoRows}

\* For liveness: one content of the inbounds, rows r2 make Xray exit.
MCLiveBroken == {c \in Config : c.n5 = "r2"}

MCSymmetry == Permutations(Ticks) \cup Permutations(Procs)
=============================================================================
