--------------------------- MODULE MCFailureGate ---------------------------
(* Small instances of FailureGate for TLC.                                 *)
EXTENDS FailureGate, TLC

CONSTANTS t1, t2, t3, host, plugin, o1, o2

TwoThreads         == {t1, t2}
ThreeThreads       == {t1, t2, t3}
TwoInstallers      == {t1, t2}
OneInstallerThread == {t1}
Modules            == {host, plugin}
Owners             == {o1, o2}

\* The owners are interchangeable addresses.
OwnerSymmetry == Permutations({o1, o2})

\* With t1 the only installer, so are the other two threads.
ReaderSymmetry == Permutations({o1, o2}) \cup Permutations({t2, t3})

=============================================================================
