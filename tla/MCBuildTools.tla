----------------------------- MODULE MCBuildTools -----------------------------
EXTENDS BuildTools

MCPrograms == {"bootloader", "kernel"}
MCSizes == {<<1, 2>>, <<2, 1>>}
=============================================================================
