------------------------------- MODULE MCMkIfs -------------------------------
(* Three kinds of trees, one at a time.  Short names: a directory boot, a file *)
(* in it that is called kernel, and another entry called kernel beside the    *)
(* directory, which may be of 4 GiB and more.  Long names: a directory with a *)
(* name of 31 characters, an entry in it, and one beside it whose longer name *)
(* begins with the same 31.  Two boots: the directory boot with its kernel,   *)
(* and a directory that holds another entry called boot.                      *)
EXTENDS MkIfsBoot, TLC

CONSTANTS boot, decoy, kernel, dir31, longer, inside, home, boot2

Short == {boot, decoy, kernel}
Long == {dir31, longer, inside}
Twice == {boot, kernel, home, boot2}

MCEntry == Short \cup Long \cup Twice

MCParent == [e \in Entry |-> CASE e = kernel -> boot [] e = inside -> dir31
                                 [] e = boot2 -> home [] OTHER -> Root]
MCResolves == [e \in Entry |-> IF e \in {dir31, longer} THEN {dir31, NoEntry} ELSE {e}]

MCName == [e \in Entry |->
  CASE e \in {boot, boot2} -> "boot" [] e \in {kernel, decoy} -> "kernel"
    [] e = dir31 -> "long name" [] e = longer -> "longer name" [] e = inside -> "inside"
    [] OTHER -> "home"]

Exists == {e \in Entry : host[e] # NoStat}
Met == Exists \cup touched \cup (missed \ {NoEntry})

WithKernel == host[boot] = DirStat /\ host[kernel].size = 5000

(* one size for each file: but the kernel may be empty too, and the decoy is
   wider than 32 bits *)
OneKind ==
  /\ \/ Met \subseteq Short
     \/ Met \subseteq Long
     \/ Met \subseteq Twice /\ host[home] = DirStat /\ WithKernel
  /\ \A e \in Exists : host[e].kind = "reg" =>
       /\ host[e].size = 0 => e = kernel
       /\ host[e].size >= Word <=> e = decoy

(* the leftover file_size that makes the sums wrap, in small trees only *)
Leftover == IF nodes = <<>> THEN 0 ELSE nodes[1].size
SmallIfWrapping == Leftover > Word - 2 * PageSize => Cardinality(Exists) < 2

MCInit == Init /\ OneKind
MCNext == Next /\ OneKind' /\ SmallIfWrapping'
MCSpec == /\ MCInit /\ [][MCNext]_vars
          /\ WF_vars(WriteBootloader \/ StartIFS \/ Walk \/ Write)
=============================================================================
