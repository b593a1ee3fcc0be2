---------------------------- MODULE MCPolicyStore ----------------------------
(* Two handlers at once, the default policy and one more, one user, one      *)
(* device.  The legacy metadata of the device names policy kids.             *)
EXTENDS PolicyStore, TLC

CONSTANTS kids, ann, tv, h1, h2

MCBodies == {[users |-> {ann}, content |-> {}]}
MCSymmetry == Permutations({h1, h2})
MCLegacies ==
    {None,
     [groups |-> [id \in {Default, kids} |-> [users |-> {}, content |-> {}]],
      assign |-> [d \in {tv} |-> kids]]}
\* Backups: policy kids missing with the device still assigned to it and ann on
\* the default policy; a document that cannot be read.
MCArchives ==
    {[doc |-> [groups |-> [id \in {Default, kids} |->
                             IF id = Default THEN [users |-> {ann}, content |-> {}] ELSE None],
               assign |-> [d \in {tv} |-> kids]], cats |-> {"ads"}],
     [doc |-> Broken, cats |-> {}]}
MCNoCats == {}
MCCategories == {{}, {"ads"}}
==============================================================================
