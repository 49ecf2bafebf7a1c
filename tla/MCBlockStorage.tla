--------------------------- MODULE MCBlockStorage ---------------------------
EXTENDS BlockStorage
CONSTANTS g0, a1, b1, b2

\* Two branches above the genesis block: a1, and b1 with b2.
MCBlock == {g0, a1, b1, b2}
MCParent == [x \in MCBlock |->
               CASE x = g0 -> NoBlock [] x = b2 -> b1 [] OTHER -> g0]
=============================================================================
