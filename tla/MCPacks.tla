------------------------------ MODULE MCPacks -------------------------------
(***************************************************************************)
(* Two publishers and four packs: the bundled content as revision 1, two   *)
(* packs that both claim revision 2, and a revision 3 that reorders and    *)
(* drops a lesson.  The facts of Algorithms and Content go with it.        *)
(***************************************************************************)
EXTENDS Packs, Algorithms

CONSTANTS p1, p2, a, b, c

Pack(name, revision, lessons) == [name |-> name, revision |-> revision, lessons |-> lessons]

MCBundled == Pack("bundled", 1, <<a, b>>)
MCCatalog == { MCBundled, Pack("second", 2, <<a, b>>), Pack("other", 2, <<a, c, b>>),
               Pack("third", 3, <<b, a>>) }
=============================================================================
