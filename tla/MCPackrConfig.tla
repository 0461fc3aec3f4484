--------------------------- MODULE MCPackrConfig ----------------------------
(***************************************************************************)
(* Small instances of PackrConfig: two bootstraps with launcher arguments  *)
(* and one without.                                                        *)
(***************************************************************************)
EXTENDS PackrConfig

CONSTANTS r1, r2, bare

MCReleases == {r1, r2, bare}
MCArgsOf == [r \in MCReleases |-> r # bare]
=============================================================================
