--------------------------- MODULE MCPostboxClient ---------------------------
(* Small instances of the extension's client: two servers, one or two asks. *)
EXTENDS PostboxClient, TLC

CONSTANTS production, dev, ask1, ask2, none

AnyServer == Permutations(Targets)
=============================================================================
