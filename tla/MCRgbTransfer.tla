---------------------------- MODULE MCRgbTransfer ----------------------------
(* Small instances of RgbTransfer for TLC: the sender and its recipients    *)
(* share the expiration of the invoice, as send asks its caller to do.      *)
EXTENDS RgbTransfer, TLC

CONSTANTS s, r1, r2

MCDeadlineOfTwo == {{s, r1}}
MCDeadlineOfThree == {{s, r1, r2}}

\* r1 and r2 both use the proxy
MCProxySymmetry == Permutations({r1, r2})
=============================================================================
