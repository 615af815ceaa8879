----------------------------- MODULE MCListener -----------------------------
(* An instance of Listener for TLC.                                        *)
EXTENDS Listener, TLC

CONSTANTS d1, a1, r1, r2

\* One Disconnect-Request and one CoA-Request, read by one reader or by two;
\* their handlers run concurrently either way.
MCDisconnects == {d1}
MCCoAs        == {a1}
OneReader     == {r1}
TwoReaders    == {r1, r2}
\* The readers are interchangeable.
Symmetry      == Permutations(TwoReaders)
\* Three subscribers from two credentials, in two addresses: the third has the
\* second's name, alice+2, and the first's address.
MCCreds       == <<Name("alice", <<>>), Name("alice", <<2>>)>>
=============================================================================
