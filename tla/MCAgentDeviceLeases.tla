------------------------ MODULE MCAgentDeviceLeases ------------------------
(* Instances of AgentDeviceLeases for TLC.                                  *)
EXTENDS AgentDeviceLeases, TLC

CONSTANTS
  r1, r2, l1, l2, l3,
  owner, admin, stranger,                          \* accounts
  ownerUser, ownerToken, adminUser, strangerUser   \* their credentials

MCUserOf ==
  [s \in Subject |-> CASE s \in {ownerUser, ownerToken} -> owner
                      [] s = adminUser -> admin
                      [] OTHER -> stranger]
MCInteractive == Subject \ {ownerToken}

\* Request slots and lease ids are interchangeable.
Symmetry == Permutations(Req) \cup Permutations(Lease)
=============================================================================
