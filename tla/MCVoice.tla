------------------------------- MODULE MCVoice -------------------------------
(* Voice for TLC: the owner and a member, with two voice channels, where   *)
(* the member comes and goes, and with one and its watch parties, where    *)
(* both do.                                                                *)
EXTENDS Voice, TLC

TwoChannels == [channels |-> Channels, parties |-> FALSE, restless |-> {2}]
OneParty(c) == [channels |-> {c}, parties |-> TRUE, restless |-> Users]
AllScopes == {TwoChannels} \cup {OneParty(c) : c \in Channels}
MoveScopes == {TwoChannels}

Symmetry == Permutations(Channels)
==============================================================================
