--------------------------- MODULE MCOnlineVoting ---------------------------
\* OnlineVoting on a small instance: requests, choices, OTPs and tokens are
\* interchangeable, so the safety runs identify states up to permuting them.
EXTENDS OnlineVoting, TLC

Symmetry ==
    Permutations(Request) \cup Permutations(Choice) \cup Permutations(Otp) \cup Permutations(Token)
=============================================================================
