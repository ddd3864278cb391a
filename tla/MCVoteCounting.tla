--------------------------- MODULE MCVoteCounting ---------------------------
\* VoteCounting on a small instance: two reports, one of them of a referendum,
\* two admin batches whose entries have the same key and travel on different
\* topics, and an online vote.
EXTENDS VoteCounting

CONSTANTS p1, p2, b1, b2, v1

MCBallotOf ==
    [id \in Report \cup (Batch \X (1..BatchSize)) \cup OnlineVote |->
        CASE id = p2 -> "REFERENDUM"
          [] id = <<b2, 1>> -> "PARTY_LIST"
          [] OTHER -> "CONSTITUENCY"]
=============================================================================
