------------------------------ MODULE MCSession ------------------------------
(* Small instances of Session. *)
EXTENDS Session

\* A server with one of the two features that guard a route, and without the other.
SmallFeatures == {Features \ {"Rotation"}}

\* An admin who has yet to set up his second factor, and a moderator with one.
SmallAccounts ==
  { [role |-> "admin", alliance |-> TRUE, mfa |-> FALSE, key |-> FALSE],
    [role |-> "moderator", alliance |-> FALSE, mfa |-> TRUE, key |-> TRUE] }
=============================================================================
