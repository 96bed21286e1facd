--------------------------- MODULE MCWebhookIngest --------------------------
(* A small instance of the webhook pattern for TLC.                        *)
EXTENDS WebhookIngest

CONSTANTS ingest, good, poison, w1, w2

\* The good event may be posted twice; its first post may be unproven.
SomePosts == (Events \X {1}) \cup {<<good, 2>>}
DoubtfulPosts == {<<good, 1>>}
=============================================================================
