---------------------------- MODULE MCRateLimit ----------------------------
(***************************************************************************)
(* RateLimit on small instances.  A tick is 100 ms.                        *)
(***************************************************************************)
EXTENDS RateLimit, FiniteSetsExt

\* The shared limiter admits every sender at its own rate.
ASSUME EnoughForAll ==
    Cardinality(Senders) * SharedQuota.period <= OwnQuota.period

\* config.rs:88: "Per-peer outbound DM rate; one DM per `dm_period`, with `dm_burst`
\* initial budget".  When all the senders are of one peer, each of them has the
\* whole of it.
PeerQuota ==
    MapThenSumSet(LAMBDA s : taken[s] - restarts[s], Senders) <= age + OwnQuota.most
=============================================================================
