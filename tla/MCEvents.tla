------------------------------- MODULE MCEvents -------------------------------
(* Instances of Events for TLC.                                            *)
EXTENDS EventsProperties, TLC

(* One body per action; the first also mentions a later action's name, as  *)
(* a body with several names would.                                        *)
SubscriptionBodies ==
    {{"CreatePullPointSubscription", "Renew"}, {"PullMessages"}, {"Renew"}, {"Unsubscribe"}}

AllBodies == SubscriptionBodies \cup {{"GetEventProperties"}, {}}

ProducerSymmetry == Permutations(Producers)
=============================================================================
