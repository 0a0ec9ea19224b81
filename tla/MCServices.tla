------------------------------ MODULE MCServices ------------------------------
(***************************************************************************)
(* The instance that TLC checks of what surrounds the profiles: the sync   *)
(* server's store, the import and restore of profiles, the pool of         *)
(* accounts, the quotas of the interface, and the identity that a launch   *)
(* announces.  They share no state in the model (a client may hold any     *)
(* archive that was made), so that a behaviour exercises one of them:      *)
(* `part` is chosen at the start.                                          *)
(***************************************************************************)
EXTENDS SyncStore, ProfileTransfer, AccountPool, RequestQuota, BrowserIdentity

Priority(a) == [id |-> a, priority |-> TRUE]
Standard(a) == [id |-> a, priority |-> FALSE]
MCStores == {<<Priority("a"), Priority("b")>>, <<Priority("b")>>}
MCOthers == <<Standard("a")>>
MCRace == [k \in Kinds |-> IF k \in {"test", "mistral"} THEN 1 ELSE 2]
MCKeys == <<"k1", "k2">>
MCQuota == [l \in Limiters |-> IF l = "default" THEN 3 ELSE 1]

VARIABLE part
otherVars == <<transferVars, poolVars, quotaVars, identityVars>>
allVars == <<vars, otherVars, part>>

IsIdle(name) ==
    /\ name # "server" => ~database
    /\ name # "transfer" => \A p \in Profiles : dirs[p] \in {NoDir, 1}
    /\ name # "accounts" =>
          /\ store = CHOOSE s \in Stores : TRUE
          /\ viewed = {} /\ clock = 1 /\ kills = 0 /\ \A c \in Calls : calls[c] = Returned
    /\ name # "identity" => engine = 1481 /\ stored = Identity(1481, FALSE)

\* The accounts: two calls and a view together, or one call with a kill and
\* the whole of the clock.
SmallPool ==
    \/ viewed = Views /\ clock = 1 /\ kills = 0
    \/ viewed = {} /\ clock = MaxClock /\ kills = MaxKills /\ \E c \in Calls : calls[c] = Returned

MCInit ==
    /\ part \in {"server", "transfer", "accounts", "quota", "identity"}
    /\ Init /\ TransferInit /\ PoolInit /\ QuotaInit /\ IdentityInit
    /\ IsIdle(part)
    /\ part = "accounts" => SmallPool

MCNext ==
    /\ UNCHANGED part
    /\ \/ part = "server" /\ Next /\ UNCHANGED otherVars
       \/ part = "transfer" /\ TransferNext
             /\ UNCHANGED <<vars, poolVars, quotaVars, identityVars>>
       \/ part = "accounts" /\ PoolNext
             /\ UNCHANGED <<vars, transferVars, quotaVars, identityVars>>
       \/ part = "quota" /\ QuotaNext
             /\ UNCHANGED <<vars, transferVars, poolVars, identityVars>>
       \/ part = "identity" /\ IdentityNext
             /\ UNCHANGED <<vars, transferVars, poolVars, quotaVars>>

MCSpec == MCInit /\ [][MCNext]_allVars
================================================================================
