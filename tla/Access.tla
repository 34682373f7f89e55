------------------------------- MODULE Access -------------------------------
(***************************************************************************)
(* API keys and the rate limit: api/auth.py, api/deps.py, api/rate_limit.py*)
(* cli/keys.py, and the worker's cleanup of old windows.  Authentication   *)
(* is on (without it no request is limited or checked).                    *)
(*                                                                         *)
(* A request passes the middleware first, which counts it, and then the    *)
(* dependency that resolves its key.  The middleware looks for the key     *)
(* hash the dependency leaves on the request, so it never finds one: only  *)
(* public routes are counted, by client address, with or without a key.    *)
(* Time is in minutes, the width of a window.                              *)
(***************************************************************************)
EXTENDS Integers

CONSTANTS
    Clients,        \* client addresses
    Keys,           \* rows of api_keys that can be created
    Calls,          \* concurrent requests
    Limit,          \* rate_limit_public_per_minute
    Retention,      \* minutes a window is kept for
    Lifetime,       \* minutes from the creation of a key with a ttl to its expiry
    MaxMinute,      \* bound: how far the clock goes
    MaxCalls,       \* bound: requests counted per client and window
    NoKey

ASSUME AccessAssumption ==
    /\ Limit \in Nat /\ Retention \in Nat \ {0} /\ Lifetime \in Nat \ {0}
    /\ MaxMinute \in Nat /\ MaxCalls \in Nat
    /\ NoKey \notin Keys

VARIABLES
    minute,     \* the clock
    keyRow,     \* api_keys: absent, or live, or revoked; and when it expires (0: never)
    windows,    \* rate_limit_log.request_count; 0: no such row
    call,       \* each open request
    admitted,   \* history: requests let through, per client and window
    servedDead  \* history: a key that was dead when its request came was served

accessVars == <<minute, keyRow, windows, call, admitted, servedDead>>

Minutes == 0..MaxMinute
KeyRow == [state : {"absent", "live", "revoked"}, expires : 0..MaxMinute + Lifetime]

Waiting == [at |-> "none", client |-> "none", key |-> NoKey, public |-> FALSE,
            window |-> 0, dead |-> FALSE]

-----------------------------------------------------------------------------
(* Keys: api/auth.py and cli/keys.py                                       *)

IsKeyExpired(k) == keyRow[k].expires # 0 /\ minute >= keyRow[k].expires

\* Mutant: the expiry is not looked at.
ResolveAnyLive(k) == keyRow[k].state = "live"

ResolveApiKey(k) == keyRow[k].state = "live" /\ ~IsKeyExpired(k)

NewRow(k, ttl) ==
    /\ keyRow[k].state = "absent"
    /\ ttl \in BOOLEAN

CreatedAs(ttl) == [state |-> "live", expires |-> IF ttl THEN minute + Lifetime ELSE 0]

CreateKey(k, ttl) ==
    /\ NewRow(k, ttl)
    /\ keyRow' = [keyRow EXCEPT ![k] = CreatedAs(ttl)]
    /\ UNCHANGED <<minute, windows, call, admitted, servedDead>>

\* A key that is already revoked is reported and left alone.
RevokeKey(k) ==
    /\ keyRow[k].state = "live"
    /\ keyRow' = [keyRow EXCEPT ![k].state = "revoked"]
    /\ UNCHANGED <<minute, windows, call, admitted, servedDead>>

\* One commit revokes the old key, in whatever state it is, and adds the new one:
\* rotating a revoked key again gives a second live successor.
RotateKey(old, new, ttl) ==
    /\ keyRow[old].state # "absent"
    /\ NewRow(new, ttl)
    /\ keyRow' = [keyRow EXCEPT ![old].state = "revoked", ![new] = CreatedAs(ttl)]
    /\ UNCHANGED <<minute, windows, call, admitted, servedDead>>

-----------------------------------------------------------------------------
(* Requests: api/rate_limit.py and api/deps.py                             *)

\* dispatch reads the clock once; what is not public is not counted.  A key that
\* was never issued is refused like a revoked one.
Arrive(c, client, k, public) ==
    /\ call[c] = Waiting
    /\ k # NoKey => keyRow[k].state # "absent"
    /\ call' = [call EXCEPT ![c] =
         [at |-> IF public THEN "limit" ELSE "auth", client |-> client, key |-> k,
          public |-> public, window |-> IF public THEN minute ELSE 0,
          dead |-> k # NoKey /\ (keyRow[k].state = "revoked" \/ IsKeyExpired(k))]]
    /\ UNCHANGED <<minute, keyRow, windows, admitted, servedDead>>

\* Mutant: the limit is compared before the request itself is counted.
WithinLimitBefore(count) == count - 1 <= Limit

WithinLimit(count) == count <= Limit

\* One upsert increments and returns the count, so concurrent requests of a window
\* get different counts; a refused request has been counted too.
CountRequest(c) ==
    LET q == call[c]
        p == <<q.client, q.window>>
        count == windows[p] + 1
    IN  /\ q.at = "limit"
        /\ count <= MaxCalls
        /\ windows' = [windows EXCEPT ![p] = count]
        /\ IF WithinLimit(count)
           THEN /\ admitted' = [admitted EXCEPT ![p] = @ + 1]
                /\ call' = [call EXCEPT ![c].at = "auth", ![c].window = 0]
           ELSE /\ call' = [call EXCEPT ![c] = Waiting]
                /\ UNCHANGED admitted
        /\ UNCHANGED <<minute, keyRow, servedDead>>

\* get_current_workspace, or get_public_or_authenticated_workspace on a public
\* route: no key is the public workspace there; a key that does not resolve is
\* refused on both, never taken for an anonymous request.
Authenticate(c) ==
    LET q == call[c]
    IN  /\ q.at = "auth"
        /\ IF q.key = NoKey THEN q.public ELSE ResolveApiKey(q.key)
        /\ servedDead' = (servedDead \/ q.dead)
        /\ call' = [call EXCEPT ![c] = Waiting]
        /\ UNCHANGED <<minute, keyRow, windows, admitted>>

Refuse(c) ==
    LET q == call[c]
    IN  /\ q.at = "auth"
        /\ ~(IF q.key = NoKey THEN q.public ELSE ResolveApiKey(q.key))
        /\ call' = [call EXCEPT ![c] = Waiting]
        /\ UNCHANGED <<minute, keyRow, windows, admitted, servedDead>>

\* cleanup_rate_limits deletes windows that started before the cutoff.
Cutoff == minute - Retention

Cleanup ==
    /\ \E client \in Clients, w \in Minutes : w < Cutoff /\ windows[<<client, w>>] > 0
    /\ windows' = [p \in Clients \X Minutes |-> IF p[2] < Cutoff THEN 0 ELSE windows[p]]
    /\ UNCHANGED <<minute, keyRow, call, admitted, servedDead>>

\* A request is counted within the retention of its window: no statement waits an
\* hour for its connection.
Tick ==
    /\ minute < MaxMinute
    /\ \A c \in Calls : call[c].at = "limit" => call[c].window >= minute + 1 - Retention
    /\ minute' = minute + 1
    /\ UNCHANGED <<keyRow, windows, call, admitted, servedDead>>

AccessInit ==
    /\ minute = 0
    /\ keyRow = [k \in Keys |-> [state |-> "absent", expires |-> 0]]
    /\ windows = [p \in Clients \X Minutes |-> 0]
    /\ admitted = [p \in Clients \X Minutes |-> 0]
    /\ call = [c \in Calls |-> Waiting]
    /\ servedDead = FALSE

AccessNext ==
    \/ \E k \in Keys, ttl \in BOOLEAN : CreateKey(k, ttl) \/ \E old \in Keys : RotateKey(old, k, ttl)
    \/ \E k \in Keys : RevokeKey(k)
    \/ \E c \in Calls, client \in Clients, k \in Keys \cup {NoKey}, public \in BOOLEAN :
          Arrive(c, client, k, public)
    \/ \E c \in Calls : CountRequest(c) \/ Authenticate(c) \/ Refuse(c)
    \/ Cleanup
    \/ Tick

AccessSpec == AccessInit /\ [][AccessNext]_accessVars

-----------------------------------------------------------------------------
AccessTypeOK ==
    /\ minute \in Minutes
    /\ keyRow \in [Keys -> KeyRow]
    /\ windows \in [Clients \X Minutes -> 0..MaxCalls]
    /\ \A c \in Calls : call[c].at \in {"none", "limit", "auth"}
    /\ servedDead \in BOOLEAN

\* However many requests of a client race in a minute, whenever they are counted
\* and whatever the worker cleans up meanwhile, no more than the limit get past
\* the middleware.
AdmittedWithinLimit == \A p \in Clients \X Minutes : admitted[p] <= Limit

\* A request that comes after its key was revoked, rotated away or expired is
\* never served, on no kind of route and however the key is rotated again.
DeadKeyNeverServed == ~servedDead
=============================================================================
