--------------------------- MODULE Subscriptions ---------------------------
(***************************************************************************)
(* Usage of AI subscriptions (src-tauri/src/usage.rs, core/usage.rs and    *)
(* subscriptions.rs).  Windows ask for the usage of a provider; at most    *)
(* one request per provider is under way, outside the lock of Core, and    *)
(* the user may disconnect and connect the account meanwhile.              *)
(*                                                                         *)
(* A connection is named by its generation, 0 before the first.  A         *)
(* snapshot keeps the connection its quota was read for, 0 for none.       *)
(***************************************************************************)
EXTENDS Integers

CONSTANTS UsageProviders, \* providers of subscriptions
          UsageCallers,   \* concurrent refresh_subscription_usage calls
          MaxConnections, \* bound on authorizations and revocations
          NoCaller

ASSUME SubscriptionsAssumption == MaxConnections \in Nat

Unknown == -1             \* a number the answer lacks, or a negative one
NoSnapshot == [status |-> "none"]
IdleUsage == [pc |-> "idle"]

VARIABLES account,        \* the row of each provider
          signedIn,       \* providers whose credentials can be read
          flights,        \* the caller that holds a provider's flight
          usageCall       \* calls under way

usageVars == <<account, signedIn, flights, usageCall>>

UsageInit ==
    /\ account = [p \in UsageProviders |->
                    [enabled |-> FALSE, generation |-> 0, snapshot |-> NoSnapshot]]
    /\ signedIn \in SUBSET UsageProviders
    /\ flights = [p \in UsageProviders |-> NoCaller]
    /\ usageCall = [c \in UsageCallers |-> IdleUsage]

-----------------------------------------------------------------------------
\* What an answer says of one window, and what is read from it.
\* A balance is a window with a currency.
WindowKinds == {"quota", "unlimited", "balance"}

Answer(kind, percent, used, limit, remaining) ==
    [kind |-> kind, percent |-> percent, used |-> used, limit |-> limit, remaining |-> remaining]

AnsweredWindows ==
    {Answer("quota", Unknown, Unknown, Unknown, Unknown), Answer("quota", 150, Unknown, Unknown, Unknown),
     Answer("quota", Unknown, 3, 2, Unknown), Answer("quota", Unknown, Unknown, 2, 3),
     Answer("quota", Unknown, Unknown, 0, 1), Answer("quota", Unknown, 1, Unknown, Unknown),
     Answer("unlimited", Unknown, Unknown, Unknown, Unknown),
     Answer("balance", Unknown, Unknown, Unknown, 12), Answer("balance", Unknown, Unknown, Unknown, Unknown)}

Clamp(n) == IF n < 0 THEN 0 ELSE IF n > 100 THEN 100 ELSE n

UsedOf(w) ==
    IF w.used # Unknown THEN w.used
    ELSE IF w.limit # Unknown /\ w.remaining # Unknown
         THEN (IF w.limit > w.remaining THEN w.limit - w.remaining ELSE 0)
         ELSE Unknown

UsedPercent(w) ==
    IF w.percent # Unknown THEN Clamp(w.percent)
    ELSE IF w.limit > 0 /\ UsedOf(w) # Unknown
         THEN Clamp((100 * UsedOf(w)) \div w.limit)
         ELSE Unknown

\* parse keeps a window that says something: a share, that there is no limit,
\* or an amount of money.
Retained(w) ==
    \/ UsedPercent(w) # Unknown
    \/ w.kind = "unlimited"
    \/ w.kind = "balance" /\ {w.remaining, w.used} # {Unknown}

\* fetch: what becomes of a request.  An answer without windows that are
\* retained is not understood.
Responses == {"no response", "refused", "too many", "server error", "too large", "not JSON"}

StatusOfResponse(r) ==
    CASE r = "no response" -> "network_error"
      [] r = "refused" -> "login_required"
      [] r = "too many" -> "rate_limited"
      [] r = "server error" -> "unavailable"
      [] OTHER -> "unsupported"

Failure(status) ==
    [status |-> status, kind |-> "quota", percent |-> Unknown, of |-> 0, age |-> "new"]

Fetched(p, generation) ==
    IF p \notin signedIn THEN {Failure("not_connected")}
    ELSE {Failure(StatusOfResponse(r)) : r \in Responses}
         \cup {IF ~Retained(w) THEN Failure("unsupported")
               ELSE [status |-> "ready", kind |-> w.kind, percent |-> UsedPercent(w),
                     of |-> generation, age |-> "new"] : w \in AnsweredWindows}

-----------------------------------------------------------------------------
\* SubscriptionUsage::fresh.  Ages: below 30 seconds, 60, 300, older, and
\* attempts in the future of a clock that was set back.
UsageAges == {"new", "half a minute", "minutes", "old", "future"}

FreshSnapshot(s, force) ==
    /\ s # NoSnapshot
    /\ \/ s.age = "new"
       \/ ~force /\ s.age = "half a minute"
       \/ ~force /\ s.age = "minutes" /\ s.status = "ready"

UsageTimePasses(p) ==
    /\ account[p].snapshot # NoSnapshot
    /\ \E a \in UsageAges : account' = [account EXCEPT ![p].snapshot.age = a]
    /\ UNCHANGED <<signedIn, flights, usageCall>>

SignInOrOut(p) ==
    /\ signedIn' = (signedIn \ {p}) \cup ({p} \ signedIn)
    /\ UNCHANGED <<account, flights, usageCall>>

SetSubscriptionEnabled(p, enabled) ==
    /\ account[p].generation < MaxConnections
    /\ account' = [account EXCEPT ![p] = [enabled |-> enabled, generation |-> @.generation + 1,
                                          snapshot |-> NoSnapshot]]
    /\ UNCHANGED <<signedIn, flights, usageCall>>

-----------------------------------------------------------------------------
BeginUsage(c, p, force) ==
    /\ usageCall[c] = IdleUsage
    /\ usageCall' = [usageCall EXCEPT ![c] = [pc |-> "waiting", provider |-> p, force |-> force]]
    /\ UNCHANGED <<account, signedIn, flights>>

TakeFlight(c) ==
    /\ usageCall[c].pc = "waiting"
    /\ flights[usageCall[c].provider] = NoCaller
    /\ flights' = [flights EXCEPT ![usageCall[c].provider] = c]
    /\ usageCall' = [usageCall EXCEPT ![c].pc = "prepare"]
    /\ UNCHANGED <<account, signedIn>>

\* prepare_subscription_refresh: nothing is asked for a provider that is
\* not connected or whose snapshot is fresh.
PrepareUsage(c) ==
    LET p == usageCall[c].provider
        asks == account[p].enabled /\ ~FreshSnapshot(account[p].snapshot, usageCall[c].force)
    IN  /\ usageCall[c].pc = "prepare"
        /\ usageCall' = [usageCall EXCEPT ![c] =
              IF asks THEN [pc |-> "fetch", provider |-> p, generation |-> account[p].generation]
              ELSE [pc |-> "read", provider |-> p]]
        /\ UNCHANGED <<account, signedIn, flights>>

FetchUsage(c) ==
    /\ usageCall[c].pc = "fetch"
    /\ \E s \in Fetched(usageCall[c].provider, usageCall[c].generation) :
          usageCall' = [usageCall EXCEPT ![c] =
              [pc |-> "publish", provider |-> @.provider, generation |-> @.generation,
               snapshot |-> s]]
    /\ UNCHANGED <<account, signedIn, flights>>

\* A failed request keeps the quota the connection already had.
Merged(s, prior) ==
    IF s.status = "ready" \/ prior = NoSnapshot THEN s
    ELSE [s EXCEPT !.of = prior.of, !.kind = prior.kind, !.percent = prior.percent]

\* Mutant of PublishUsage: the row is found by its provider alone.
PublishUsageOfAnyConnection(c) ==
    LET p == usageCall[c].provider
    IN  /\ usageCall[c].pc = "publish"
        /\ account' = IF ~account[p].enabled THEN account
                      ELSE [account EXCEPT ![p].snapshot =
                                Merged(usageCall[c].snapshot, account[p].snapshot)]
        /\ usageCall' = [usageCall EXCEPT ![c] = [pc |-> "read", provider |-> p]]
        /\ UNCHANGED <<signedIn, flights>>

PublishUsage(c) ==
    LET p == usageCall[c].provider
        current == account[p].enabled /\ account[p].generation = usageCall[c].generation
    IN  /\ usageCall[c].pc = "publish"
        /\ account' = IF ~current THEN account
                      ELSE [account EXCEPT ![p].snapshot =
                                Merged(usageCall[c].snapshot, account[p].snapshot)]
        /\ usageCall' = [usageCall EXCEPT ![c] = [pc |-> "read", provider |-> p]]
        /\ UNCHANGED <<signedIn, flights>>

\* The answer is read from the rows, and the flight ends.
ReturnUsage(c) ==
    /\ usageCall[c].pc = "read"
    /\ usageCall' = [usageCall EXCEPT ![c] = IdleUsage]
    /\ flights' = [flights EXCEPT ![usageCall[c].provider] = NoCaller]
    /\ UNCHANGED <<account, signedIn>>

\* Core fails to read or write: the call ends with the error.
FailUsage(c) ==
    /\ usageCall[c].pc \in {"prepare", "publish", "read"}
    /\ usageCall' = [usageCall EXCEPT ![c] = IdleUsage]
    /\ flights' = [flights EXCEPT ![usageCall[c].provider] = NoCaller]
    /\ UNCHANGED <<account, signedIn>>

UsageNext ==
    \/ \E p \in UsageProviders :
          \/ UsageTimePasses(p) \/ SignInOrOut(p)
          \/ \E enabled \in BOOLEAN : SetSubscriptionEnabled(p, enabled)
    \/ \E c \in UsageCallers :
          \/ \E p \in UsageProviders, force \in BOOLEAN : BeginUsage(c, p, force)
          \/ TakeFlight(c) \/ PrepareUsage(c) \/ FetchUsage(c) \/ PublishUsage(c)
          \/ ReturnUsage(c) \/ FailUsage(c)

UsageSpec == UsageInit /\ [][UsageNext]_usageVars

-----------------------------------------------------------------------------
\* What is stored of a subscription was read for the connection the user has
\* now, even if the account was disconnected, or disconnected and connected
\* again, while the request ran.  A quota that a failed request leaves in
\* place stays one that can be shown: a percentage, unless it is a balance or
\* has no limit.
QuotasAreOfTheConnection ==
    \A p \in UsageProviders :
        LET s == account[p].snapshot
        IN  s # NoSnapshot =>
              /\ account[p].enabled
              /\ s.of \in {0, account[p].generation}
              /\ s.of # 0 => s.percent \in 0..100 \/ s.kind \in {"unlimited", "balance"}
=============================================================================
