------------------------------ MODULE Sessions ------------------------------
(***************************************************************************)
(* The session of one account: its access and refresh token in MySQL, and   *)
(* their copies in Redis.                                                   *)
(*                                                                         *)
(* AccountService (internal/account/service.go) writes the row and then the *)
(* keys account:<id> and refresh:<token>; the middleware JWTAuth            *)
(* (internal/middleware/jwt/jwt.go) compares a request's token with the key *)
(* and, on a miss, with the row, whose token it caches again.  Nothing      *)
(* orders the operations of one account: each is a sequence of statements   *)
(* and commands that interleaves with the others, and a failed Redis        *)
(* command is only logged.  MySQL statements whose error is the answer are  *)
(* taken to succeed.                                                        *)
(*                                                                         *)
(* Accounts do not touch one another's keys, so one is enough.  The key     *)
(* account:<id>:refresh is written and never read; it is left out.          *)
(***************************************************************************)
EXTENDS Integers, FiniteSets

CONSTANTS
    Ops,          \* requests the API serves at a time
    Names,        \* usernames the account may take
    Lifetime,     \* validity of an access token (15 min), in ticks
    MaxOps,       \* bound: requests
    MaxTime,      \* bound: ticks of the clock
    MaxFailures,  \* bound: failed Redis commands and ignored updates
    MaxLosses     \* bound: keys that expire or are evicted

ASSUME Bounds == /\ {Lifetime, MaxTime} \subseteq Nat \ {0}
                 /\ {MaxOps, MaxFailures, MaxLosses} \subseteq Nat

VARIABLES
    name,      \* accounts.username
    password,  \* accounts.password: how often it has been changed
    row,       \* accounts.token and accounts.refresh_token
    cached,    \* Redis, account:<id>
    lookup,    \* Redis, the refresh tokens r with a key refresh:<r>
    op,        \* op[o]: the request o serves and where it is
    held,      \* tokens the clients have been given
    now,       \* the clock
    issued,    \* refresh tokens generated so far; the newest one
    started, failures, losses,
    inStep,    \* history: nothing has disturbed row and keys since a
               \* complete write of both
    behind,    \* history: the tokens a refresh replaced in the row alone, since
               \* account:<id> was last written or deleted
    opened     \* history: the password the session was opened with

table   == <<name, password, row>>
key     == <<cached, behind>>
redis   == <<key, lookup>>
history == <<inStep, opened>>
vars == <<table, redis, op, held, now, issued, started, failures, losses, history>>
env  == <<now, started, losses>>

None   == [name |-> "", at |-> 0]   \* no access token; 0 is no refresh token
Tokens == [name : Names, at : 1 .. MaxTime] \cup {None}
Kinds  == {"visit", "logout", "rename", "login", "change", "refresh"}
Idle   == [kind |-> "none", pc |-> "idle", token |-> None, refresh |-> 0,
           pass |-> 0, alone |-> FALSE, dead |-> FALSE]

\* GenerateToken: the claims are the name and the second of issue, so two
\* tokens of one second are the same string.
GenerateToken(n) == [name |-> n, at |-> now]

\* ParseToken: the signature is right and the token has not expired.
ParseToken(t) == now < t.at + Lifetime

Busy == {o \in Ops : op[o].kind # "none"}

TypeOK ==
    /\ name \in Names /\ password \in 0 .. MaxOps
    /\ row \in [token : Tokens, refresh : 0 .. issued]
    /\ cached \in Tokens /\ lookup \subseteq 1 .. issued
    /\ op \in [Ops -> [kind : Kinds \cup {"none"},
                       pc : {"idle", "get", "compare", "refill", "read", "forget",
                             "unlook", "clear", "password", "row", "set", "look",
                             "verify", "scan", "update", "store"},
                       token : Tokens, refresh : 0 .. issued, pass : 0 .. MaxOps,
                       alone : BOOLEAN, dead : BOOLEAN]]
    /\ held.access \subseteq Tokens /\ held.refresh \subseteq 1 .. issued
    /\ now \in 1 .. MaxTime /\ issued \in 0 .. MaxOps /\ started \in 0 .. MaxOps
    /\ failures \in 0 .. MaxFailures /\ losses \in 0 .. MaxLosses
    /\ inStep \in BOOLEAN /\ opened \in 0 .. MaxOps /\ behind \subseteq Tokens

Init ==
    /\ name \in Names /\ password = 0
    /\ row = [token |-> None, refresh |-> 0]
    /\ cached = None /\ lookup = {}
    /\ op = [o \in Ops |-> Idle]
    /\ held = [access |-> {}, refresh |-> {}]
    /\ now = 1 /\ issued = 0 /\ started = 0 /\ failures = 0 /\ losses = 0
    /\ inStep = TRUE /\ opened = 0 /\ behind = {}

-----------------------------------------------------------------------------
(* Requests.  One that begins beside another one disturbs it, unless both    *)
(* only read.                                                               *)

Begin(o, k, pc, t, r, p) ==
    /\ op[o] = Idle /\ started < MaxOps
    /\ started' = started + 1
    /\ op' = [x \in Ops |->
                IF x = o
                  THEN [kind |-> k, pc |-> pc, token |-> t, refresh |-> r, pass |-> p,
                        alone |-> Busy = {}, dead |-> r # row.refresh]
                  ELSE [op[x] EXCEPT !.alone = FALSE]]
    /\ inStep' = (inStep /\ (\/ Busy = {}
                             \/ \A x \in Busy : op[x].kind = "visit" /\ k = "visit"))
    /\ UNCHANGED <<table, redis, held, now, issued, failures, losses, opened>>

\* A request of a protected route presents a token it was given.
Authorize(o) ==
    \E k \in {"visit", "logout", "rename"}, t \in held.access :
        ParseToken(t) /\ Begin(o, k, "get", t, 0, 0)

BeginLogin(o)   == \E p \in 0 .. password : Begin(o, "login", "read", None, 0, p)
BeginChange(o)  == Begin(o, "change", "read", None, 0, password)
BeginRefresh(o) == \E r \in held.refresh : Begin(o, "refresh", "look", None, r, 0)

Goto(o, pc)   == op' = [op EXCEPT ![o].pc = pc]
Stop(o)       == op' = [op EXCEPT ![o] = Idle]
\* A login or a logout has written the row and the keys; if nothing ran
\* beside it and nothing failed, they agree again.
Complete(o)   == /\ Stop(o)
                 /\ inStep' = (inStep \/ (op[o].alone /\ op[o].kind \in {"login", "logout"}))
\* A Redis command fails: the code logs it and goes on.
Fails(o, pc)  == /\ failures < MaxFailures /\ failures' = failures + 1
                 /\ inStep' = FALSE
                 /\ op' = [op EXCEPT ![o].pc = pc, ![o].alone = FALSE]

-----------------------------------------------------------------------------
(* check (jwt.go).                                                           *)

\* account:<id> is written, or deleted (None).
Put(t) == cached' = t /\ behind' = {}

Passed(o) == CASE op[o].kind = "visit"  -> Stop(o)
               [] op[o].kind = "logout" -> Goto(o, "read")
               [] OTHER                 -> Goto(o, "row")

CheckCache(o) ==
    /\ op[o].pc = "get"
    /\ \/ /\ cached # None /\ cached = op[o].token
          /\ Passed(o) /\ UNCHANGED <<failures, inStep>>
       \/ /\ cached # None /\ cached # op[o].token
          /\ Stop(o) /\ UNCHANGED <<failures, inStep>>
       \/ /\ cached = None
          /\ Goto(o, "compare") /\ UNCHANGED <<failures, inStep>>
       \/ Fails(o, "compare")
    /\ UNCHANGED <<table, redis, held, issued, env, opened>>

\* Mutant: a miss lets in, and caches, the token of any open session.
CheckRow_Mut(o) ==
    /\ op[o].pc = "compare"
    /\ IF row.token # None THEN Goto(o, "refill") ELSE Stop(o)
    /\ UNCHANGED <<table, redis, held, issued, failures, env, history>>

CheckRow(o) ==
    /\ op[o].pc = "compare"
    /\ IF row.token # None /\ row.token = op[o].token THEN Goto(o, "refill") ELSE Stop(o)
    /\ UNCHANGED <<table, redis, held, issued, failures, env, history>>

Refill(o) ==
    /\ op[o].pc = "refill"
    /\ \/ Put(op[o].token) /\ UNCHANGED <<failures, inStep>>
       \/ /\ failures < MaxFailures /\ failures' = failures + 1
          /\ inStep' = FALSE /\ UNCHANGED key
    /\ Passed(o)
    /\ UNCHANGED <<table, lookup, held, issued, env, opened>>

-----------------------------------------------------------------------------
(* Login.                                                                    *)

LoginReads(o) ==
    /\ op[o].kind = "login" /\ op[o].pc = "read"
    /\ IF op[o].pass = password
         THEN /\ issued' = issued + 1
              /\ op' = [op EXCEPT ![o].pc = "row", ![o].token = GenerateToken(name),
                                  ![o].refresh = issued + 1]
         ELSE Stop(o) /\ UNCHANGED issued
    /\ UNCHANGED <<table, redis, held, failures, env, history>>

LoginStores(o) ==
    /\ op[o].kind = "login" /\ op[o].pc = "row"
    /\ row' = [token |-> op[o].token, refresh |-> op[o].refresh]
    /\ opened' = op[o].pass
    /\ Goto(o, "set")
    /\ UNCHANGED <<name, password, redis, held, issued, failures, env, inStep>>

\* Mutant: login answers before it has a refresh token.
Give_Mut(o) == held' = [access  |-> held.access \cup {op[o].token},
                        refresh |-> held.refresh \cup {op[o].refresh}]

Give(o) == held' = [access  |-> held.access \cup {op[o].token},
                    refresh |-> held.refresh \cup ({op[o].refresh} \ {0})]

\* account:<id> is set by login, rename and the first path of refresh, whose
\* answer follows; login still has refresh:<token> to set.
SetToken(o) ==
    /\ op[o].pc = "set"
    /\ IF op[o].kind = "login"
         THEN \/ Put(op[o].token) /\ Goto(o, "store") /\ UNCHANGED <<failures, inStep, held>>
              \/ Fails(o, "store") /\ UNCHANGED <<key, held>>
         ELSE /\ Give(o)
              /\ \/ Put(op[o].token) /\ Complete(o) /\ UNCHANGED failures
                 \/ /\ failures < MaxFailures /\ failures' = failures + 1
                    /\ Stop(o) /\ inStep' = FALSE /\ UNCHANGED key
    /\ UNCHANGED <<table, lookup, issued, env, opened>>

SetLookup(o) ==
    /\ op[o].pc = "store"
    /\ Give(o)
    /\ \/ lookup' = lookup \cup {op[o].refresh} /\ Complete(o) /\ UNCHANGED failures
       \/ /\ failures < MaxFailures /\ failures' = failures + 1
          /\ Stop(o) /\ inStep' = FALSE /\ UNCHANGED lookup
    /\ UNCHANGED <<table, key, issued, env, opened>>

-----------------------------------------------------------------------------
(* Rename, ChangePassword and Logout.                                        *)

\* The handlers of rename pass the check, then one transaction changes name
\* and token.  A name that is taken, or the name it has, changes nothing.
RenameStores(o) ==
    /\ op[o].kind = "rename" /\ op[o].pc = "row"
    /\ \/ \E n \in Names \ {name} :
            /\ name' = n
            /\ row' = [row EXCEPT !.token = GenerateToken(n)]
            /\ op' = [op EXCEPT ![o].pc = "set", ![o].token = GenerateToken(n)]
       \/ Stop(o) /\ UNCHANGED <<name, row>>
    /\ UNCHANGED <<password, redis, held, issued, failures, env, history>>

ChangeReads(o) ==
    /\ op[o].kind = "change" /\ op[o].pc = "read"
    /\ IF op[o].pass = password THEN Goto(o, "password") ELSE Stop(o)
    /\ UNCHANGED <<table, redis, held, issued, failures, env, history>>

\* Mutant: a changed password does not log out.
ChangePassword_Mut(o) ==
    /\ op[o].pc = "password"
    /\ password' = password + 1
    /\ Stop(o)
    /\ UNCHANGED <<name, row, redis, held, issued, failures, env, history>>

ChangePassword(o) ==
    /\ op[o].pc = "password"
    /\ password' = password + 1
    /\ op' = [op EXCEPT ![o].kind = "logout", ![o].pc = "read"]
    /\ UNCHANGED <<name, row, redis, held, issued, failures, env, history>>

LogoutReads(o) ==
    /\ op[o].kind = "logout" /\ op[o].pc = "read"
    /\ IF row.token = None THEN Stop(o)
       ELSE op' = [op EXCEPT ![o].pc = "forget", ![o].refresh = row.refresh]
    /\ UNCHANGED <<table, redis, held, issued, failures, env, history>>

LogoutForgets(o) ==
    /\ op[o].pc = "forget"
    /\ \/ Put(None) /\ Goto(o, "unlook") /\ UNCHANGED <<failures, inStep>>
       \/ Fails(o, "unlook") /\ UNCHANGED key
    /\ UNCHANGED <<table, lookup, held, issued, env, opened>>

LogoutUnlooks(o) ==
    /\ op[o].pc = "unlook"
    /\ \/ lookup' = lookup \ {op[o].refresh} /\ Goto(o, "clear") /\ UNCHANGED <<failures, inStep>>
       \/ Fails(o, "clear") /\ UNCHANGED lookup
    /\ UNCHANGED <<table, key, held, issued, env, opened>>

LogoutClears(o) ==
    /\ op[o].pc = "clear"
    /\ row' = [token |-> None, refresh |-> 0]
    /\ Complete(o)
    /\ UNCHANGED <<name, password, redis, held, issued, failures, env, opened>>

-----------------------------------------------------------------------------
(* RefreshAccessToken.                                                       *)

RefreshLooks(o) ==
    /\ op[o].pc = "look"
    /\ \/ /\ Goto(o, IF op[o].refresh \in lookup THEN "verify" ELSE "scan")
          /\ UNCHANGED <<failures, inStep>>
       \/ Fails(o, "scan")
    /\ UNCHANGED <<table, redis, held, issued, env, opened>>

\* Mutant: the key refresh:<token> is trusted.
RefreshVerifies_Mut(o) ==
    /\ op[o].pc = "verify"
    /\ op' = [op EXCEPT ![o].pc = "update", ![o].token = GenerateToken(name)]
    /\ UNCHANGED <<table, redis, held, issued, failures, env, history>>

\* The row found through the key must still hold the refresh token.
RefreshVerifies(o) ==
    /\ op[o].pc = "verify"
    /\ IF row.refresh = op[o].refresh
         THEN op' = [op EXCEPT ![o].pc = "update", ![o].token = GenerateToken(name)]
         ELSE Goto(o, "scan")
    /\ UNCHANGED <<table, redis, held, issued, failures, env, history>>

\* The error of UpdateToken is ignored.
RefreshStores(o) ==
    /\ op[o].pc = "update"
    /\ \/ row' = [row EXCEPT !.token = op[o].token] /\ Goto(o, "set")
          /\ UNCHANGED <<failures, inStep>>
       \/ Fails(o, "set") /\ UNCHANGED row
    /\ UNCHANGED <<name, password, redis, held, issued, env, opened>>

\* Without the key every account is compared; this path updates the row and
\* leaves account:<id> as it is: the token it may hold is behind the row's.
RefreshScans(o) ==
    /\ op[o].pc = "scan"
    /\ IF row.refresh = op[o].refresh
         THEN op' = [op EXCEPT ![o].pc = "row", ![o].token = GenerateToken(name)]
         ELSE Stop(o)
    /\ UNCHANGED <<table, redis, held, issued, failures, env, history>>

RefreshStoresOnly(o) ==
    /\ op[o].kind = "refresh" /\ op[o].pc = "row"
    /\ \/ /\ row' = [row EXCEPT !.token = op[o].token]
          /\ behind' = behind \cup {row.token}
          /\ UNCHANGED <<failures, inStep>>
       \/ /\ failures < MaxFailures /\ failures' = failures + 1
          /\ inStep' = FALSE /\ UNCHANGED <<row, behind>>
    /\ Give(o) /\ Stop(o)
    /\ UNCHANGED <<name, password, cached, lookup, issued, env, opened>>

-----------------------------------------------------------------------------
(* account:<id> lives 24 h, refresh:<token> 7 days, and both may be evicted. *)
Lose ==
    /\ losses < MaxLosses /\ losses' = losses + 1
    /\ \/ cached # None /\ Put(None) /\ UNCHANGED lookup
       \/ \E r \in lookup : lookup' = lookup \ {r} /\ UNCHANGED key
    /\ UNCHANGED <<table, op, held, now, issued, started, failures, history>>

Tick ==
    /\ now < MaxTime /\ now' = now + 1
    /\ UNCHANGED <<table, redis, op, held, issued, started, failures, losses, history>>

Check(o)   == CheckCache(o) \/ CheckRow(o) \/ Refill(o)
Login(o)   == LoginReads(o) \/ LoginStores(o) \/ SetToken(o) \/ SetLookup(o)
Logout(o)  == LogoutReads(o) \/ LogoutForgets(o) \/ LogoutUnlooks(o) \/ LogoutClears(o)
Refresh(o) == \/ RefreshLooks(o) \/ RefreshVerifies(o) \/ RefreshStores(o)
              \/ RefreshScans(o) \/ RefreshStoresOnly(o)
Change(o)  == RenameStores(o) \/ ChangeReads(o) \/ ChangePassword(o)
Arrive(o)  == Authorize(o) \/ BeginLogin(o) \/ BeginChange(o) \/ BeginRefresh(o)

Next == \/ Lose \/ Tick
        \/ \E o \in Ops : \/ Arrive(o) \/ Check(o) \/ Login(o)
                          \/ Logout(o) \/ Refresh(o) \/ Change(o)

Spec == Init /\ [][Next]_vars

-----------------------------------------------------------------------------
\* Where nothing ran side by side and nothing failed since a login or logout
\* last ran undisturbed, the key account:<id> is missing or holds the token of
\* the row, or one that a refresh without its key (the scan) has since replaced
\* in the row alone: no other token is let in.  After a logout nothing is
\* cached, and the row has both tokens or neither.  Neither an early return,
\* nor a miss that is refilled, nor a request let in on a token behind the
\* row's may break this.
CacheAgrees ==
    (inStep /\ Busy = {}) => /\ cached \in {None, row.token} \cup behind
                             /\ cached # None => row.token # None
                             /\ (row.token = None) = (row.refresh = 0)

\* What the project's design says of /account/logout, "the old token is invalid
\* at once": with the session out of the row and no request under way,
\* account:<id> lets no token in.  A request that wrote or read the row before
\* a logout cleared it, and writes the key after the logout deleted it, breaks
\* it: a login, or a request that is let in by the row.
LoggedOutIsOut == (Busy = {} /\ row.token = None) => cached = None

\* A refresh token that was no longer the row's when it was presented yields
\* no access token, whatever keys Redis still has and whichever commands
\* failed: both paths of RefreshAccessToken compare it with the row.
RevokedRefreshIsDead ==
    \A o \in Ops : op[o].kind = "refresh" /\ op[o].pc \in {"update", "set", "row"}
                      => ~op[o].dead

\* A changed password ends the sessions opened with the old one: unless
\* requests ran side by side or something failed, a session that is open was
\* opened with the present password.
OldPasswordIsOut ==
    (inStep /\ Busy = {} /\ row.token # None) => opened = password
=============================================================================
