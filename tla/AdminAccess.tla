----------------------------- MODULE AdminAccess ------------------------------
(* Who may administer: login behind its limiters (login/actions.ts,         *)
(* lib/rateLimiter.ts), the session cookie (lib/session.ts, middleware.ts), *)
(* the live user check and its cache (lib/auth-check.ts) and the owner's    *)
(* user management (lib/users.ts, admin/users/_actions.ts).                 *)
(*                                                                          *)
(* Every await is a step boundary.  A password is a number; the cookie of a *)
(* browser holds the user it logged in as.                                  *)
EXTENDS Integers, FiniteSets

CONSTANTS
    Browser,
    Owner, Staff,       \* the owner, and the other accounts
    Nobody,
    UserStateTTL,       \* USER_STATE_TTL_MS
    SlowQuery,          \* ticks a query may take
    LoginMax, LoginWindow,  \* of the email limiter
    Passwords,          \* passwords a reset chooses from, 0 the first
    LastTick

User == Staff \cup {Owner}

ASSUME AccessAssumption ==
    /\ Owner \notin Staff /\ Nobody \notin User
    /\ {UserStateTTL, SlowQuery, LoginMax, LoginWindow, LastTick} \subseteq Nat
    /\ UserStateTTL > 0 /\ LoginWindow > 0 /\ 0 \in Passwords /\ Passwords \subseteq Nat

Instant == 0..LastTick
Row == [here : BOOLEAN, enabled : BOOLEAN, password : Passwords]
Hit == [at : Instant, nth : Nat]    \* nth tells hits of one tick apart
Write == {"rename", "quota", "disable", "enable", "demote", "promote", "delete"}
Relaxed == [pc |-> "idle", user |-> Nobody, password |-> 0, start |-> 0,
            yes |-> FALSE, write |-> "rename"]

VARIABLES
    tick,
    account,    \* admin_users; roles never change, so the owner is Owner
    cookie,     \* the user in each browser's session, or Nobody
    state,      \* userStateCache
    visit,      \* the request of each browser
    hits,       \* the email limiter's bucket of each user
    logins,     \* attempts it let through (ghost)
    enabledAt   \* when each account was last enabled (ghost)

accessVars == <<tick, account, cookie, state, visit, hits, logins, enabledAt>>

NoState == [expires |-> -1, enabled |-> FALSE]

AccessTypeOK ==
    /\ tick \in Instant
    /\ account \in [User -> Row]
    /\ cookie \in [Browser -> User \cup {Nobody}]
    /\ state \in [User -> [expires : -1..(LastTick + UserStateTTL), enabled : BOOLEAN]]
    /\ visit \in [Browser -> [pc : {"idle", "row", "verify", "state", "fill", "act",
                                     "write", "forget"},
                              user : User \cup {Nobody}, password : Passwords,
                              start : Instant, yes : BOOLEAN, write : Write]]
    /\ hits \in [User -> SUBSET Hit] /\ logins \in [User -> SUBSET Hit]
    /\ enabledAt \in [User -> Instant \cup {-1}]

AccessInit ==
    /\ tick = 0
    /\ account = [u \in User |-> [here |-> TRUE, enabled |-> TRUE, password |-> 0]]
    /\ cookie \in [Browser -> User \cup {Nobody}]   \* a session outlives the process
    /\ state = [u \in User |-> NoState]
    /\ visit = [b \in Browser |-> Relaxed]
    /\ hits = [u \in User |-> {}] /\ logins = hits
    /\ enabledAt = [u \in User |-> 0]

Enabled(u) == account[u].here /\ account[u].enabled

Visit(b, v) == visit' = [visit EXCEPT ![b] = v]

-----------------------------------------------------------------------------
(* Login.                                                                   *)

LoginSame == UNCHANGED <<tick, account, state, enabledAt>>

\* Mutant: a refused attempt empties the bucket.
LiveForgetful(s) == IF Cardinality(s) >= LoginMax THEN {} ELSE s

\* Timestamps inside the window; a swept or emptied key reads the same.
LiveHits(s) == {h \in s : h.at > tick - LoginWindow}

\* rateLimiter.allow; the per-address limiter is a refusal like any other.
Attempt(b) ==
    /\ visit[b].pc = "idle" /\ cookie[b] = Nobody
    /\ \E u \in User, p \in Passwords, addressOk \in BOOLEAN :
         LET live == LiveHits(hits[u])
             ok == Cardinality(live) < LoginMax
             hit == [at |-> tick, nth |-> Cardinality(logins[u])]
         IN /\ hits' = [hits EXCEPT ![u] = IF ok THEN live \cup {hit} ELSE live]
            /\ logins' = IF ok THEN [logins EXCEPT ![u] = @ \cup {hit}] ELSE logins
            /\ Visit(b, IF ok /\ addressOk
                     THEN [Relaxed EXCEPT !.pc = "row", !.user = u, !.password = p] ELSE Relaxed)
    /\ LoginSame /\ UNCHANGED cookie

\* authenticate reads the row, then verifies the hash it read.
ReadRow(b) ==
    /\ visit[b].pc = "row"
    /\ LET v == visit[b] IN
       Visit(b, [v EXCEPT !.pc = "verify",
                       !.yes = Enabled(v.user) /\ account[v.user].password = v.password])
    /\ LoginSame /\ UNCHANGED <<cookie, hits, logins>>

Verify(b) ==
    /\ visit[b].pc = "verify"
    /\ cookie' = [cookie EXCEPT ![b] = IF visit[b].yes THEN visit[b].user ELSE Nobody]
    /\ Visit(b, Relaxed)
    /\ LoginSame /\ UNCHANGED <<hits, logins>>

Logout(b) ==
    /\ visit[b].pc = "idle" /\ cookie[b] # Nobody
    /\ cookie' = [cookie EXCEPT ![b] = Nobody]
    /\ LoginSame /\ UNCHANGED <<visit, hits, logins>>

-----------------------------------------------------------------------------
(* requireAdmin, requireOwner: resolveLiveUserState.                        *)

CheckSame == UNCHANGED <<tick, account, cookie, hits, logins, enabledAt>>

\* What a request of user u becomes once he is known to be enabled or not.
Admitted(u, enabled) ==
    IF enabled THEN [Relaxed EXCEPT !.pc = "act", !.user = u] ELSE Relaxed

Ask(b) ==
    /\ visit[b].pc = "idle" /\ cookie[b] # Nobody
    /\ LET u == cookie[b] IN
       Visit(b, IF state[u].expires > tick THEN Admitted(u, state[u].enabled)
             ELSE [Relaxed EXCEPT !.pc = "state", !.user = u, !.start = tick])
    /\ CheckSame /\ UNCHANGED state

\* getUserById; a query that fails reads as a disabled user.
ReadState(b) ==
    /\ visit[b].pc = "state"
    /\ \E e \in {Enabled(visit[b].user), FALSE} :
         Visit(b, [visit[b] EXCEPT !.pc = "fill", !.yes = e])
    /\ CheckSame /\ UNCHANGED state

\* Mutant: the window is counted from the end of the query.
FillStateLate(b) ==
    /\ visit[b].pc = "fill"
    /\ state' = [state EXCEPT ![visit[b].user] =
                   [expires |-> tick + UserStateTTL, enabled |-> visit[b].yes]]
    /\ Visit(b, Admitted(visit[b].user, visit[b].yes))
    /\ CheckSame

FillState(b) ==
    /\ visit[b].pc = "fill"
    /\ state' = [state EXCEPT ![visit[b].user] =
                   [expires |-> visit[b].start + UserStateTTL, enabled |-> visit[b].yes]]
    /\ Visit(b, Admitted(visit[b].user, visit[b].yes))
    /\ CheckSame

-----------------------------------------------------------------------------
(* User management.                                                         *)

ActSame == UNCHANGED <<tick, cookie, hits, logins>>
Put(u, row) == /\ account' = [account EXCEPT ![u] = row]
               /\ enabledAt' = [enabledAt EXCEPT ![u] = IF row.here /\ row.enabled THEN tick ELSE @]

\* The owner's request, past requireOwner.
Manages(b) == visit[b].pc = "act" /\ visit[b].user = Owner

\* A page or action that changes nothing here; staff asking for more is
\* turned away.
Serve(b) ==
    /\ visit[b].pc = "act"
    /\ Visit(b, Relaxed)
    /\ ActSame /\ UNCHANGED <<account, state, enabledAt>>

\* createUserAction: the email is unique.
CreateUser(b) ==
    /\ Manages(b)
    /\ \E u \in Staff : /\ ~account[u].here
                        /\ Put(u, [here |-> TRUE, enabled |-> TRUE, password |-> 0])
    /\ Visit(b, Relaxed)
    /\ ActSame /\ UNCHANGED state

\* resetPasswordAction: sessions stay as they are.
ResetPassword(b) ==
    /\ Manages(b)
    /\ \E u \in User, p \in Passwords : /\ account[u].here
                                        /\ Put(u, [account[u] EXCEPT !.password = p])
    /\ Visit(b, Relaxed)
    /\ ActSame /\ UNCHANGED state

\* Mutant: without F8.
RefusedBeforeF8(u, w) == IF u = Owner THEN w \in {"demote", "delete"} ELSE w = "promote"

\* The checks of updateUser and deleteUser on the row they read: roles are
\* fixed, the owner is neither disabled nor deleted.
Refused(u, w) == IF u = Owner THEN w \in {"demote", "disable", "delete"} ELSE w = "promote"

\* updateUserAction, updateUserQuotaAction and deleteUserAction read the row
\* first; nobody deletes himself.
ReadCurrent(b) ==
    /\ Manages(b)
    /\ \E u \in User, w \in Write :
         /\ account[u].here /\ ~Refused(u, w) /\ ~(w = "delete" /\ u = cookie[b])
         /\ Visit(b, [Relaxed EXCEPT !.pc = "write", !.user = u, !.write = w])
    /\ ActSame /\ UNCHANGED <<account, state, enabledAt>>

Written(row, w) ==
    [row EXCEPT !.here = (w # "delete"),
                !.enabled = CASE w = "disable" -> FALSE [] w = "enable" -> TRUE [] OTHER -> @]

\* A new quota is no part of what the cache holds.
WriteUser(b) ==
    /\ visit[b].pc = "write"
    /\ LET u == visit[b].user IN
       IF account[u].here THEN Put(u, Written(account[u], visit[b].write))
       ELSE UNCHANGED <<account, enabledAt>>
    /\ Visit(b, IF visit[b].write = "quota" THEN Relaxed ELSE [visit[b] EXCEPT !.pc = "forget"])
    /\ ActSame /\ UNCHANGED state

\* invalidateUserStateCache.
Forget(b) ==
    /\ visit[b].pc = "forget"
    /\ state' = [state EXCEPT ![visit[b].user] = NoState]
    /\ Visit(b, Relaxed)
    /\ ActSame /\ UNCHANGED <<account, enabledAt>>

Pass ==
    /\ tick < LastTick
    /\ \A b \in Browser : visit[b].pc \in {"state", "fill"} => tick - visit[b].start < SlowQuery
    /\ \A b \in Browser : visit[b].pc # "act"
    /\ tick' = tick + 1
    /\ enabledAt' = [u \in User |-> IF Enabled(u) THEN tick + 1 ELSE enabledAt[u]]
    /\ UNCHANGED <<account, cookie, state, visit, hits, logins>>

AccessNext ==
    \/ \E b \in Browser :
         \/ Attempt(b) \/ ReadRow(b) \/ Verify(b) \/ Logout(b)
         \/ Ask(b) \/ ReadState(b) \/ FillState(b) \/ Serve(b)
         \/ CreateUser(b) \/ ResetPassword(b) \/ ReadCurrent(b) \/ WriteUser(b) \/ Forget(b)
    \/ Pass

AccessSpec == AccessInit /\ [][AccessNext]_accessVars

-----------------------------------------------------------------------------
(* Properties.                                                              *)

\* One cache window, or one slow query.
LongestGrace == IF SlowQuery >= UserStateTTL THEN SlowQuery ELSE UserStateTTL - 1

\* "An owner who disables a hostile admin waits at most one cache window":
\* a request is admitted only for an account that was enabled less than one
\* window ago, even when a lookup that read before the change fills the
\* cache after it was emptied (auth-check.ts 34-51).
RevocationIsPrompt ==
    \A b \in Browser : visit[b].pc = "act" =>
      /\ enabledAt[visit[b].user] # -1
      /\ tick - enabledAt[visit[b].user] <= LongestGrace

\* No sequence of admin actions locks everybody out (users.ts, F8).
OwnerStays == Enabled(Owner)

\* In every window at most LoginMax attempts on one account reach the
\* password check, whatever the sweep and the refusals did to the bucket.
LoginsAreLimited ==
    \A u \in User, t \in Instant :
      Cardinality({h \in logins[u] : h.at > t - LoginWindow /\ h.at <= t}) <= LoginMax
=============================================================================
